------------------------------ MODULE PmProofs ------------------------------
(***************************************************************************)
(* Proofs about Pm, for any number of processes, exit codes and arguments, *)
(* while int_handle is not preempted.                                      *)
(***************************************************************************)
EXTENDS Pm, ListProofs

\* Fork_uthread finds the first free entry when there is one: the set of the
\* entries up to x that are free is a smallest one for the first x.
LEMMA FirstFree ==
    ASSUME NEW S, S \subseteq Pids, S # {}
    PROVE  \E q \in S : \A x \in S : q <= x
<1>1. NProcs \in Int /\ Pids = 1 .. NProcs
  BY ArgsAssumption DEF Pids
<1>2. S \subseteq Nat
  BY <1>1
<1> QED
  BY <1>2, Least

LEMMA CallFacts ==
    ASSUME NEW c \in Calls
    PROVE  /\ c.type \in {"fork", "exit", "waitpid", "exec"}
           /\ c.type = "waitpid" => c.p1 \in Pids /\ c = [type |-> "waitpid", p1 |-> c.p1]
           /\ c.type = "exit" => c.p1 \in Nat
BY ArgsAssumption DEF Calls

\* The message that int_handle fills, before and after send.
LEMMA FilledFields ==
    ASSUME NEW p \in Pids, NEW c \in Calls
    PROVE  /\ Filled(p, c) \in Fields
           /\ [Filled(p, c) EXCEPT !.src = p] \in Fields
           /\ [Filled(p, c) EXCEPT !.src = p] =
                 [src |-> p, type |-> c.type, pid |-> p, p1 |-> Filled(p, c).p1]
           /\ c.type = "waitpid" => Filled(p, c).p1 = c.p1
           /\ Filled(p, c).type = c.type /\ Filled(p, c).pid = p
<1>1. Pids \subseteq Nat
  BY ArgsAssumption DEF Pids
<1>2. IF c.type \in {"exit", "waitpid"} THEN c.p1 \in Nat ELSE TRUE
  BY <1>1, CallFacts
<1>3. c.type \in {"fork", "exit", "waitpid", "exec"}
  BY CallFacts
<1> QED
  BY <1>1, <1>2, <1>3 DEF Filled, Fields, ANY

LEMMA Ids == PM \notin Pids /\ Pids \subseteq Nat \ {0}
BY ArgsAssumption DEF Pids, PM

\* What is known of the variables when a step begins.
Typed ==
    /\ at \in [Pids -> At]
    /\ call \in [Pids -> Calls \cup {NoCall}]
    /\ eax \in [Pids -> Nat]
    /\ queue \in Seq([pid : Pids, wait_for : Pids])
    /\ Len(queue) \in Nat
    /\ \A k \in 1 .. Len(queue) : queue[k].pid \in Pids /\ queue[k].wait_for \in Pids
    /\ box \in [Pids \cup {PM} -> Seq(Fields)]
    /\ \A p \in Pids \cup {PM} : /\ box[p] \in Seq(Fields) /\ Len(box[p]) \in Nat
                                 /\ \A k \in 1 .. Len(box[p]) : box[p][k] \in Fields
                                 /\ box[p] # <<>> => 1 \in 1 .. Len(box[p])

LEMMA InvTyped ==
    ASSUME CallsInv
    PROVE  Typed
<1>1. /\ at \in [Pids -> At] /\ call \in [Pids -> Calls \cup {NoCall}] /\ eax \in [Pids -> Nat]
      /\ queue \in Seq([pid : Pids, wait_for : Pids]) /\ box \in [Pids \cup {PM} -> Seq(Fields)]
  BY DEF CallsInv, PmTypeOK
<1>2. Len(queue) \in Nat /\ \A k \in 1 .. Len(queue) : queue[k] \in [pid : Pids, wait_for : Pids]
  BY <1>1, LenProperties, ElementOfSeq
<1>3. ASSUME NEW p \in Pids \cup {PM}
      PROVE  /\ box[p] \in Seq(Fields) /\ Len(box[p]) \in Nat
             /\ \A k \in 1 .. Len(box[p]) : box[p][k] \in Fields
             /\ box[p] # <<>> => 1 \in 1 .. Len(box[p])
  <2>1. box[p] \in Seq(Fields)
    BY <1>1
  <2>2. Len(box[p]) \in Nat /\ \A k \in 1 .. Len(box[p]) : box[p][k] \in Fields
    BY <2>1, LenProperties, ElementOfSeq
  <2>3. box[p] # <<>> => Len(box[p]) # 0
    BY <2>1, EmptySeq
  <2> QED
    BY <2>1, <2>2, <2>3
<1> QED
  BY <1>1, <1>2, <1>3 DEF Typed

(***************************************************************************)
(* A step concerns a few processes, X.  What it leaves as it was.          *)
(***************************************************************************)
Untouched(X) ==
    \A p \in Pids \ X : at'[p] = at[p] /\ call'[p] = call[p] /\ box'[p] = box[p]

NotQueued(x) == \A k \in 1 .. Len(queue) : queue[k].pid # x

NotAsked(x) == \A k \in 1 .. Len(box[PM]) : box[PM][k].pid # x

BusyWith(x) == pm.at \in {"serve", "fork", "exec"} /\ pm.m.pid = x

StillOut(X) == \A x \in Pids \ X : NotQueued(x) => NotQueued(x)'

\* An answer for x, if there is one, is one that x waits for.
Awaited(x) ==
    box[x] # <<>> => /\ Len(box[x]) = 1 /\ at[x] = "waits" /\ call[x].type \in {"fork", "waitpid"}
                     /\ box[x][1].src = PM

\* A process that runs, or has its answer, has no call anywhere else.
LEMMA Elsewhere ==
    ASSUME CallsInv, NEW x \in Pids, at[x] # "waits" \/ box[x] # <<>>
    PROVE  /\ NotQueued(x) /\ NotAsked(x) /\ ~BusyWith(x)
           /\ at[x] # "waits" => box[x] = <<>>
<1>1. WaitersBlocked /\ AnswersAwaited /\ Requests /\ Served
  BY DEF CallsInv
<1>2. NotQueued(x)
  BY <1>1 DEF WaitersBlocked, NotQueued
<1>3. NotAsked(x)
  BY <1>1 DEF Requests, Asks, NotAsked
<1>4. ~BusyWith(x)
  BY <1>1 DEF Served, Asks, BusyWith
<1>5. at[x] # "waits" => box[x] = <<>>
  BY <1>1 DEF AnswersAwaited
<1> QED
  BY <1>2, <1>3, <1>4, <1>5

\* A process that is served has its call nowhere else.
LEMMA OnlyServed ==
    ASSUME CallsInv, pm.at \in {"serve", "fork", "exec"}
    PROVE  /\ Asks(pm.m) /\ pm.m.pid \in Pids /\ NotQueued(pm.m.pid) /\ NotAsked(pm.m.pid)
           /\ at[pm.m.pid] = "waits" /\ call[pm.m.pid] \in Calls /\ box[pm.m.pid] = <<>>
           /\ pm.m.src = pm.m.pid /\ pm.m.type = call[pm.m.pid].type
           /\ pm.m.type = "waitpid" =>
                 pm.m.p1 \in Pids /\ call[pm.m.pid] = [type |-> "waitpid", p1 |-> pm.m.p1]
<1>1. Asks(pm.m) /\ NotAsked(pm.m.pid)
  BY DEF CallsInv, Served, NotAsked
<1>2. NotQueued(pm.m.pid)
  BY <1>1 DEF Asks, NotQueued
<1> DEFINE p == pm.m.pid
<1>3. /\ p \in Pids /\ at[p] = "waits" /\ call[p] \in Calls /\ box[p] = <<>>
      /\ pm.m = [Filled(p, call[p]) EXCEPT !.src = p]
  BY <1>1 DEF Asks
<1> HIDE DEF p
<1>4. /\ pm.m = [src |-> p, type |-> call[p].type, pid |-> p, p1 |-> Filled(p, call[p]).p1]
      /\ call[p].type = "waitpid" => Filled(p, call[p]).p1 = call[p].p1
  BY <1>3, FilledFields
<1>5. call[p].type = "waitpid" =>
         call[p].p1 \in Pids /\ call[p] = [type |-> "waitpid", p1 |-> call[p].p1]
  BY <1>3, CallFacts
<1>6. pm.m.src = p /\ pm.m.type = call[p].type /\ pm.m.p1 = Filled(p, call[p]).p1
  BY <1>4
<1>7. pm.m.type = "waitpid" => pm.m.p1 = call[p].p1
  BY <1>4, <1>6
<1>8. pm.m.type = "waitpid" => pm.m.p1 \in Pids /\ call[p] = [type |-> "waitpid", p1 |-> pm.m.p1]
  BY <1>5, <1>6, <1>7
<1> QED
  BY <1>1, <1>2, <1>3, <1>6, <1>8 DEF p

LEMMA AsksKept ==
    ASSUME NEW X, Untouched(X), StillOut(X), NEW r, Asks(r), r.pid \notin X
    PROVE  Asks(r)'
<1>1. r.pid \in Pids \ X /\ NotQueued(r.pid)
  BY DEF Asks, NotQueued
<1>2. at'[r.pid] = at[r.pid] /\ call'[r.pid] = call[r.pid] /\ box'[r.pid] = box[r.pid]
  BY <1>1 DEF Untouched
<1>3. \A k \in 1 .. Len(queue') : queue'[k].pid # r.pid
  BY <1>1 DEF StillOut, NotQueued
<1> QED
  BY <1>1, <1>2, <1>3 DEF Asks, Filled

LEMMA WaitersKept ==
    ASSUME CallsInv, NEW X, Untouched(X), \A x \in X : NotQueued(x), queue' = queue
    PROVE  WaitersBlocked'
<1>1. WaitersBlocked /\ Typed
  BY InvTyped DEF CallsInv
<1>2. \A k \in 1 .. Len(queue) : queue[k].pid \in Pids \ X
  BY <1>1 DEF NotQueued, Typed
<1> QED
  BY <1>1, <1>2 DEF WaitersBlocked, Untouched

\* What was asked before is asked still.
LEMMA RequestKept ==
    ASSUME CallsInv, NEW X, Untouched(X), StillOut(X), \A x \in X : NotAsked(x),
           NEW k \in 1 .. Len(box[PM]), NEW r, r = box[PM][k]
    PROVE  Asks(r) /\ Asks(r)' /\ r.pid \notin X
<1>1. Asks(r)
  BY DEF CallsInv, Requests
<1>2. r.pid \notin X
  BY DEF NotAsked
<1> QED
  BY <1>1, <1>2, AsksKept

LEMMA RequestsKept ==
    ASSUME CallsInv, NEW X, Untouched(X), StillOut(X), \A x \in X : NotAsked(x), box'[PM] = box[PM]
    PROVE  Requests'
<1>1. Requests
  BY DEF CallsInv
<1>2. ASSUME NEW k \in 1 .. Len(box'[PM]) PROVE Asks(box[PM][k])'
  <2>1. PICK r : r = box[PM][k]
    OBVIOUS
  <2>2. Asks(r)'
    BY <2>1, RequestKept
  <2>3. r = box'[PM][k]
    BY <2>1
  <2> QED
    BY <2>2, <2>3
<1>3. \A k, j \in 1 .. Len(box'[PM]) : box'[PM][j].pid = box'[PM][k].pid => j = k
  BY <1>1 DEF Requests
<1> QED
  BY <1>2, <1>3 DEF Requests

LEMMA AnswersKept ==
    ASSUME CallsInv, NEW X, Untouched(X), \A x \in X \cap Pids : Awaited(x)'
    PROVE  AnswersAwaited' /\ \A p \in Pids : box'[p] # <<>> => box'[p][1].src = PM
<1>1. AnswersAwaited /\ \A p \in Pids : box[p] # <<>> => box[p][1].src = PM
  BY DEF CallsInv
<1>2. \A x \in X \cap Pids :
         box'[x] # <<>> => /\ Len(box'[x]) = 1 /\ at'[x] = "waits"
                           /\ call'[x].type \in {"fork", "waitpid"} /\ box'[x][1].src = PM
  BY DEF Awaited
<1> QED
  BY <1>1, <1>2 DEF AnswersAwaited, Untouched

LEMMA ServedKept ==
    ASSUME CallsInv, NEW X, Untouched(X), StillOut(X), \A x \in X : ~BusyWith(x) /\ at[x] # "free",
           box'[PM] = box[PM], pm' = pm
    PROVE  Served' /\ PmRecord'
<1>1. Served /\ PmRecord
  BY DEF CallsInv
<1>2. PICK r : r = pm.m
  OBVIOUS
<1>3. pm.at \in {"serve", "fork", "exec"} => Asks(r)'
  <2> SUFFICES ASSUME pm.at \in {"serve", "fork", "exec"} PROVE Asks(r)'
    OBVIOUS
  <2>1. Asks(r) /\ r.pid \notin X
    BY <1>1, <1>2 DEF Served, BusyWith
  <2> QED
    BY <2>1, AsksKept
<1>4. \A p \in Free : p \in Free'
  BY DEF Free, Untouched
<1>5. r = pm'.m
  BY <1>2
<1>6. PmRecord'
  BY <1>1 DEF PmRecord
<1>7. Served'
  BY <1>1, <1>3, <1>4, <1>5 DEF Served
<1> QED
  BY <1>6, <1>7

\* A step of a process x with nothing of its own elsewhere.
LEMMA OneSteps ==
    ASSUME CallsInv, NEW x \in Pids, NotQueued(x), NotAsked(x), ~BusyWith(x), at[x] # "free",
           Untouched({x}), queue' = queue, pm' = pm, box'[PM] = box[PM], Awaited(x)'
    PROVE  /\ WaitersBlocked' /\ AnswersAwaited' /\ Requests' /\ Served' /\ PmRecord'
           /\ \A p \in Pids : box'[p] # <<>> => box'[p][1].src = PM
<1>1. StillOut({x})
  BY DEF StillOut, NotQueued
<1>2. WaitersBlocked'
  BY WaitersKept
<1>3. AnswersAwaited' /\ \A p \in Pids : box'[p] # <<>> => box'[p][1].src = PM
  BY AnswersKept
<1>4. Requests'
  BY <1>1, RequestsKept
<1>5. Served' /\ PmRecord'
  BY <1>1, ServedKept
<1> QED
  BY <1>2, <1>3, <1>4, <1>5

LEMMA FillKeeps ==
    ASSUME ~Preemptible, CallsInv, NEW x \in Pids, NEW c \in Calls, Fill(x, c), halt = "none"
    PROVE  CallsInv'
<1>1. Typed /\ PmTypeOK /\ OwnMessage
  BY InvTyped DEF CallsInv
<1>2. /\ at[x] = "user" /\ \A q \in Pids \ {x} : at[q] \notin {"filled", "got"}
      /\ at' = [at EXCEPT ![x] = "filled"] /\ call' = [call EXCEPT ![x] = c]
      /\ m' = Filled(x, c) /\ eax' = [eax EXCEPT ![x] = 0]
      /\ box' = box /\ pm' = pm /\ queue' = queue /\ halt' = halt
  BY DEF Fill, MayRun
<1>3. /\ at' \in [Pids -> At] /\ call' \in [Pids -> Calls \cup {NoCall}] /\ eax' \in [Pids -> Nat]
      /\ at'[x] = "filled" /\ call'[x] = c
      /\ \A q \in Pids \ {x} : at'[q] = at[q] /\ call'[q] = call[q]
  BY <1>1, <1>2 DEF Typed, At
<1>4. NotQueued(x) /\ NotAsked(x) /\ ~BusyWith(x) /\ box[x] = <<>>
  BY <1>2, Elsewhere
<1>5. /\ WaitersBlocked' /\ AnswersAwaited' /\ Requests' /\ Served' /\ PmRecord'
      /\ \A p \in Pids : box'[p] # <<>> => box'[p][1].src = PM
  <2>1. Untouched({x}) /\ Awaited(x)'
    BY <1>2, <1>3, <1>4 DEF Untouched, Awaited
  <2> QED
    BY <1>2, <1>4, <2>1, OneSteps
<1>6. PmTypeOK'
  BY <1>1, <1>2, <1>3 DEF PmTypeOK
<1>7. OwnMessage'
  <2>1. \A p, q \in Pids : {at'[p], at'[q]} \subseteq {"filled", "got"} => p = q
    BY <1>2, <1>3
  <2>2. ASSUME NEW p \in Pids
        PROVE  /\ at'[p] \in {"filled", "waits", "got"} => call'[p] \in Calls
               /\ at'[p] = "filled" => m' = Filled(p, call'[p])
               /\ at'[p] = "got" => m' \in Fields /\ call'[p].type \in {"fork", "waitpid"}
    <3>1. CASE p = x
      BY <1>2, <1>3, <3>1
    <3>2. CASE p # x
      BY <1>1, <1>2, <1>3, <3>2 DEF OwnMessage
    <3> QED
      BY <3>1, <3>2
  <2> QED
    BY <2>1, <2>2 DEF OwnMessage, Filled
<1>8. /\ queue' \in Seq([pid : Pids, wait_for : Pids]) /\ box' \in [Pids \cup {PM} -> Seq(Fields)]
      /\ halt' # "impossible"
  BY <1>1, <1>2 DEF Typed
<1> QED
  BY <1>5, <1>6, <1>7, <1>8 DEF CallsInv

\* m is read by nobody else.
LEMMA OthersMessage ==
    ASSUME CallsInv, NEW x \in Pids, \A q \in Pids \ {x} : at[q] \notin {"filled", "got"},
           \A q \in Pids \ {x} : at'[q] = at[q] /\ call'[q] = call[q],
           at'[x] \in {"waits", "user"}, at'[x] = "waits" => call'[x] \in Calls
    PROVE  OwnMessage'
<1>1. OwnMessage
  BY DEF CallsInv
<1>2. \A p \in Pids : at'[p] \notin {"filled", "got"}
  OBVIOUS
<1>3. \A p \in Pids : at'[p] \in {"filled", "waits", "got"} => call'[p] \in Calls
  BY <1>1, <1>2 DEF OwnMessage
<1> QED
  BY <1>2, <1>3 DEF OwnMessage

LEMMA ReturnKeeps ==
    ASSUME ~Preemptible, CallsInv, NEW x \in Pids, Return(x), halt = "none"
    PROVE  CallsInv'
<1>1. Typed /\ PmTypeOK /\ OwnMessage
  BY InvTyped DEF CallsInv
<1>2. /\ at[x] = "got" /\ \A q \in Pids \ {x} : at[q] \notin {"filled", "got"}
      /\ box' = box /\ pm' = pm /\ queue' = queue
  BY DEF Return, MayRun
<1>3. call[x].type \in {"fork", "waitpid"} /\ m \in Fields
  BY <1>1, <1>2 DEF OwnMessage
<1>4. m.p1 \in Nat
  BY <1>3 DEF Fields
<1>5. /\ eax' = [eax EXCEPT ![x] = m.p1] /\ call' = [call EXCEPT ![x] = NoCall]
      /\ at' = [at EXCEPT ![x] = "user"] /\ halt' = halt
  BY <1>3 DEF Return
<1>6. /\ at' \in [Pids -> At] /\ call' \in [Pids -> Calls \cup {NoCall}] /\ eax' \in [Pids -> Nat]
      /\ at'[x] = "user"
      /\ \A q \in Pids \ {x} : at'[q] = at[q] /\ call'[q] = call[q]
  BY <1>1, <1>4, <1>5 DEF Typed, At
<1>7. NotQueued(x) /\ NotAsked(x) /\ ~BusyWith(x) /\ box[x] = <<>>
  BY <1>2, Elsewhere
<1>8. /\ WaitersBlocked' /\ AnswersAwaited' /\ Requests' /\ Served' /\ PmRecord'
      /\ \A p \in Pids : box'[p] # <<>> => box'[p][1].src = PM
  <2>1. Untouched({x}) /\ Awaited(x)'
    BY <1>2, <1>6, <1>7 DEF Untouched, Awaited
  <2> QED
    BY <1>2, <1>7, <2>1, OneSteps
<1>9. PmTypeOK'
  BY <1>1, <1>2, <1>5, <1>6 DEF PmTypeOK
<1>10. OwnMessage'
  BY <1>2, <1>6, OthersMessage
<1>11. /\ queue' \in Seq([pid : Pids, wait_for : Pids]) /\ box' \in [Pids \cup {PM} -> Seq(Fields)]
       /\ halt' # "impossible"
  BY <1>1, <1>2, <1>5 DEF Typed
<1> QED
  BY <1>8, <1>9, <1>10, <1>11 DEF CallsInv

LEMMA ReceiveKeeps ==
    ASSUME ~Preemptible, CallsInv, NEW x \in Pids, Receive(x), halt = "none"
    PROVE  CallsInv'
<1>1. Typed /\ PmTypeOK /\ OwnMessage /\ AnswersAwaited
  BY InvTyped DEF CallsInv
<1>2. /\ at[x] = "waits" /\ \A q \in Pids \ {x} : at[q] \notin {"filled", "got"}
      /\ at' = [at EXCEPT ![x] = "got"]
      /\ call' = call /\ eax' = eax /\ pm' = pm /\ queue' = queue /\ halt' = halt
  BY DEF Receive, MayRun
<1>3. PICK k \in Oldest(x, PM) : Collect(x, k) /\ m' = box[x][k]
  BY DEF Receive
<1>4. k \in 1 .. Len(box[x])
  BY <1>3 DEF Oldest
<1>5. Len(box[x]) \in Nat /\ box[x] \in Seq(Fields) /\ box[x] # <<>>
  BY <1>1, <1>4, EmptySeq DEF Typed
<1>6. Len(box[x]) = 1 /\ call[x].type \in {"fork", "waitpid"} /\ m' \in Fields
  BY <1>1, <1>3, <1>4, <1>5 DEF AnswersAwaited, Typed
<1>7. RemoveAt(box[x], k) = <<>>
  <2>1. RemoveAt(box[x], k) \in Seq(Fields) /\ Len(RemoveAt(box[x], k)) = Len(box[x]) - 1
    BY <1>4, <1>5, RemoveAtElements
  <2> QED
    BY <1>6, <2>1, EmptySeq
<1>8. box' = [box EXCEPT ![x] = <<>>]
  BY <1>3, <1>7 DEF Collect
<1>9. /\ box'[x] = <<>> /\ \A q \in Pids \ {x} : box'[q] = box[q]
      /\ box'[PM] = box[PM] /\ box' \in [Pids \cup {PM} -> Seq(Fields)]
  BY <1>1, <1>8, Ids, EmptySeq DEF Typed
<1>10. /\ at' \in [Pids -> At] /\ at'[x] = "got" /\ \A q \in Pids \ {x} : at'[q] = at[q]
  BY <1>1, <1>2 DEF Typed, At
<1>11. NotQueued(x) /\ NotAsked(x) /\ ~BusyWith(x)
  BY <1>5, Elsewhere
<1>12. /\ WaitersBlocked' /\ AnswersAwaited' /\ Requests' /\ Served' /\ PmRecord'
       /\ \A p \in Pids : box'[p] # <<>> => box'[p][1].src = PM
  <2>1. Untouched({x}) /\ Awaited(x)'
    BY <1>2, <1>9, <1>10 DEF Untouched, Awaited
  <2> QED
    BY <1>2, <1>9, <1>11, <2>1, OneSteps
<1>13. PmTypeOK'
  BY <1>1, <1>2, <1>10 DEF PmTypeOK
<1>14. OwnMessage'
  <2>1. \A p, q \in Pids : {at'[p], at'[q]} \subseteq {"filled", "got"} => p = q
    BY <1>2, <1>10
  <2>2. ASSUME NEW p \in Pids
        PROVE  /\ at'[p] \in {"filled", "waits", "got"} => call'[p] \in Calls
               /\ at'[p] = "filled" => m' = Filled(p, call'[p])
               /\ at'[p] = "got" => m' \in Fields /\ call'[p].type \in {"fork", "waitpid"}
    <3>1. CASE p = x
      BY <1>1, <1>2, <1>6, <1>10, <3>1 DEF OwnMessage
    <3>2. CASE p # x
      BY <1>1, <1>2, <1>10, <3>2 DEF OwnMessage
    <3> QED
      BY <3>1, <3>2
  <2> QED
    BY <2>1, <2>2 DEF OwnMessage, Filled
<1>15. queue' \in Seq([pid : Pids, wait_for : Pids]) /\ halt' # "impossible"
  BY <1>1, <1>2 DEF Typed
<1> QED
  BY <1>9, <1>12, <1>13, <1>14, <1>15 DEF CallsInv

LEMMA SendKeeps ==
    ASSUME ~Preemptible, CallsInv, NEW x \in Pids, Send(x), halt = "none"
    PROVE  CallsInv'
<1>1. Typed /\ PmTypeOK /\ OwnMessage /\ Requests /\ Served /\ PmRecord
  BY InvTyped DEF CallsInv
<1>2. /\ at[x] = "filled" /\ \A q \in Pids \ {x} : at[q] \notin {"filled", "got"}
      /\ at' = [at EXCEPT ![x] = "waits"]
      /\ box' = [box EXCEPT ![PM] = Append(@, Sent(x))]
      /\ call' = call /\ eax' = eax /\ pm' = pm /\ queue' = queue /\ halt' = halt
  BY DEF Send, MayRun, Deliver
<1>3. call[x] \in Calls /\ m = Filled(x, call[x])
  BY <1>1, <1>2 DEF OwnMessage
<1>4. PICK r : r = Sent(x)
  OBVIOUS
<1>5. r = [Filled(x, call[x]) EXCEPT !.src = x]
  BY <1>3, <1>4 DEF Sent
<1>6. r \in Fields /\ r.pid = x
  <2>1. /\ [Filled(x, call[x]) EXCEPT !.src = x] \in Fields
        /\ [Filled(x, call[x]) EXCEPT !.src = x] =
              [src |-> x, type |-> call[x].type, pid |-> x, p1 |-> Filled(x, call[x]).p1]
    BY <1>3, FilledFields
  <2> QED
    BY <1>5, <2>1
<1> DEFINE n == Len(box[PM])
<1>7. /\ box'[PM] = Append(box[PM], r) /\ \A q \in Pids : box'[q] = box[q]
      /\ DOMAIN box' = Pids \cup {PM}
  BY <1>1, <1>2, <1>4, Ids DEF Typed
<1>8. /\ box[PM] \in Seq(Fields) /\ n \in Nat
      /\ box'[PM] \in Seq(Fields) /\ Len(box'[PM]) = n + 1
      /\ \A k \in 1 .. n : box'[PM][k] = box[PM][k]
      /\ box'[PM][n + 1] = r
  <2>1. box[PM] \in Seq(Fields) /\ n \in Nat
    BY <1>1 DEF Typed
  <2> QED
    BY <1>6, <1>7, <2>1, AppendProperties
<1>9. box' \in [Pids \cup {PM} -> Seq(Fields)]
  <2>1. \A q \in Pids \cup {PM} : box'[q] \in Seq(Fields)
    BY <1>1, <1>7, <1>8 DEF Typed
  <2>2. box' = [q \in Pids \cup {PM} |-> box'[q]]
    BY <1>1, <1>2, <1>7 DEF Typed
  <2> QED
    BY <2>1, <2>2
<1>10. /\ at' \in [Pids -> At] /\ at'[x] = "waits" /\ \A q \in Pids \ {x} : at'[q] = at[q]
  BY <1>1, <1>2 DEF Typed, At
<1>11. NotQueued(x) /\ NotAsked(x) /\ ~BusyWith(x) /\ box[x] = <<>>
  BY <1>2, Elsewhere
<1>12. Untouched({x}) /\ StillOut({x}) /\ Awaited(x)'
  BY <1>2, <1>7, <1>10, <1>11 DEF Untouched, StillOut, NotQueued, Awaited
<1>13. WaitersBlocked'
  BY <1>2, <1>11, <1>12, WaitersKept
<1>14. AnswersAwaited' /\ \A p \in Pids : box'[p] # <<>> => box'[p][1].src = PM
  BY <1>12, AnswersKept
<1>15. Asks(r)'
  BY <1>2, <1>3, <1>5, <1>6, <1>7, <1>10, <1>11 DEF Asks, NotQueued, Filled
<1>16. Requests'
  <2>1. ASSUME NEW k \in 1 .. n PROVE Asks(box[PM][k])' /\ box[PM][k].pid # x
    <3>1. PICK e : e = box[PM][k]
      OBVIOUS
    <3>2. Asks(e)' /\ e.pid # x
      BY <1>11, <1>12, <3>1, RequestKept
    <3>3. e = box'[PM][k]
      BY <1>8, <3>1
    <3> QED
      BY <3>1, <3>2, <3>3
  <2>2. 1 .. n + 1 = (1 .. n) \cup {n + 1}
    BY <1>8
  <2>3. ASSUME NEW k \in 1 .. Len(box'[PM]) PROVE Asks(box[PM][k])'
    <3>1. CASE k \in 1 .. n
      BY <2>1, <3>1
    <3>2. CASE k = n + 1
      BY <1>8, <1>15, <3>2
    <3> QED
      BY <1>8, <2>2, <3>1, <3>2
  <2>4. \A k \in 1 .. n : box'[PM][k].pid # x
    BY <1>8, <2>1
  <2>5. \A k, j \in 1 .. n : box'[PM][j].pid = box'[PM][k].pid => j = k
    BY <1>1, <1>8 DEF Requests
  <2>6. \A k, j \in 1 .. Len(box'[PM]) : box'[PM][j].pid = box'[PM][k].pid => j = k
    BY <1>6, <1>8, <2>2, <2>4, <2>5
  <2> QED
    BY <2>3, <2>6 DEF Requests
<1>17. Served' /\ PmRecord'
  <2>1. PICK e : e = pm.m
    OBVIOUS
  <2>2. pm.at \in {"serve", "fork", "exec"} => Asks(e)' /\ \A k \in 1 .. Len(box'[PM]) : box'[PM][k].pid # e.pid
    <3> SUFFICES ASSUME pm.at \in {"serve", "fork", "exec"}
                 PROVE  Asks(e)' /\ \A k \in 1 .. Len(box'[PM]) : box'[PM][k].pid # e.pid
      OBVIOUS
    <3>1. Asks(e) /\ e.pid # x /\ \A k \in 1 .. n : box[PM][k].pid # e.pid
      BY <1>1, <1>11, <2>1 DEF Served, BusyWith
    <3>2. Asks(e)'
      BY <1>12, <3>1, AsksKept
    <3>3. 1 .. n + 1 = (1 .. n) \cup {n + 1}
      BY <1>8
    <3> QED
      BY <1>6, <1>8, <3>1, <3>2, <3>3
  <2>3. \A p \in Free : p \in Free'
    BY <1>2, <1>10 DEF Free
  <2>4. e = pm'.m
    BY <1>2, <2>1
  <2>5. Served'
    BY <1>1, <1>2, <2>2, <2>3, <2>4 DEF Served
  <2> QED
    BY <1>1, <1>2, <2>5 DEF PmRecord
<1>18. PmTypeOK'
  BY <1>1, <1>2, <1>10 DEF PmTypeOK
<1>19. OwnMessage'
  BY <1>2, <1>3, <1>10, OthersMessage
<1>20. queue' \in Seq([pid : Pids, wait_for : Pids]) /\ halt' # "impossible"
  BY <1>1, <1>2 DEF Typed
<1> QED
  BY <1>9, <1>13, <1>14, <1>16, <1>17, <1>18, <1>19, <1>20 DEF CallsInv

(***************************************************************************)
(* The steps of PM.  What the processes have is kept when none of them is  *)
(* concerned, or when those that are, X, have nothing elsewhere.           *)
(***************************************************************************)
LEMMA MessageKept ==
    ASSUME CallsInv, m' = m, NEW X, Untouched(X),
           \A x \in X \cap Pids : at'[x] \in {"free", "user", "waits"},
           \A x \in X \cap Pids : at'[x] = "waits" => call'[x] \in Calls
    PROVE  OwnMessage'
<1>1. OwnMessage
  BY DEF CallsInv
<1>2. \A p \in Pids : at'[p] \in {"filled", "got"} => p \in Pids \ X
  OBVIOUS
<1>3. \A p \in Pids \ X : at'[p] = at[p] /\ call'[p] = call[p]
  BY DEF Untouched
<1>4. \A p, q \in Pids : {at'[p], at'[q]} \subseteq {"filled", "got"} => p = q
  BY <1>1, <1>2, <1>3 DEF OwnMessage
<1>5. ASSUME NEW p \in Pids
      PROVE  /\ at'[p] \in {"filled", "waits", "got"} => call'[p] \in Calls
             /\ at'[p] = "filled" => m' = Filled(p, call'[p])
             /\ at'[p] = "got" => m' \in Fields /\ call'[p].type \in {"fork", "waitpid"}
  <2>1. CASE p \in X
    BY <1>2, <2>1
  <2>2. CASE p \notin X
    BY <1>1, <1>3, <2>2 DEF OwnMessage
  <2> QED
    BY <2>1, <2>2
<1> QED
  BY <1>4, <1>5 DEF OwnMessage, Filled

LEMMA PmReceiveKeeps ==
    ASSUME CallsInv, PmReceive, halt = "none"
    PROVE  CallsInv'
<1>1. Typed /\ PmTypeOK /\ Requests /\ PmRecord
  BY InvTyped DEF CallsInv
<1>2. PICK k \in Oldest(PM, ANY) :
         Collect(PM, k) /\ pm' = [pm EXCEPT !.at = "serve", !.m = box[PM][k]]
  BY DEF PmReceive
<1>3. /\ m' = m /\ at' = at /\ call' = call /\ eax' = eax /\ queue' = queue /\ halt' = halt
  BY DEF PmReceive
<1> DEFINE n == Len(box[PM])
<1>4. box[PM] \in Seq(Fields) /\ n \in Nat /\ k \in 1 .. n
  BY <1>1, <1>2 DEF Typed, Oldest
<1>5. k = 1
  <2>1. \A j \in 1 .. k - 1 : ~Accepts(ANY, box[PM][j])
    BY <1>2 DEF Oldest
  <2>2. k > 1 => 1 \in 1 .. k - 1
    BY <1>4
  <2> QED
    BY <1>4, <2>1, <2>2 DEF Accepts
<1>6. /\ box'[PM] = RemoveAt(box[PM], 1) /\ \A q \in Pids : box'[q] = box[q]
      /\ DOMAIN box' = Pids \cup {PM} /\ box' = [box EXCEPT ![PM] = RemoveAt(@, 1)]
  BY <1>1, <1>2, <1>5, Ids DEF Typed, Collect
<1>7. /\ box'[PM] \in Seq(Fields) /\ Len(box'[PM]) = n - 1
      /\ \A i \in 1 .. n - 1 : box'[PM][i] = box[PM][i + 1]
  <2>1. /\ RemoveAt(box[PM], 1) \in Seq(Fields) /\ Len(RemoveAt(box[PM], 1)) = Len(box[PM]) - 1
        /\ \A i \in 1 .. Len(box[PM]) - 1 :
              RemoveAt(box[PM], 1)[i] = IF i < 1 THEN box[PM][i] ELSE box[PM][i + 1]
    BY <1>4, <1>5, RemoveAtElements
  <2> QED
    BY <1>4, <1>6, <2>1
<1>8. box' \in [Pids \cup {PM} -> Seq(Fields)]
  <2>1. \A q \in Pids \cup {PM} : box'[q] \in Seq(Fields)
    BY <1>1, <1>6, <1>7 DEF Typed
  <2>2. box' = [q \in Pids \cup {PM} |-> box'[q]]
    BY <1>1, <1>6 DEF Typed
  <2> QED
    BY <2>1, <2>2
<1>9. Untouched({}) /\ StillOut({})
  BY <1>3, <1>6 DEF Untouched, StillOut, NotQueued
<1>10. WaitersBlocked'
  BY <1>3, <1>9, WaitersKept
<1>11. AnswersAwaited' /\ \A p \in Pids : box'[p] # <<>> => box'[p][1].src = PM
  BY <1>9, AnswersKept
<1>12. ASSUME NEW i \in 1 .. n, NEW e, e = box[PM][i] PROVE Asks(e)'
  BY <1>9, <1>12, RequestKept
<1>13. \A i, j \in 1 .. n : box[PM][j].pid = box[PM][i].pid => j = i
  BY <1>1 DEF Requests
<1>14. Requests'
  <2>1. ASSUME NEW i \in 1 .. Len(box'[PM]) PROVE Asks(box[PM][i])'
    <3>1. i + 1 \in 1 .. n
      BY <1>4, <1>7
    <3>2. PICK e : e = box[PM][i + 1]
      OBVIOUS
    <3>3. Asks(e)'
      BY <1>12, <3>1, <3>2
    <3>4. e = box'[PM][i]
      BY <1>7, <3>2
    <3> QED
      BY <3>3, <3>4
  <2>2. ASSUME NEW i \in 1 .. Len(box'[PM]), NEW j \in 1 .. Len(box'[PM]),
               box'[PM][j].pid = box'[PM][i].pid
        PROVE  j = i
    <3>1. i + 1 \in 1 .. n /\ j + 1 \in 1 .. n /\ box[PM][j + 1].pid = box[PM][i + 1].pid
      BY <1>4, <1>7, <2>2
    <3>2. j + 1 = i + 1
      BY <1>13, <3>1
    <3> QED
      BY <1>4, <1>7, <3>2
  <2> QED
    BY <2>1, <2>2 DEF Requests
<1>15. PICK r : r = box[PM][1]
  OBVIOUS
<1>16. /\ pm'.at = "serve" /\ pm'.m = r /\ r \in Fields
       /\ pm' = [at |-> pm'.at, m |-> pm'.m, new |-> pm'.new, i |-> pm'.i, argv |-> pm'.argv]
  BY <1>1, <1>2, <1>4, <1>5, <1>15 DEF PmRecord, Typed
<1>17. Served'
  <2>1. Asks(r)'
    BY <1>4, <1>5, <1>12, <1>15
  <2>2. ASSUME NEW i \in 1 .. Len(box'[PM]), box'[PM][i].pid = r.pid PROVE FALSE
    <3>1. i + 1 \in 1 .. n /\ 1 \in 1 .. n /\ box[PM][i + 1].pid = box[PM][1].pid
      BY <1>4, <1>7, <1>15, <2>2
    <3>2. i + 1 = 1
      BY <1>13, <3>1
    <3> QED
      BY <1>4, <1>7, <3>2
  <2> QED
    BY <1>16, <2>1, <2>2 DEF Served
<1>18. PmRecord'
  BY <1>16 DEF PmRecord
<1>19. PmTypeOK'
  BY <1>1, <1>3, <1>16 DEF PmTypeOK, PmAt
<1>20. OwnMessage'
  BY <1>3, <1>9, MessageKept
<1>21. queue' \in Seq([pid : Pids, wait_for : Pids]) /\ halt' # "impossible"
  BY <1>1, <1>3 DEF Typed
<1> QED
  BY <1>8, <1>10, <1>11, <1>14, <1>17, <1>18, <1>19, <1>20, <1>21 DEF CallsInv

\* A step that changes pm, or a call that ends, and nothing of the messages.
LEMMA PmSteps ==
    ASSUME CallsInv, NEW X, X \subseteq Pids, Untouched(X), queue' = queue, m' = m, halt' # "impossible",
           \A x \in X : NotQueued(x) /\ NotAsked(x) /\ Awaited(x)',
           \A x \in X : at'[x] \in {"free", "user", "waits"},
           \A x \in X : at'[x] = "waits" => call'[x] \in Calls,
           box' \in [Pids \cup {PM} -> Seq(Fields)], box'[PM] = box[PM],
           PmTypeOK', PmRecord', Served'
    PROVE  CallsInv'
<1>1. StillOut(X) /\ Typed
  BY InvTyped DEF StillOut, NotQueued
<1>2. WaitersBlocked'
  BY WaitersKept
<1>3. AnswersAwaited' /\ \A p \in Pids : box'[p] # <<>> => box'[p][1].src = PM
  BY AnswersKept
<1>4. Requests'
  BY <1>1, RequestsKept
<1>5. OwnMessage'
  BY MessageKept
<1>6. queue' \in Seq([pid : Pids, wait_for : Pids])
  BY <1>1 DEF Typed
<1> QED
  BY <1>2, <1>3, <1>4, <1>5, <1>6 DEF CallsInv

LEMMA ForkBeginsKeeps ==
    ASSUME CallsInv, ForkBegins, halt = "none"
    PROVE  CallsInv'
<1>1. Typed /\ PmTypeOK /\ PmRecord /\ Served
  BY InvTyped DEF CallsInv
<1>2. /\ pm.at = "serve" /\ pm.m.type = "fork"
      /\ m' = m /\ at' = at /\ call' = call /\ eax' = eax /\ queue' = queue
  BY DEF ForkBegins, Serves
<1>3. CASE Free = {}
  <2>1. halt' = "full" /\ box' = box /\ pm' = pm
    BY <1>3 DEF ForkBegins
  <2>2. Untouched({}) /\ StillOut({})
    BY <1>2, <2>1 DEF Untouched, StillOut, NotQueued
  <2>3. Served' /\ PmRecord'
    BY <2>1, <2>2, ServedKept
  <2>4. PmTypeOK'
    BY <1>1, <1>2, <2>1 DEF PmTypeOK
  <2>5. box' \in [Pids \cup {PM} -> Seq(Fields)]
    BY <1>1, <2>1 DEF Typed
  <2> QED
    BY <1>2, <2>1, <2>2, <2>3, <2>4, <2>5, PmSteps
<1>4. CASE Free # {}
  <2> DEFINE q == CHOOSE x \in Free : \A y \in Free : x <= y
  <2>1. q \in Free
    <3>1. Free \subseteq Pids
      BY DEF Free
    <3>2. \E x \in Free : \A y \in Free : x <= y
      BY <1>4, <3>1, FirstFree
    <3> QED
      BY <3>2
  <2>2. /\ pm' = [pm EXCEPT !.at = "fork", !.new = q] /\ box' = [box EXCEPT ![pm'.new] = <<>>]
        /\ halt' = halt
    BY <1>4 DEF ForkBegins, EmptyPool
  <2> HIDE DEF q
  <2>3. q \in Pids /\ at[q] = "free"
    BY <2>1 DEF Free
  <2>4. /\ pm'.at = "fork" /\ pm'.new = q /\ pm'.m = pm.m
        /\ pm' = [at |-> pm'.at, m |-> pm'.m, new |-> pm'.new, i |-> pm'.i, argv |-> pm'.argv]
    BY <1>1, <2>2 DEF PmRecord
  <2>5. box' = box
    <3>1. box[q] = <<>>
      BY <2>3, Elsewhere
    <3> QED
      BY <1>1, <2>2, <2>4, <3>1 DEF Typed
  <2>6. Untouched({}) /\ StillOut({})
    BY <1>2, <2>5 DEF Untouched, StillOut, NotQueued
  <2>7. PICK e : e = pm.m
    OBVIOUS
  <2>8. Asks(e)' /\ \A k \in 1 .. Len(box[PM]) : box[PM][k].pid # e.pid
    <3>1. Asks(e)
      BY <1>2, <2>7, OnlyServed
    <3> QED
      BY <1>1, <1>2, <2>6, <2>7, <3>1, AsksKept DEF Served
  <2>9. Free' = Free
    BY <1>2 DEF Free
  <2>10. e = pm'.m
    BY <2>4, <2>7
  <2>11. Served'
    BY <1>2, <2>1, <2>4, <2>5, <2>7, <2>8, <2>9, <2>10 DEF Served
  <2>12. PmRecord'
    BY <1>1, <1>2, <2>4 DEF PmRecord
  <2>13. PmTypeOK'
    BY <1>1, <1>2, <2>2, <2>3, <2>4 DEF PmTypeOK, PmAt
  <2>14. box' \in [Pids \cup {PM} -> Seq(Fields)] /\ halt' # "impossible"
    BY <1>1, <2>2, <2>5 DEF Typed
  <2> QED
    BY <1>2, <2>5, <2>6, <2>11, <2>12, <2>13, <2>14, PmSteps
<1> QED
  BY <1>3, <1>4

\* PM is done, and waits for the next message.
LEMMA Done ==
    ASSUME PmDone
    PROVE  pm'.at = "top" /\ PmRecord' /\ Served'
BY DEF PmDone, Idle, PmRecord, Served

LEMMA ForkEndsKeeps ==
    ASSUME CallsInv, ForkEnds, halt = "none"
    PROVE  CallsInv'
<1>1. Typed /\ PmTypeOK /\ Served /\ PmRecord
  BY InvTyped DEF CallsInv
<1>0. PICK p, q, a : p = pm.m.pid /\ q = pm.new /\ a = Answer(pm.new)
  OBVIOUS
<1>2. /\ pm.at = "fork" /\ PmDone
      /\ at' = [at EXCEPT ![q] = "user"] /\ eax' = [eax EXCEPT ![q] = 0]
      /\ box' = [box EXCEPT ![pm.m.src] = Append(@, a)]
      /\ m' = m /\ call' = call /\ queue' = queue /\ halt' = halt
  BY <1>0 DEF ForkEnds, ForkReply, Deliver
<1>3. /\ p \in Pids /\ NotQueued(p) /\ NotAsked(p) /\ at[p] = "waits" /\ call[p] \in Calls
      /\ box[p] = <<>> /\ pm.m.src = p /\ call[p].type = "fork"
  BY <1>0, <1>1, <1>2, OnlyServed DEF Served
<1>4. q \in Pids /\ at[q] = "free" /\ q # p
  BY <1>0, <1>1, <1>2, <1>3 DEF Served, Free
<1>5. NotQueued(q) /\ NotAsked(q) /\ box[q] = <<>>
  BY <1>4, Elsewhere
<1>6. a \in Fields /\ a.src = PM
  <2>1. pm.m \in Fields
    BY <1>1, <1>2 DEF PmRecord
  <2>2. pm.m.pid \in Int /\ q \in Nat
    BY <1>0, <2>1, <1>4, Ids DEF Fields
  <2> QED
    BY <1>0, <2>2 DEF Answer, Fields, PM
<1>7. Append(box[p], a) = <<a>>
  BY <1>3
<1>8. /\ box'[p] = <<a>> /\ \A x \in Pids \ {p} : box'[x] = box[x]
      /\ box'[PM] = box[PM] /\ box' \in [Pids \cup {PM} -> Seq(Fields)]
  <2>1. box' = [box EXCEPT ![p] = Append(box[p], a)]
    BY <1>1, <1>2, <1>3 DEF Typed
  <2>2. <<a>> \in Seq(Fields)
    BY <1>6
  <2> QED
    BY <1>1, <1>3, <1>7, <2>1, <2>2, Ids DEF Typed
<1>9. /\ at' \in [Pids -> At] /\ at'[q] = "user" /\ \A x \in Pids \ {q} : at'[x] = at[x]
      /\ eax' \in [Pids -> Nat]
  BY <1>1, <1>2, <1>4 DEF Typed, At
<1>10. Untouched({p, q}) /\ Awaited(p)' /\ Awaited(q)'
  <2>1. Untouched({p, q})
    BY <1>2, <1>8, <1>9 DEF Untouched
  <2>2. Len(<<a>>) = 1 /\ <<a>>[1] = a
    OBVIOUS
  <2>3. box'[q] = <<>>
    BY <1>4, <1>5, <1>8
  <2>4. at'[p] = "waits" /\ call'[p].type = "fork"
    BY <1>2, <1>3, <1>4, <1>9
  <2> QED
    BY <1>6, <1>8, <2>1, <2>2, <2>3, <2>4 DEF Awaited
<1>11. pm'.at = "top" /\ PmRecord' /\ Served'
  BY <1>2, Done
<1>12. PmTypeOK'
  BY <1>1, <1>2, <1>9, <1>11 DEF PmTypeOK, PmAt
<1>13. /\ at'[p] = "waits" /\ call'[p] \in Calls /\ at'[q] = "user"
       /\ {p, q} \subseteq Pids /\ halt' # "impossible"
  BY <1>1, <1>2, <1>3, <1>4, <1>9
<1>14. /\ \A x \in {p, q} : NotQueued(x) /\ NotAsked(x) /\ Awaited(x)'
       /\ \A x \in {p, q} : at'[x] \in {"free", "user", "waits"}
       /\ \A x \in {p, q} : at'[x] = "waits" => call'[x] \in Calls
  BY <1>3, <1>5, <1>10, <1>13
<1> QED
  BY <1>2, <1>8, <1>10, <1>11, <1>12, <1>13, <1>14, PmSteps

LEMMA ExitBeginsKeeps ==
    ASSUME CallsInv, ExitBegins, halt = "none"
    PROVE  CallsInv'
<1>1. Typed /\ PmTypeOK /\ PmRecord
  BY InvTyped DEF CallsInv
<1>0. PICK p : p = pm.m.pid
  OBVIOUS
<1>2. /\ pm.at = "serve" /\ pm' = [pm EXCEPT !.at = "exit"]
      /\ at' = [at EXCEPT ![p] = "free"] /\ call' = [call EXCEPT ![p] = NoCall]
      /\ box' = box /\ m' = m /\ eax' = eax /\ queue' = queue /\ halt' = halt
  BY <1>0 DEF ExitBegins, Serves
<1>3. p \in Pids /\ NotQueued(p) /\ NotAsked(p) /\ box[p] = <<>>
  BY <1>0, <1>2, OnlyServed
<1>4. /\ pm'.at = "exit" /\ pm'.m = pm.m
      /\ pm' = [at |-> pm'.at, m |-> pm'.m, new |-> pm'.new, i |-> pm'.i, argv |-> pm'.argv]
  BY <1>1, <1>2 DEF PmRecord
<1>5. PmRecord'
  BY <1>1, <1>2, <1>4 DEF PmRecord
<1>6. pm'.m.pid = p
  BY <1>0, <1>4
<1>7. /\ at' \in [Pids -> At] /\ at'[p] = "free" /\ call' \in [Pids -> Calls \cup {NoCall}]
      /\ \A x \in Pids \ {p} : at'[x] = at[x] /\ call'[x] = call[x]
  BY <1>1, <1>2, <1>3 DEF Typed, At
<1>8. Served'
  BY <1>3, <1>4, <1>6, <1>7 DEF Served, Free
<1>9. PmTypeOK'
  BY <1>1, <1>2, <1>4, <1>7 DEF PmTypeOK, PmAt
<1>10. Untouched({p}) /\ Awaited(p)'
  BY <1>2, <1>3, <1>7 DEF Untouched, Awaited
<1>11. /\ {p} \subseteq Pids /\ halt' # "impossible" /\ box'[PM] = box[PM]
       /\ box' \in [Pids \cup {PM} -> Seq(Fields)]
       /\ \A x \in {p} : NotQueued(x) /\ NotAsked(x) /\ Awaited(x)'
       /\ \A x \in {p} : at'[x] \in {"free", "user", "waits"}
       /\ \A x \in {p} : at'[x] = "waits" => call'[x] \in Calls
  BY <1>1, <1>2, <1>3, <1>7, <1>10 DEF Typed
<1> QED
  BY <1>2, <1>5, <1>8, <1>9, <1>10, <1>11, PmSteps

\* A step in which only pm changes.
LEMMA OnlyPm ==
    ASSUME CallsInv, UNCHANGED <<box, m, at, call, eax, queue, halt>>,
           pm'.at \in PmAt, pm'.at # "fork", PmRecord', Served'
    PROVE  CallsInv'
<1>1. Typed /\ PmTypeOK /\ halt # "impossible"
  BY InvTyped DEF CallsInv
<1>2. Untouched({})
  BY DEF Untouched
<1>3. PmTypeOK' /\ box' \in [Pids \cup {PM} -> Seq(Fields)]
  BY <1>1 DEF PmTypeOK, Typed
<1> QED
  BY <1>1, <1>2, <1>3, PmSteps

LEMMA ExitEndsKeeps ==
    ASSUME CallsInv, ExitEnds, halt = "none"
    PROVE  CallsInv'
<1>1. Served /\ PmRecord
  BY DEF CallsInv
<1>2. /\ pm.at = "exit" /\ pm' = [pm EXCEPT !.at = "wake", !.i = 1]
      /\ UNCHANGED <<box, m, at, call, eax, queue, halt>>
  BY DEF ExitEnds
<1>3. /\ pm'.at = "wake" /\ pm'.m = pm.m /\ pm'.i = 1
      /\ pm' = [at |-> pm'.at, m |-> pm'.m, new |-> pm'.new, i |-> pm'.i, argv |-> pm'.argv]
  BY <1>1, <1>2 DEF PmRecord
<1>4. PmRecord' /\ pm'.at \in PmAt /\ pm'.at # "fork"
  BY <1>1, <1>2, <1>3 DEF PmRecord, PmAt
<1>5. Served'
  BY <1>1, <1>2, <1>3 DEF Served, Free
<1> QED
  BY <1>2, <1>4, <1>5, OnlyPm

LEMMA PassOverKeeps ==
    ASSUME CallsInv, PassOver, halt = "none"
    PROVE  CallsInv'
<1>1. Served /\ PmRecord
  BY DEF CallsInv
<1>2. /\ pm.at = "wake" /\ pm' = [pm EXCEPT !.i = @ + 1]
      /\ UNCHANGED <<box, m, at, call, eax, queue, halt>>
  BY DEF PassOver
<1>3. /\ pm'.at = "wake" /\ pm'.m = pm.m /\ pm'.i = pm.i + 1
      /\ pm' = [at |-> pm'.at, m |-> pm'.m, new |-> pm'.new, i |-> pm'.i, argv |-> pm'.argv]
  BY <1>1, <1>2 DEF PmRecord
<1>4. PmRecord' /\ pm'.at \in PmAt /\ pm'.at # "fork"
  BY <1>1, <1>2, <1>3 DEF PmRecord, PmAt
<1>5. pm'.i \in Nat \ {0}
  BY <1>1, <1>2, <1>3 DEF Served
<1>6. Served'
  BY <1>1, <1>2, <1>3, <1>5 DEF Served, Free
<1> QED
  BY <1>2, <1>4, <1>6, OnlyPm

LEMMA WakeEndsKeeps ==
    ASSUME CallsInv, WakeEnds, halt = "none"
    PROVE  CallsInv'
<1>1. PmDone /\ UNCHANGED <<box, m, at, call, eax, queue, halt>>
  BY DEF WakeEnds
<1>2. pm'.at = "top" /\ PmRecord' /\ Served'
  BY <1>1, Done
<1> QED
  BY <1>1, <1>2, OnlyPm DEF PmAt

LEMMA ExecBeginsKeeps ==
    ASSUME CallsInv, ExecBegins, halt = "none"
    PROVE  CallsInv'
<1>1. Typed /\ Served /\ PmRecord
  BY InvTyped DEF CallsInv
<1>2. /\ pm.at = "serve" /\ pm.m.type = "exec"
      /\ pm' = [pm EXCEPT !.at = "exec", !.argv = Unpacked(buf[pm.m.pid])]
      /\ box' = [box EXCEPT ![pm.m.pid] = <<>>]
      /\ UNCHANGED <<m, at, call, eax, queue, halt>>
  BY DEF ExecBegins, Serves, EmptyPool
<1>3. box' = box
  <2>1. pm.m.pid \in Pids /\ box[pm.m.pid] = <<>>
    BY <1>2, OnlyServed
  <2> QED
    BY <1>1, <1>2, <2>1 DEF Typed
<1>4. /\ pm'.at = "exec" /\ pm'.m = pm.m
      /\ pm' = [at |-> pm'.at, m |-> pm'.m, new |-> pm'.new, i |-> pm'.i, argv |-> pm'.argv]
  BY <1>1, <1>2 DEF PmRecord
<1>5. PmRecord' /\ pm'.at \in PmAt /\ pm'.at # "fork"
  BY <1>1, <1>2, <1>4 DEF PmRecord, PmAt
<1>6. Served'
  <2>1. PICK e : e = pm.m
    OBVIOUS
  <2>2. Asks(e) /\ \A k \in 1 .. Len(box[PM]) : box[PM][k].pid # e.pid
    BY <1>1, <1>2, <2>1 DEF Served
  <2>3. Untouched({}) /\ StillOut({})
    BY <1>2, <1>3 DEF Untouched, StillOut, NotQueued
  <2>4. Asks(e)'
    BY <2>2, <2>3, AsksKept
  <2>5. e = pm'.m
    BY <1>4, <2>1
  <2> QED
    BY <1>2, <1>3, <1>4, <2>1, <2>2, <2>4, <2>5 DEF Served
<1> QED
  BY <1>2, <1>3, <1>5, <1>6, OnlyPm

LEMMA ExecEndsKeeps ==
    ASSUME CallsInv, ExecEnds, halt = "none"
    PROVE  CallsInv'
<1>1. Typed /\ PmTypeOK
  BY InvTyped DEF CallsInv
<1>0. PICK p : p = pm.m.pid
  OBVIOUS
<1>2. /\ pm.at = "exec" /\ PmDone
      /\ at' = [at EXCEPT ![p] = "user"] /\ call' = [call EXCEPT ![p] = NoCall]
      /\ box' = box /\ m' = m /\ eax' = eax /\ queue' = queue /\ halt' = halt
  BY <1>0 DEF ExecEnds
<1>3. p \in Pids /\ NotQueued(p) /\ NotAsked(p) /\ box[p] = <<>>
  BY <1>0, <1>2, OnlyServed
<1>4. /\ at' \in [Pids -> At] /\ at'[p] = "user" /\ call' \in [Pids -> Calls \cup {NoCall}]
      /\ \A x \in Pids \ {p} : at'[x] = at[x] /\ call'[x] = call[x]
  BY <1>1, <1>2, <1>3 DEF Typed, At
<1>5. pm'.at = "top" /\ PmRecord' /\ Served'
  BY <1>2, Done
<1>6. PmTypeOK'
  BY <1>1, <1>2, <1>4, <1>5 DEF PmTypeOK, PmAt
<1>7. Untouched({p}) /\ Awaited(p)'
  BY <1>2, <1>3, <1>4 DEF Untouched, Awaited
<1>8. /\ {p} \subseteq Pids /\ halt' # "impossible" /\ box'[PM] = box[PM]
      /\ box' \in [Pids \cup {PM} -> Seq(Fields)]
      /\ \A x \in {p} : NotQueued(x) /\ NotAsked(x) /\ Awaited(x)'
      /\ \A x \in {p} : at'[x] \in {"free", "user", "waits"}
      /\ \A x \in {p} : at'[x] = "waits" => call'[x] \in Calls
  BY <1>1, <1>2, <1>3, <1>4, <1>7 DEF Typed
<1> QED
  BY <1>2, <1>5, <1>6, <1>7, <1>8, PmSteps

LEMMA OneWaiter ==
    ASSUME WaitersBlocked, NEW k \in 1 .. Len(queue)
    PROVE  /\ at[queue[k].pid] = "waits" /\ box[queue[k].pid] = <<>>
           /\ call[queue[k].pid] = [type |-> "waitpid", p1 |-> queue[k].wait_for]
           /\ \A j \in 1 .. Len(queue) : queue[j].pid = queue[k].pid => j = k
BY DEF WaitersBlocked

LEMMA SleepKeeps ==
    ASSUME CallsInv, Sleep, halt = "none"
    PROVE  CallsInv'
<1>1. Typed /\ PmTypeOK /\ WaitersBlocked /\ Requests
  BY InvTyped DEF CallsInv
<1>0. PICK p, w : p = pm.m.pid /\ w = Waiter
  OBVIOUS
<1> DEFINE n == Len(queue)
           Entries == [pid : Pids, wait_for : Pids]
<1>2. /\ pm.at = "serve" /\ pm.m.type = "waitpid" /\ PmDone /\ queue' = Append(queue, w)
      /\ box' = box /\ m' = m /\ at' = at /\ call' = call /\ eax' = eax /\ halt' = halt
  BY <1>0 DEF Sleep, Serves
<1>3. /\ p \in Pids /\ NotQueued(p) /\ NotAsked(p) /\ at[p] = "waits" /\ call[p] \in Calls
      /\ box[p] = <<>> /\ pm.m.p1 \in Pids /\ call[p] = [type |-> "waitpid", p1 |-> pm.m.p1]
  BY <1>0, <1>2, OnlyServed
<1>4. w \in Entries /\ w.pid = p /\ w.wait_for = pm.m.p1
  BY <1>0, <1>3 DEF Waiter
<1>5. /\ queue \in Seq(Entries) /\ n \in Nat /\ queue' \in Seq(Entries) /\ Len(queue') = n + 1
      /\ \A k \in 1 .. n : queue'[k] = queue[k]
      /\ queue'[n + 1] = w
  <2>1. queue \in Seq(Entries) /\ n \in Nat
    BY <1>1 DEF Typed
  <2> QED
    BY <1>2, <1>4, <2>1, AppendProperties
<1>6. 1 .. Len(queue') = (1 .. n) \cup {n + 1}
  BY <1>5
<1>7. Untouched({p}) /\ Awaited(p)'
  BY <1>2, <1>3 DEF Untouched, Awaited
<1>8. StillOut({p})
  BY <1>4, <1>5, <1>6 DEF StillOut, NotQueued
<1>9. WaitersBlocked'
  <2>1. ASSUME NEW k \in 1 .. Len(queue')
        PROVE  /\ at[queue'[k].pid] = "waits" /\ box[queue'[k].pid] = <<>>
               /\ call[queue'[k].pid] = [type |-> "waitpid", p1 |-> queue'[k].wait_for]
    BY <1>1, <1>3, <1>4, <1>5, <1>6 DEF WaitersBlocked
  <2>2. \A k \in 1 .. n : queue'[k].pid # p
    BY <1>3, <1>5 DEF NotQueued
  <2>3. \A k, j \in 1 .. n : queue'[j].pid = queue'[k].pid => j = k
    BY <1>1, <1>5 DEF WaitersBlocked
  <2>4. \A k, j \in 1 .. Len(queue') : queue'[j].pid = queue'[k].pid => j = k
    BY <1>4, <1>5, <1>6, <2>2, <2>3
  <2> QED
    BY <1>2, <2>1, <2>4 DEF WaitersBlocked
<1>10. AnswersAwaited' /\ \A q \in Pids : box'[q] # <<>> => box'[q][1].src = PM
  BY <1>7, AnswersKept
<1>11. Requests'
  BY <1>2, <1>3, <1>7, <1>8, RequestsKept
<1>12. pm'.at = "top" /\ PmRecord' /\ Served'
  BY <1>2, Done
<1>13. OwnMessage'
  BY <1>2, <1>3, <1>7, MessageKept
<1>14. \A k \in 1 .. Len(queue') : queue'[k] \in Entries
  BY <1>5, ElementOfSeq
<1>15. PmTypeOK'
  BY <1>1, <1>2, <1>12, <1>14 DEF PmTypeOK, PmAt
<1>16. box' \in [Pids \cup {PM} -> Seq(Fields)] /\ halt' # "impossible"
  BY <1>1, <1>2 DEF Typed
<1> QED
  BY <1>5, <1>9, <1>10, <1>11, <1>12, <1>13, <1>15, <1>16 DEF CallsInv

LEMMA WakeOneKeeps ==
    ASSUME CallsInv, WakeOne, halt = "none"
    PROVE  CallsInv'
<1>1. Typed /\ PmTypeOK /\ WaitersBlocked /\ Requests /\ Served /\ PmRecord /\ OwnMessage
  BY InvTyped DEF CallsInv
<1>0. PICK k, p, a : k = pm.i /\ p = queue[k].pid /\ a = Answer(pm.m.p1)
  OBVIOUS
<1> DEFINE n == Len(queue)
           Entries == [pid : Pids, wait_for : Pids]
<1>2. /\ pm.at = "wake" /\ k <= n
      /\ box' = [box EXCEPT ![p] = Append(@, a)]
      /\ queue' = Front([queue EXCEPT ![k] = queue[n]])
      /\ pm' = [pm EXCEPT !.i = k]
      /\ m' = m /\ at' = at /\ call' = call /\ eax' = eax /\ halt' = halt
  BY <1>0 DEF WakeOne, Deliver, NextAfter
<1>3. k \in 1 .. n /\ n \in Nat /\ queue \in Seq(Entries)
  BY <1>0, <1>1, <1>2 DEF Served, Typed
<1>4. /\ p \in Pids /\ at[p] = "waits" /\ box[p] = <<>> /\ call[p].type = "waitpid"
      /\ \A j \in 1 .. n : queue[j].pid = p => j = k
  <2>1. /\ at[queue[k].pid] = "waits" /\ box[queue[k].pid] = <<>>
        /\ call[queue[k].pid] = [type |-> "waitpid", p1 |-> queue[k].wait_for]
        /\ \A j \in 1 .. n : queue[j].pid = queue[k].pid => j = k
    BY <1>1, <1>3, OneWaiter
  <2>2. queue[k].pid \in Pids
    BY <1>1, <1>3 DEF Typed
  <2> QED
    BY <1>0, <2>1, <2>2
<1>5. a \in Fields /\ a.src = PM
  <2>1. pm.m \in Fields
    BY <1>1, <1>2 DEF PmRecord
  <2>2. pm.m.pid \in Int /\ pm.m.p1 \in Nat
    BY <2>1 DEF Fields
  <2> QED
    BY <1>0, <2>2 DEF Answer, Fields, PM
<1>6. /\ queue' \in Seq(Entries) /\ Len(queue') = n - 1
      /\ \A j \in 1 .. n - 1 : queue'[j] = IF j = k THEN queue[n] ELSE queue[j]
  BY <1>2, <1>3, LastTakesPlace
<1> DEFINE from(j) == IF j = k THEN n ELSE j
<1>7. \A j \in 1 .. Len(queue') : /\ from(j) \in 1 .. n /\ from(j) # k
                                  /\ queue'[j] = queue[from(j)]
  BY <1>3, <1>6
<1>8. \A i, j \in 1 .. Len(queue') : from(i) = from(j) => i = j
  BY <1>3, <1>6
<1> HIDE DEF from
<1>9. Append(box[p], a) = <<a>> /\ <<a>> \in Seq(Fields) /\ Len(<<a>>) = 1 /\ <<a>>[1] = a
  BY <1>4, <1>5
<1>10. /\ box'[p] = <<a>> /\ \A x \in Pids \ {p} : box'[x] = box[x]
       /\ box'[PM] = box[PM] /\ box' \in [Pids \cup {PM} -> Seq(Fields)]
  <2>1. box' = [box EXCEPT ![p] = Append(box[p], a)]
    BY <1>1, <1>2, <1>4 DEF Typed
  <2> QED
    BY <1>1, <1>4, <1>9, <2>1, Ids DEF Typed
<1>11. Untouched({p}) /\ Awaited(p)'
  <2>1. at'[p] = "waits" /\ call'[p].type = "waitpid"
    BY <1>2, <1>4
  <2>2. Untouched({p})
    BY <1>2, <1>10 DEF Untouched
  <2> QED
    BY <1>5, <1>9, <1>10, <2>1, <2>2 DEF Awaited
<1>12. StillOut({p})
  BY <1>7 DEF StillOut, NotQueued
<1>13. WaitersBlocked'
  <2>1. ASSUME NEW j \in 1 .. Len(queue')
        PROVE  /\ at'[queue'[j].pid] = "waits" /\ box'[queue'[j].pid] = <<>>
               /\ call'[queue'[j].pid] = [type |-> "waitpid", p1 |-> queue'[j].wait_for]
    <3>1. queue'[j] = queue[from(j)] /\ from(j) \in 1 .. n /\ queue[from(j)].pid # p
      BY <1>4, <1>7
    <3>2. queue[from(j)].pid \in Pids
      BY <1>1, <3>1 DEF Typed
    <3> QED
      BY <1>1, <1>2, <1>10, <3>1, <3>2 DEF WaitersBlocked
  <2>2. ASSUME NEW i \in 1 .. Len(queue'), NEW j \in 1 .. Len(queue'),
               queue'[j].pid = queue'[i].pid
        PROVE  j = i
    <3>1. from(j) = from(i)
      <4>1. /\ from(i) \in 1 .. n /\ from(j) \in 1 .. n
            /\ queue[from(j)].pid = queue[from(i)].pid
        BY <1>7, <2>2
      <4>2. \A h \in 1 .. n : queue[h].pid = queue[from(i)].pid => h = from(i)
        BY <1>1, <4>1, OneWaiter
      <4> QED
        BY <4>1, <4>2
    <3> QED
      BY <1>8, <3>1
  <2> QED
    BY <2>1, <2>2 DEF WaitersBlocked
<1>14. AnswersAwaited' /\ \A q \in Pids : box'[q] # <<>> => box'[q][1].src = PM
  BY <1>11, AnswersKept
<1>15. NotAsked(p)
  <2>1. ASSUME NEW j \in 1 .. Len(box[PM]), box[PM][j].pid = p PROVE FALSE
    <3>1. Asks(box[PM][j])
      BY <1>1 DEF Requests
    <3>2. queue[k].pid # box[PM][j].pid
      BY <1>3, <3>1 DEF Asks
    <3> QED
      BY <1>0, <2>1, <3>2
  <2> QED
    BY <2>1 DEF NotAsked
<1>16. Requests'
  BY <1>10, <1>11, <1>12, <1>15, RequestsKept
<1>17. /\ pm'.at = "wake" /\ pm'.m = pm.m /\ pm'.i = k
       /\ pm' = [at |-> pm'.at, m |-> pm'.m, new |-> pm'.new, i |-> pm'.i, argv |-> pm'.argv]
  BY <1>1, <1>2 DEF PmRecord
<1>18. PmRecord'
  BY <1>1, <1>2, <1>17 DEF PmRecord
<1>19. Served'
  BY <1>1, <1>2, <1>3, <1>17 DEF Served, Free
<1>20. OwnMessage'
  <2>1. call'[p] \in Calls /\ at'[p] = "waits"
    BY <1>1, <1>2, <1>4 DEF OwnMessage
  <2> QED
    BY <1>2, <1>11, <2>1, MessageKept
<1>21. \A j \in 1 .. Len(queue') : queue'[j] \in Entries
  BY <1>6, ElementOfSeq
<1>22. PmTypeOK'
  BY <1>1, <1>2, <1>17, <1>21 DEF PmTypeOK, PmAt
<1>23. halt' # "impossible"
  BY <1>2
<1> QED
  BY <1>6, <1>10, <1>13, <1>14, <1>16, <1>18, <1>19, <1>20, <1>22, <1>23 DEF CallsInv

-----------------------------------------------------------------------------
(***************************************************************************)
(* The bytes that execv writes: the k-th string lies behind the k - 1      *)
(* strings before it and their zeros, and F[k] is the place of its 0.      *)
(***************************************************************************)
Laid(args, F, w) ==
    /\ F[0] = 0 /\ \A i \in 1 .. Len(args) : F[i] = F[i - 1] + Len(args[i]) + 1
    /\ Len(w) = F[Len(args)] + 1 /\ w[F[Len(args)] + 1] = 0
    /\ \A i \in 1 .. Len(args) : w[F[i]] = 0
    /\ \A i \in 1 .. Len(args) : \A j \in 1 .. Len(args[i]) : w[F[i - 1] + j] = args[i][j]

LEMMA WrittenLaid ==
    ASSUME NEW args \in ArgLists, NEW n, n = Len(args)
    PROVE  /\ n \in Nat \ {0} /\ args = [k \in 1 .. n |-> args[k]]
           /\ Written(args) \in Seq(Bytes) /\ Len(Written(args)) <= BufferSize
           /\ \A i \in 1 .. n : args[i] \in Seq(Bytes \ {0}) /\ Len(args[i]) \in Nat \ {0}
           /\ \E F \in [0 .. n -> Nat] : Laid(args, F, Written(args))
<1> DEFINE ss == [k \in 1 .. n |-> Append(args[k], 0)]
           w == FlattenSeq(ss)
<1>1. args \in Seq(Seq(Bytes \ {0}) \ {<<>>}) /\ args # <<>> /\ Len(Written(args)) <= BufferSize
  BY ArgsAssumption
<1>2. n \in Nat \ {0}
  BY <1>1, LenProperties, EmptySeq
<1>3. args = [k \in 1 .. n |-> args[k]]
  BY <1>1, LenProperties
<1>4. ASSUME NEW i \in 1 .. n
      PROVE  /\ args[i] \in Seq(Bytes \ {0}) /\ Len(args[i]) \in Nat \ {0}
             /\ ss[i] \in Seq(Bytes) /\ Len(ss[i]) = Len(args[i]) + 1
             /\ ss[i][Len(args[i]) + 1] = 0
             /\ \A j \in 1 .. Len(args[i]) : ss[i][j] = args[i][j]
  <2> DEFINE a == args[i]
  <2>1. a \in Seq(Bytes \ {0}) /\ a # <<>>
    BY <1>1, ElementOfSeq
  <2>2. ss[i] = Append(a, 0)
    OBVIOUS
  <2> HIDE DEF a, ss
  <2>3. Len(a) \in Nat \ {0}
    BY <2>1, LenProperties, EmptySeq
  <2>4. a \in Seq(Bytes) /\ 0 \in Bytes
    BY <2>1, SeqMono DEF Bytes
  <2>5. /\ Append(a, 0) \in Seq(Bytes) /\ Len(Append(a, 0)) = Len(a) + 1
        /\ Append(a, 0)[Len(a) + 1] = 0
        /\ \A j \in 1 .. Len(a) : Append(a, 0)[j] = a[j]
    BY <2>4, AppendProperties
  <2> QED
    BY <2>1, <2>2, <2>3, <2>5 DEF a
<1>5. ss \in Seq(Seq(Bytes)) /\ Len(ss) = n
  <2>1. ss \in [1 .. n -> Seq(Bytes)]
    BY <1>4
  <2>2. n \in Nat
    BY <1>2
  <2> HIDE DEF ss
  <2> QED
    BY <2>1, <2>2, FunctionIsSeq
<1>6. Written(args) = Append(w, 0)
  BY DEF Written
<1> HIDE DEF ss
<1>7. w \in Seq(Bytes) /\ \E F \in [0 .. n -> Nat] : Joins(ss, F, w) /\ Len(w) = F[n]
  BY <1>2, <1>5, Strung
<1>8. PICK F \in [0 .. n -> Nat] : Joins(ss, F, w) /\ Len(w) = F[n]
  BY <1>7
<1>9. /\ F[0] = 0 /\ \A i \in 1 .. n : F[i] = F[i - 1] + Len(ss[i])
      /\ w \in Seq(Bytes) /\ Len(w) = F[n]
      /\ \A i \in 1 .. n : \A j \in 1 .. Len(ss[i]) : w[F[i - 1] + j] = ss[i][j]
  BY <1>5, <1>7, <1>8 DEF Joins
<1> HIDE DEF w
<1>10. \A i \in 1 .. n : F[i] \in Nat /\ F[i - 1] \in Nat
  <2> TAKE i \in 1 .. n
  <2>1. i \in 0 .. n /\ i - 1 \in 0 .. n
    BY <1>2
  <2> QED
    BY <2>1
<1>11. \A i \in 1 .. n : F[i] = F[i - 1] + Len(args[i]) + 1
  <2> TAKE i \in 1 .. n
  <2>1. F[i - 1] \in Nat /\ Len(args[i]) \in Nat /\ Len(ss[i]) = Len(args[i]) + 1
    BY <1>10, <1>4
  <2> QED
    BY <1>9, <2>1
<1>12. F[n] \in Nat /\ Len(w) = F[n]
  BY <1>2, <1>9
<1>13. /\ Written(args) \in Seq(Bytes) /\ Len(Written(args)) = F[n] + 1
       /\ Written(args)[F[n] + 1] = 0
       /\ \A k \in 1 .. F[n] : Written(args)[k] = w[k]
  <2>1. 0 \in Bytes
    BY DEF Bytes
  <2> QED
    BY <1>6, <1>9, <1>12, <2>1, AppendProperties
<1>14. \A i \in 0 .. n : F[i] <= F[n]
  <2>1. \A j \in 1 .. n : F[j - 1] <= F[j]
    <3> TAKE j \in 1 .. n
    <3>1. F[j] \in Nat /\ F[j - 1] \in Nat /\ Len(args[j]) \in Nat
      BY <1>10, <1>4
    <3> QED
      BY <1>11, <3>1
  <2>2. F \in [0 .. n -> Int] /\ n \in Nat
    BY <1>2
  <2> TAKE i \in 0 .. n
  <2>3. n \in i .. n
    BY <2>2
  <2> QED
    BY <2>1, <2>2, <2>3, Increasing
<1>15. ASSUME NEW i \in 1 .. n, NEW j \in 1 .. Len(args[i]) + 1
       PROVE  Written(args)[F[i - 1] + j] = ss[i][j]
  <2> DEFINE x == F[i - 1]  y == F[i]  z == F[n]  l == Len(args[i])
  <2>1. x \in Nat /\ y \in Nat /\ z \in Nat /\ l \in Nat /\ y = x + l + 1 /\ y <= z
    BY <1>2, <1>4, <1>11, <1>12, <1>14
  <2>2. j \in 1 .. l + 1
    OBVIOUS
  <2> HIDE DEF x, y, z, l
  <2>3. x + j \in 1 .. z
    BY ONLY <2>1, <2>2
  <2>4. F[i - 1] + j \in 1 .. F[n]
    BY <2>3 DEF x, z
  <2>5. j \in 1 .. Len(ss[i])
    BY <1>4
  <2> QED
    BY <1>9, <1>13, <2>4, <2>5
<1>16. \A i \in 1 .. n : \A j \in 1 .. Len(args[i]) : Written(args)[F[i - 1] + j] = args[i][j]
  <2> TAKE i \in 1 .. n
  <2> TAKE j \in 1 .. Len(args[i])
  <2>1. j \in 1 .. Len(args[i]) + 1
    BY <1>4
  <2>2. Written(args)[F[i - 1] + j] = ss[i][j]
    BY <1>15, <2>1
  <2>3. ss[i][j] = args[i][j]
    BY <1>4
  <2> QED
    BY <2>2, <2>3
<1>17. \A i \in 1 .. n : Written(args)[F[i]] = 0
  <2> TAKE i \in 1 .. n
  <2>1. Len(args[i]) + 1 \in 1 .. Len(args[i]) + 1
    BY <1>4
  <2>2. F[i] = F[i - 1] + (Len(args[i]) + 1)
    <3>1. F[i - 1] \in Nat /\ Len(args[i]) \in Nat
      BY <1>10, <1>4
    <3> QED
      BY <1>11, <3>1
  <2>3. Written(args)[F[i - 1] + (Len(args[i]) + 1)] = ss[i][Len(args[i]) + 1]
    BY <1>15, <2>1
  <2> QED
    BY <1>4, <2>2, <2>3
<1>18. Laid(args, F, Written(args))
  BY <1>9, <1>11, <1>13, <1>16, <1>17 DEF Laid
<1> QED
  BY <1>1, <1>2, <1>3, <1>4, <1>13, <1>18

LEMMA WrittenBytes ==
    ASSUME NEW args \in ArgLists
    PROVE  Written(args) \in Seq(Bytes) /\ Len(Written(args)) <= BufferSize
  BY WrittenLaid

(***************************************************************************)
(* What Exec_uthread reads from those bytes: the end, the zeros before it, *)
(* and the string in front of each.                                        *)
(***************************************************************************)
LEMMA EndFound ==
    ASSUME NEW b, NEW E \in 2 .. Len(b), Len(b) \in Nat, b[E] = 0, b[E - 1] = 0,
           \A q \in 2 .. E - 1 : b[q] # 0 \/ b[q - 1] # 0
    PROVE  StringsEnd(b) = E
<1> DEFINE P(r) == /\ b[r] = 0 /\ b[r - 1] = 0
                   /\ \A q \in 2 .. r - 1 : b[q] # 0 \/ b[q - 1] # 0
<1>1. P(E)
  OBVIOUS
<1>2. ASSUME NEW r \in 2 .. Len(b), P(r) PROVE r = E
  <2>1. ~(r < E)
    <3> SUFFICES ASSUME r < E PROVE FALSE
      OBVIOUS
    <3>1. r \in 2 .. E - 1
      OBVIOUS
    <3> QED
      BY <1>2, <3>1
  <2>2. ~(E < r)
    <3> SUFFICES ASSUME E < r PROVE FALSE
      OBVIOUS
    <3>1. E \in 2 .. r - 1
      OBVIOUS
    <3> QED
      BY <1>2, <3>1
  <2> QED
    BY <2>1, <2>2
<1>3. StringsEnd(b) = CHOOSE r \in 2 .. Len(b) : P(r)
  BY DEF StringsEnd
<1> HIDE DEF P
<1> QED
  BY <1>1, <1>2, <1>3

\* The string a of members of S lies in b behind offset x, with a zero after it.
Lies(S, a, b, x) ==
    /\ a \in Seq(S) /\ x \in Nat /\ Len(a) \in Nat /\ Len(b) \in Nat
    /\ x + Len(a) + 1 <= Len(b) /\ b[x + Len(a) + 1] = 0
    /\ \A j \in 1 .. Len(a) : b[x + j] = a[j]

LEMMA StringFound ==
    ASSUME NEW S, NEW a, NEW b, NEW x, 0 \notin S, Lies(S, a, b, x)
    PROVE  StringAt(b, x + 1) = a
<1> DEFINE l == Len(a)
<1>0. /\ a \in Seq(S) /\ x \in Nat /\ l \in Nat /\ l = Len(a) /\ Len(b) \in Nat
      /\ x + l + 1 <= Len(b) /\ b[x + l + 1] = 0
      /\ \A j \in 1 .. l : b[x + j] = a[j]
  BY DEF Lies
<1> USE <1>0
<1> HIDE DEF l
<1> DEFINE P(r) == b[r] = 0 /\ \A q \in (x + 1) .. r - 1 : b[q] # 0
           e == x + l + 1
<1>1. \A q \in (x + 1) .. (x + l) : b[q] \in S
  <2> TAKE q \in (x + 1) .. (x + l)
  <2>1. q - x \in 1 .. l /\ x + (q - x) = q
    OBVIOUS
  <2>2. b[q] = a[q - x]
    BY <2>1
  <2> QED
    BY <2>1, <2>2, ElementOfSeq
<1>2. P(e) /\ e \in (x + 1) .. Len(b)
  BY <1>1
<1>3. ASSUME NEW r \in (x + 1) .. Len(b), P(r) PROVE r = e
  <2>1. ~(r < e)
    BY <1>1, <1>3
  <2>2. ~(e < r)
    <3> SUFFICES ASSUME e < r PROVE FALSE
      OBVIOUS
    <3>1. e \in (x + 1) .. r - 1
      OBVIOUS
    <3> QED
      BY <1>3, <3>1
  <2> QED
    BY <2>1, <2>2
<1>4. StringAt(b, x + 1) = SubSeq(b, x + 1, (CHOOSE r \in (x + 1) .. Len(b) : P(r)) - 1)
  BY DEF StringAt
<1>5. (CHOOSE r \in (x + 1) .. Len(b) : P(r)) = e
  <2> HIDE DEF P, e
  <2> QED
    BY <1>2, <1>3
<1>6. e - 1 = x + l
  OBVIOUS
<1> DEFINE s == SubSeq(b, x + 1, x + l)
<1>7. StringAt(b, x + 1) = s
  BY <1>4, <1>5, <1>6
<1>8. /\ s \in Seq(S) /\ Len(s) = IF x + 1 <= x + l THEN (x + l) - (x + 1) + 1 ELSE 0
      /\ \A j \in 1 .. (x + l) - (x + 1) + 1 : s[j] = b[(x + 1) + j - 1]
  <2>1. x + 1 \in Int /\ x + l \in Int
    OBVIOUS
  <2> QED
    BY <1>1, <2>1, SubSeqProperties
<1> HIDE DEF s
<1>9. Len(s) = l /\ \A j \in 1 .. l : s[j] = a[j]
  <2>1. Len(s) = l
    BY <1>8
  <2>2. ASSUME NEW j \in 1 .. l PROVE s[j] = a[j]
    <3>1. j \in 1 .. (x + l) - (x + 1) + 1 /\ (x + 1) + j - 1 = x + j
      OBVIOUS
    <3> QED
      BY <1>8, <3>1
  <2> QED
    BY <2>1, <2>2
<1> QED
  BY <1>7, <1>8, <1>9, SeqEqual

LEMMA KthFound ==
    ASSUME NEW n \in Nat, NEW F \in [1 .. n -> Nat],
           \A i, j \in 1 .. n : i < j => F[i] < F[j], NEW k \in 1 .. n
    PROVE  Kth({F[i] : i \in 1 .. n}, k) = F[k]
<1> DEFINE S == {F[i] : i \in 1 .. n}
           P(r) == Cardinality({q \in S : q <= r}) = k
<1>1. ASSUME NEW i \in 1 .. n PROVE Cardinality({q \in S : q <= F[i]}) = i
  <2>1. {q \in S : q <= F[i]} = {F[j] : j \in 1 .. i}
    <3>1. \A j \in 1 .. n : F[j] <= F[i] <=> j \in 1 .. i
      <4> TAKE j \in 1 .. n
      <4>1. F[i] \in Nat /\ F[j] \in Nat
        OBVIOUS
      <4>2. (i < j => F[i] < F[j]) /\ (j < i => F[j] < F[i])
        OBVIOUS
      <4> QED
        BY <4>1, <4>2
    <3>2. \A j \in 1 .. i : j \in 1 .. n
      OBVIOUS
    <3> QED
      BY <3>1, <3>2
  <2>2. i \in 0 .. n
    OBVIOUS
  <2> HIDE DEF S
  <2> QED
    BY <2>1, <2>2, Ranked
<1>2. F[k] \in S /\ P(F[k])
  BY <1>1
<1>3. ASSUME NEW r \in S, P(r) PROVE r = F[k]
  <2>1. PICK i \in 1 .. n : r = F[i]
    OBVIOUS
  <2>2. i = k
    BY <1>1, <1>3, <2>1
  <2> QED
    BY <2>1, <2>2
<1>4. Kth(S, k) = CHOOSE r \in S : P(r)
  BY DEF Kth
<1> HIDE DEF S, P
<1>5. Kth(S, k) = F[k]
  BY <1>2, <1>3, <1>4
<1> QED
  BY <1>5 DEF S

LEMMA ArgumentsArrive ==
    ASSUME NEW args \in ArgLists, NEW b \in [1 .. BufferSize -> Bytes], b = Packed(args, b)
    PROVE  Unpacked(b) = args
<1> DEFINE n == Len(args)
           w == Written(args)
<1>1. /\ n \in Nat \ {0} /\ args = [k \in 1 .. n |-> args[k]]
      /\ Len(w) <= BufferSize
      /\ \A i \in 1 .. n : args[i] \in Seq(Bytes \ {0}) /\ Len(args[i]) \in Nat \ {0}
      /\ \E F \in [0 .. n -> Nat] : Laid(args, F, w)
  BY WrittenLaid
<1>2. PICK F \in [0 .. n -> Nat] : Laid(args, F, w)
  BY <1>1
<1>3. /\ F[0] = 0 /\ \A i \in 1 .. n : F[i] = F[i - 1] + Len(args[i]) + 1
      /\ Len(w) = F[n] + 1 /\ w[F[n] + 1] = 0
      /\ \A i \in 1 .. n : w[F[i]] = 0
      /\ \A i \in 1 .. n : \A j \in 1 .. Len(args[i]) : w[F[i - 1] + j] = args[i][j]
  BY <1>2 DEF Laid
<1>4. \A k \in 1 .. BufferSize : k <= Len(w) => b[k] = w[k]
  BY DEF Packed
<1> HIDE DEF n, w
<1>5. BufferSize \in Nat /\ Len(b) = BufferSize
  <2>1. BufferSize \in Nat
    BY ArgsAssumption
  <2> QED
    BY <2>1, FunctionIsSeq
<1>6. \A i \in 1 .. n : /\ i \in 0 .. n /\ i - 1 \in 0 .. n
                        /\ F[i] \in Nat /\ F[i - 1] \in Nat /\ Len(args[i]) \in Nat \ {0}
                        /\ F[i] >= F[i - 1] + 2
  <2> TAKE i \in 1 .. n
  <2>1. i \in 0 .. n /\ i - 1 \in 0 .. n
    BY <1>1
  <2>2. F[i] \in Nat /\ F[i - 1] \in Nat
    BY <2>1
  <2>3. Len(args[i]) \in Nat \ {0} /\ F[i] = F[i - 1] + Len(args[i]) + 1
    BY <1>1, <1>3
  <2> QED
    BY <2>1, <2>2, <2>3
<1>7. \A i \in 0 .. n : \A j \in i .. n : F[i] <= F[j]
  <2>1. F \in [0 .. n -> Int] /\ n \in Nat /\ \A j \in 1 .. n : F[j - 1] <= F[j]
    BY <1>1, <1>6
  <2> QED
    BY <2>1, Increasing
<1>8. \A i, j \in 1 .. n : i < j => F[i] < F[j]
  <2> SUFFICES ASSUME NEW i \in 1 .. n, NEW j \in 1 .. n, i < j PROVE F[i] < F[j]
    OBVIOUS
  <2>1. i \in 0 .. n /\ j - 1 \in i .. n
    BY <1>1
  <2>2. F[i] <= F[j - 1]
    BY <1>7, <2>1
  <2> QED
    BY <1>6, <2>2
<1> DEFINE E == F[n] + 1
<1>9. /\ F[n] \in Nat /\ E \in 2 .. Len(b) /\ E \in Nat /\ E - 1 = F[n]
      /\ Len(w) = E
  <2>1. n \in 1 .. n
    BY <1>1
  <2> QED
    BY <1>1, <1>3, <1>5, <1>6, <2>1
<1>10. \A i \in 1 .. n : F[i] \in 2 .. E - 1
  <2> TAKE i \in 1 .. n
  <2>1. i \in 0 .. n /\ n \in i .. n
    BY <1>1
  <2>2. F[i] <= F[n]
    BY <1>7, <2>1
  <2> QED
    BY <1>6, <1>9, <2>2
<1>11. \A k \in 1 .. E : b[k] = w[k]
  <2> HIDE DEF E
  <2> QED
    BY <1>4, <1>5, <1>9
<1>12. b[E] = 0 /\ \A i \in 1 .. n : b[F[i]] = 0
  <2>1. E \in 1 .. E /\ \A i \in 1 .. n : F[i] \in 1 .. E
    BY <1>9, <1>10
  <2>2. b[E] = w[E] /\ \A i \in 1 .. n : b[F[i]] = w[F[i]]
    BY <1>11, <2>1
  <2> QED
    BY <1>3, <2>2
<1>13. ASSUME NEW i \in 1 .. n, NEW j \in 1 .. Len(args[i])
       PROVE  b[F[i - 1] + j] = args[i][j] /\ b[F[i - 1] + j] # 0
  <2> DEFINE x == F[i - 1]  y == F[i]  l == Len(args[i])
  <2>1. /\ x \in Nat /\ y \in Nat /\ l \in Nat /\ y = x + l + 1 /\ y \in 2 .. E - 1 /\ E \in Nat
        /\ j \in 1 .. l
    BY <1>3, <1>6, <1>9, <1>10
  <2> HIDE DEF x, y, l, E
  <2>2. x + j \in 1 .. E
    BY ONLY <2>1
  <2>3. b[F[i - 1] + j] = w[F[i - 1] + j]
    BY <1>11, <2>2 DEF x
  <2>4. w[F[i - 1] + j] = args[i][j]
    BY <1>3
  <2>5. args[i][j] \in Bytes \ {0}
    BY <1>1, ElementOfSeq
  <2> QED
    BY <2>3, <2>4, <2>5
<1>14. ASSUME NEW r \in 1 .. E - 1, b[r] = 0 PROVE \E i \in 1 .. n : r = F[i]
  <2>1. r \in 1 .. F[n] /\ n \in Nat
    BY <1>1, <1>9
  <2>2. PICK i \in 1 .. n : F[i - 1] < r /\ r <= F[i]
    <3> HIDE DEF E
    <3> QED
      BY <1>3, <2>1, Covered
  <2>3. CASE r # F[i]
    <3> DEFINE x == F[i - 1]  y == F[i]  l == Len(args[i])
    <3>1. /\ x \in Nat /\ y \in Nat /\ l \in Nat /\ y = x + l + 1 /\ r \in Nat
          /\ x < r /\ r <= y /\ r # y
      BY <1>3, <1>6, <2>1, <2>2, <2>3
    <3> HIDE DEF x, y, l
    <3>2. r - x \in 1 .. l /\ x + (r - x) = r
      BY ONLY <3>1
    <3>3. r - x \in 1 .. Len(args[i])
      BY <3>2 DEF l
    <3>4. b[F[i - 1] + (r - x)] # 0
      BY <1>13, <3>3
    <3> QED
      BY <1>14, <3>2, <3>4 DEF x
  <2> QED
    BY <2>3
<1>15. StringsEnd(b) = E
  <2>1. \A q \in 2 .. E - 1 : b[q] # 0 \/ b[q - 1] # 0
    <3> SUFFICES ASSUME NEW q \in 2 .. E - 1, b[q] = 0 PROVE b[q - 1] # 0
      OBVIOUS
    <3>1. q \in 1 .. E - 1
      BY <1>9
    <3>2. PICK i \in 1 .. n : q = F[i]
      BY <1>14, <3>1
    <3> DEFINE l == Len(args[i])
    <3>3. l \in Nat \ {0} /\ F[i - 1] \in Nat /\ q = F[i - 1] + l + 1
      BY <1>3, <1>6, <3>2
    <3>4. l \in 1 .. l /\ q - 1 = F[i - 1] + l
      BY <3>3
    <3>5. b[F[i - 1] + l] # 0
      BY <1>13, <3>4
    <3> QED
      BY <3>4, <3>5
  <2>2. b[E] = 0 /\ b[E - 1] = 0
    <3>1. n \in 1 .. n
      BY <1>1
    <3> QED
      BY <1>9, <1>12, <3>1
  <2>3. E \in 2 .. Len(b) /\ Len(b) \in Nat
    BY <1>5, <1>9
  <2> HIDE DEF E
  <2> QED
    BY <2>1, <2>2, <2>3, EndFound
<1> DEFINE G == [i \in 1 .. n |-> F[i]]
           Z == {G[i] : i \in 1 .. n}
<1>16. /\ n \in Nat /\ G \in [1 .. n -> Nat] /\ \A i, j \in 1 .. n : i < j => G[i] < G[j]
       /\ \A i \in 1 .. n : G[i] = F[i]
  BY <1>1, <1>6, <1>8
<1>17. Zeros(b) = Z
  <2>1. Zeros(b) = {r \in 2 .. E - 1 : b[r] = 0}
    BY <1>15 DEF Zeros
  <2>2. ASSUME NEW r \in 2 .. E - 1, b[r] = 0 PROVE r \in Z
    <3>1. r \in 1 .. E - 1
      BY <1>9
    <3> QED
      BY <1>14, <2>2, <3>1
  <2>3. \A i \in 1 .. n : F[i] \in 2 .. E - 1 /\ b[F[i]] = 0
    BY <1>10, <1>12
  <2> HIDE DEF E
  <2> QED
    BY <2>1, <2>2, <2>3
<1> HIDE DEF G
<1>18. Cardinality(Zeros(b)) = n
  <2>1. n \in 0 .. n
    BY <1>1
  <2> QED
    BY <1>16, <1>17, <2>1, Ranked
<1>19. \A k \in 1 .. n : Kth(Zeros(b), k) = F[k]
  BY <1>16, <1>17, KthFound
<1>20. ASSUME NEW k \in 1 .. n
       PROVE  StringAt(b, IF k = 1 THEN 1 ELSE Kth(Zeros(b), k - 1) + 1) = args[k]
  <2> DEFINE x == F[k - 1]  l == Len(args[k])  a == args[k]
  <2>1. (IF k = 1 THEN 1 ELSE Kth(Zeros(b), k - 1) + 1) = x + 1
    <3>1. CASE k = 1
      BY <1>3, <3>1
    <3>2. CASE k # 1
      <4>1. k - 1 \in 1 .. n
        BY <1>1, <3>2
      <4> QED
        BY <1>19, <3>2, <4>1
    <3> QED
      BY <3>1, <3>2
  <2>2. x \in Nat /\ l \in Nat /\ F[k] = x + l + 1 /\ F[k] \in 2 .. E - 1
    BY <1>3, <1>6, <1>10
  <2>3. /\ x + l + 1 <= Len(b) /\ b[x + l + 1] = 0 /\ Len(b) \in Nat
    <3>1. b[F[k]] = 0
      BY <1>12
    <3>2. b[x + l + 1] = 0
      BY <2>2, <3>1
    <3>3. Len(b) \in Nat /\ E \in 2 .. Len(b)
      BY <1>5, <1>9
    <3> HIDE DEF E, x, l
    <3> QED
      BY <2>2, <3>2, <3>3
  <2>4. \A j \in 1 .. l : b[x + j] = a[j]
    BY <1>13
  <2>5. a \in Seq(Bytes \ {0}) /\ l = Len(a) /\ 0 \notin Bytes \ {0}
    BY <1>1
  <2> HIDE DEF x, l, a, E
  <2>6. Lies(Bytes \ {0}, a, b, x) /\ 0 \notin Bytes \ {0}
    BY <2>2, <2>3, <2>4, <2>5 DEF Lies
  <2>7. StringAt(b, x + 1) = a
    BY <2>6, StringFound
  <2> QED
    BY <2>1, <2>7 DEF a
<1>21. Unpacked(b) = [k \in 1 .. n |-> args[k]]
  BY <1>18, <1>20 DEF Unpacked
<1> QED
  BY <1>1, <1>21

(***************************************************************************)
(* What execv writes are bytes that fit, and packing them again changes    *)
(* nothing.                                                                *)
(***************************************************************************)
LEMMA PackedFacts ==
    ASSUME NEW args \in ArgLists, NEW old \in [1 .. BufferSize -> Bytes]
    PROVE  /\ Packed(args, old) \in [1 .. BufferSize -> Bytes]
           /\ Packed(args, Packed(args, old)) = Packed(args, old)
<1>1. Written(args) \in Seq(Bytes) /\ Len(Written(args)) <= BufferSize
  BY WrittenBytes
<1>2. Len(Written(args)) \in Nat /\ \A k \in 1 .. Len(Written(args)) : Written(args)[k] \in Bytes
  BY <1>1, LenProperties, ElementOfSeq
<1> QED
  BY <1>2 DEF Packed

LEMMA ArgumentsSame ==
    ASSUME ArgumentsKept, buf' = buf,
           \A p \in Pids : call'[p].type = "exec" => call'[p] = call[p],
           pm'.at = "exec" => /\ pm.at = "exec" /\ pm' = pm
                              /\ call'[pm.m.pid] = call[pm.m.pid]
    PROVE  ArgumentsKept'
BY DEF ArgumentsKept, Packed

\* What a call that ends leaves has no arguments.
LEMMA NoCallType == NoCall.type # "exec"
BY DEF NoCall

LEMMA FillArguments ==
    ASSUME CallsInv, ArgumentsKept, NEW x \in Pids, NEW c \in Calls, Fill(x, c)
    PROVE  ArgumentsKept'
<1>1. Typed
  BY InvTyped
<1>2. /\ at[x] = "user" /\ at' = [at EXCEPT ![x] = "filled"] /\ call' = [call EXCEPT ![x] = c]
      /\ buf' = [buf EXCEPT ![x] = IF c.type = "exec" THEN Packed(c.args, @) ELSE @] /\ pm' = pm
  BY DEF Fill
<1>3. buf \in [Pids -> [1 .. BufferSize -> Bytes]]
  BY DEF ArgumentsKept
<1> DEFINE b == buf[x]
<1>4. b \in [1 .. BufferSize -> Bytes]
  BY <1>3
<1>5. c.type = "exec" => c.args \in ArgLists
  BY DEF Calls
<1>6. c.type = "exec" => /\ Packed(c.args, b) \in [1 .. BufferSize -> Bytes]
                         /\ Packed(c.args, Packed(c.args, b)) = Packed(c.args, b)
  BY <1>4, <1>5, PackedFacts
<1>7. /\ buf'[x] = IF c.type = "exec" THEN Packed(c.args, b) ELSE b
      /\ call'[x] = c /\ at'[x] = "filled"
      /\ \A q \in Pids \ {x} : buf'[q] = buf[q] /\ call'[q] = call[q] /\ at'[q] = at[q]
  BY <1>1, <1>2, <1>3 DEF Typed
<1>8. buf' \in [Pids -> [1 .. BufferSize -> Bytes]]
  BY <1>2, <1>3, <1>4, <1>6
<1>9. ASSUME NEW p \in Pids, call'[p].type = "exec"
      PROVE  buf'[p] = Packed(call'[p].args, buf'[p])
  <2>1. CASE p = x
    BY <1>6, <1>7, <1>9, <2>1
  <2>2. CASE p # x
    BY <1>7, <1>9, <2>2 DEF ArgumentsKept
  <2> QED
    BY <2>1, <2>2
<1>10. pm'.at = "exec" => pm'.argv = call'[pm'.m.pid].args
  <2> SUFFICES ASSUME pm.at = "exec" PROVE pm.argv = call'[pm.m.pid].args
    BY <1>2
  <2>1. ~BusyWith(x) /\ pm.m.pid \in Pids
    BY <1>2, Elsewhere, OnlyServed
  <2>2. pm.m.pid # x
    BY <2>1 DEF BusyWith
  <2> QED
    BY <1>7, <2>1, <2>2 DEF ArgumentsKept
<1> HIDE DEF b
<1> QED
  BY <1>8, <1>9, <1>10 DEF ArgumentsKept, Packed

LEMMA UserArguments ==
    ASSUME CallsInv, ArgumentsKept, NEW x \in Pids, User(x)
    PROVE  ArgumentsKept'
<1>1. Typed
  BY InvTyped
<1>2. /\ buf' = buf /\ pm' = pm
      /\ call' = call \/ (at[x] = "got" /\ call' = [call EXCEPT ![x] = NoCall])
  BY DEF User, Send, Receive, Return
<1>3. \A p \in Pids : call'[p].type = "exec" => call'[p] = call[p]
  BY <1>1, <1>2, NoCallType DEF Typed
<1>4. pm.at = "exec" => call'[pm.m.pid] = call[pm.m.pid]
  <2> SUFFICES ASSUME pm.at = "exec" PROVE call'[pm.m.pid] = call[pm.m.pid]
    OBVIOUS
  <2>1. at[x] = "got" => ~BusyWith(x)
    BY Elsewhere
  <2>2. pm.m.pid \in Pids /\ (at[x] = "got" => pm.m.pid # x)
    BY <2>1, OnlyServed DEF BusyWith
  <2> QED
    BY <1>1, <1>2, <2>2 DEF Typed
<1> QED
  BY <1>2, <1>3, <1>4, ArgumentsSame

LEMMA PmArguments ==
    ASSUME CallsInv, CallsEnd, ArgumentsKept, ProcessManagement
    PROVE  ArgumentsKept'
<1>1. Typed /\ Served /\ OwnMessage
  BY InvTyped DEF CallsInv
<1>2. ASSUME buf' = buf, at' = at, call' = call, pm'.at # "exec"
      PROVE  ArgumentsKept'
  BY <1>2, ArgumentsSame DEF ArgumentsKept
<1>3. CASE PmReceive
  <2>1. PICK k \in Oldest(PM, ANY) : pm' = [pm EXCEPT !.at = "serve", !.m = box[PM][k]]
    BY <1>3 DEF PmReceive
  <2>2. pm'.at = "serve"
    BY <2>1 DEF CallsInv, PmRecord
  <2> QED
    BY <1>2, <1>3, <2>2 DEF PmReceive
<1>4. CASE ForkBegins
  <2>1. pm'.at # "exec"
    BY <1>4 DEF ForkBegins, Serves, CallsInv, PmRecord
  <2> QED
    BY <1>2, <1>4, <2>1 DEF ForkBegins
<1>5. CASE ForkEnds
  <2>0. PICK p, q : p = pm.m.pid /\ q = pm.new
    OBVIOUS
  <2>1. /\ at' = [at EXCEPT ![q] = "user"] /\ buf' = [buf EXCEPT ![q] = buf[p]] /\ call' = call
        /\ pm.at = "fork" /\ PmDone
    BY <1>5, <2>0 DEF ForkEnds
  <2>2. p \in Pids /\ q \in Pids /\ at[q] = "free" /\ pm'.at # "exec"
    BY <1>1, <2>0, <2>1, OnlyServed, Done DEF Served, Free
  <2>3. call[q].type # "exec"
    BY <2>2, NoCallType DEF CallsEnd
  <2>4. buf \in [Pids -> [1 .. BufferSize -> Bytes]]
    BY DEF ArgumentsKept
  <2>5. buf' \in [Pids -> [1 .. BufferSize -> Bytes]]
    BY <2>1, <2>2, <2>4
  <2>6. \A x \in Pids \ {q} : buf'[x] = buf[x]
    BY <2>1, <2>4
  <2>7. \A x \in Pids : call'[x].type = "exec" => buf'[x] = Packed(call'[x].args, buf'[x])
    BY <2>1, <2>3, <2>6 DEF ArgumentsKept
  <2> QED
    BY <2>2, <2>5, <2>7 DEF ArgumentsKept, Packed
<1>6. CASE ExitBegins
  <2>0. PICK p : p = pm.m.pid
    OBVIOUS
  <2>1. /\ at' = [at EXCEPT ![p] = "free"] /\ call' = [call EXCEPT ![p] = NoCall] /\ buf' = buf
        /\ pm'.at = "exit"
    BY <1>6, <2>0 DEF ExitBegins, CallsInv, PmRecord
  <2>2. \A x \in Pids : call'[x].type = "exec" => call'[x] = call[x]
    BY <1>1, <2>1, NoCallType DEF Typed
  <2> QED
    BY <2>1, <2>2, ArgumentsSame
<1>7. CASE ExitEnds
  <2>1. pm'.at = "wake"
    BY <1>7 DEF ExitEnds, CallsInv, PmRecord
  <2> QED
    BY <1>2, <1>7, <2>1 DEF ExitEnds
<1>8. CASE WakeUp
  <2>1. pm'.at # "exec"
    BY <1>8, Done DEF WakeUp, WakeOne, PassOver, WakeEnds, CallsInv, PmRecord
  <2> QED
    BY <1>2, <1>8, <2>1 DEF WakeUp, WakeOne, PassOver, WakeEnds
<1>9. CASE Sleep
  <2>1. pm'.at # "exec"
    BY <1>9, Done DEF Sleep
  <2> QED
    BY <1>2, <1>9, <2>1 DEF Sleep
<1>10. CASE ExecBegins
  <2>0. PICK p : p = pm.m.pid
    OBVIOUS
  <2>1. /\ pm.at = "serve" /\ pm.m.type = "exec" /\ at' = at /\ call' = call /\ buf' = buf
        /\ pm' = [pm EXCEPT !.at = "exec", !.argv = Unpacked(buf[p])]
    BY <1>10, <2>0 DEF ExecBegins, Serves
  <2>2. p \in Pids /\ call[p].type = "exec" /\ call[p] \in Calls
    BY <2>0, <2>1, OnlyServed
  <2>3. call[p].args \in ArgLists
    BY <2>2 DEF Calls
  <2>4. buf[p] \in [1 .. BufferSize -> Bytes] /\ buf[p] = Packed(call[p].args, buf[p])
    BY <2>2 DEF ArgumentsKept
  <2>5. Unpacked(buf[p]) = call[p].args
    BY <2>3, <2>4, ArgumentsArrive
  <2>6. pm'.argv = call[p].args /\ pm'.m = pm.m
    BY <2>1, <2>5 DEF CallsInv, PmRecord
  <2> QED
    BY <2>0, <2>1, <2>6 DEF ArgumentsKept, Packed
<1>11. CASE ExecEnds
  <2>0. PICK p : p = pm.m.pid
    OBVIOUS
  <2>1. /\ pm.at = "exec" /\ at' = [at EXCEPT ![p] = "user"] /\ call' = [call EXCEPT ![p] = NoCall]
        /\ PmDone
    BY <1>11, <2>0 DEF ExecEnds
  <2>2. PICK b \in Junk : buf' = [buf EXCEPT ![p] = Memory(b)]
    BY <1>11, <2>0 DEF ExecEnds
  <2>3. Memory(b) \in [1 .. BufferSize -> Bytes]
    BY ArgsAssumption DEF Memory
  <2>4. buf \in [Pids -> [1 .. BufferSize -> Bytes]]
    BY DEF ArgumentsKept
  <2>5. buf' \in [Pids -> [1 .. BufferSize -> Bytes]]
    BY <2>2, <2>3, <2>4
  <2>6. pm'.at # "exec" /\ p \in Pids
    BY <2>0, <2>1, Done, OnlyServed
  <2>7. call'[p] = NoCall /\ \A x \in Pids \ {p} : buf'[x] = buf[x] /\ at'[x] = at[x] /\ call'[x] = call[x]
    BY <1>1, <2>1, <2>2, <2>4, <2>6 DEF Typed
  <2>8. \A x \in Pids : call'[x].type = "exec" => buf'[x] = Packed(call'[x].args, buf'[x])
    BY <2>7, NoCallType DEF ArgumentsKept
  <2> QED
    BY <2>5, <2>6, <2>8 DEF ArgumentsKept, Packed
<1> QED
  BY <1>3, <1>4, <1>5, <1>6, <1>7, <1>8, <1>9, <1>10, <1>11 DEF ProcessManagement

LEMMA StepCallsEnd ==
    ASSUME CallsInv, CallsEnd, PmNext
    PROVE  CallsEnd'
<1>1. Typed
  BY InvTyped
<1>2. ASSUME at' = at, call' = call PROVE CallsEnd'
  BY <1>2 DEF CallsEnd
<1>3. ASSUME NEW x \in Pids, at' = [at EXCEPT ![x] = "user"] \/ at' = [at EXCEPT ![x] = "free"],
             call' = [call EXCEPT ![x] = NoCall]
      PROVE  CallsEnd'
  BY <1>1, <1>3 DEF CallsEnd, Typed
<1>4. ASSUME NEW x \in Pids, NEW to \in {"filled", "waits", "got"}, at' = [at EXCEPT ![x] = to],
             \A q \in Pids \ {x} : call'[q] = call[q]
      PROVE  CallsEnd'
  BY <1>1, <1>4 DEF CallsEnd, Typed
<1>5. CASE PmReceive \/ ForkBegins \/ ExitEnds \/ WakeUp \/ Sleep \/ ExecBegins
  BY <1>2, <1>5 DEF PmReceive, ForkBegins, ExitEnds, WakeUp, WakeOne, PassOver, WakeEnds, Sleep,
                    ExecBegins
<1>6. CASE ForkEnds
  <2>0. PICK q : q = pm.new
    OBVIOUS
  <2>1. pm.at = "fork" /\ at' = [at EXCEPT ![q] = "user"] /\ call' = call
    BY <1>6, <2>0 DEF ForkEnds
  <2>2. q \in Pids /\ at[q] = "free"
    BY <2>0, <2>1 DEF CallsInv, Served, Free
  <2> QED
    BY <1>1, <2>1, <2>2 DEF CallsEnd, Typed
<1>7. CASE ExitBegins \/ ExecEnds
  <2>0. PICK p : p = pm.m.pid
    OBVIOUS
  <2>1. /\ pm.at \in {"serve", "exec"} /\ call' = [call EXCEPT ![p] = NoCall]
        /\ at' = [at EXCEPT ![p] = "user"] \/ at' = [at EXCEPT ![p] = "free"]
    BY <1>7, <2>0 DEF ExitBegins, ExecEnds, Serves
  <2>2. p \in Pids
    BY <2>0, <2>1, OnlyServed
  <2> QED
    BY <1>3, <2>1, <2>2
<1>8. ASSUME NEW p \in Pids, User(p) PROVE CallsEnd'
  <2>1. CASE Send(p) \/ Receive(p)
    BY <1>4, <2>1 DEF Send, Receive
  <2>2. CASE Return(p)
    BY <1>2, <1>3, <2>2 DEF Return
  <2> QED
    BY <1>8, <2>1, <2>2 DEF User
<1>9. ASSUME NEW p \in Pids, NEW c \in Calls, Fill(p, c) PROVE CallsEnd'
  <2>1. at' = [at EXCEPT ![p] = "filled"] /\ call' = [call EXCEPT ![p] = c]
    BY <1>9 DEF Fill
  <2>2. \A q \in Pids \ {p} : call'[q] = call[q]
    BY <1>1, <2>1 DEF Typed
  <2> QED
    BY <1>4, <2>1, <2>2
<1> QED
  BY <1>5, <1>6, <1>7, <1>8, <1>9 DEF PmNext, ProcessManagement

(***************************************************************************)
(* Wake_Up does not look again at whom it has passed over.                 *)
(***************************************************************************)
LEMMA StepPassedOver ==
    ASSUME CallsInv, PassedOver, PmNext
    PROVE  PassedOver'
<1>1. Typed /\ Served /\ PmRecord
  BY InvTyped DEF CallsInv
<1>2. ASSUME pm'.at # "wake" PROVE PassedOver'
  BY <1>2 DEF PassedOver
<1>3. CASE WakeOne
  <2>0. PICK k : k = pm.i
    OBVIOUS
  <2>1. /\ pm.at = "wake" /\ k <= Len(queue) /\ pm' = [pm EXCEPT !.i = k]
        /\ queue' = Front([queue EXCEPT ![k] = queue[Len(queue)]])
    BY <1>3, <2>0 DEF WakeOne, NextAfter
  <2>2. k \in 1 .. Len(queue) /\ Len(queue) \in Nat /\ queue \in Seq([pid : Pids, wait_for : Pids])
    BY <1>1, <2>0, <2>1 DEF Served, Typed
  <2>3. /\ Len(queue') = Len(queue) - 1
        /\ \A j \in 1 .. Len(queue) - 1 : queue'[j] = IF j = k THEN queue[Len(queue)] ELSE queue[j]
    BY <2>1, <2>2, LastTakesPlace
  <2>4. pm'.i = k /\ pm'.m = pm.m
    BY <1>1, <2>1 DEF PmRecord
  <2>5. \A j \in 1 .. Len(queue) : j < k => queue[j].wait_for # pm.m.pid
    BY <2>0, <2>1 DEF PassedOver, WaitsForIt
  <2>6. ASSUME NEW j \in 1 .. Len(queue'), j < k PROVE queue'[j].wait_for # pm.m.pid
    <3>1. j \in 1 .. Len(queue) - 1 /\ j \in 1 .. Len(queue) /\ j # k
      BY <2>2, <2>3, <2>6
    <3> QED
      BY <2>3, <2>5, <2>6, <3>1
  <2> QED
    BY <2>4, <2>6 DEF PassedOver, WaitsForIt
<1>4. CASE PassOver
  <2>1. /\ pm.at = "wake" /\ ~WaitsForIt(pm.i) /\ pm' = [pm EXCEPT !.i = @ + 1] /\ queue' = queue
    BY <1>4 DEF PassOver
  <2>2. pm'.i = pm.i + 1 /\ pm'.m = pm.m /\ pm.i \in Nat
    BY <1>1, <2>1 DEF PmRecord, Served
  <2>3. ASSUME NEW k \in 1 .. Len(queue), k < pm.i + 1 PROVE queue[k].wait_for # pm.m.pid
    <3>1. k < pm.i \/ k = pm.i
      BY <2>2, <2>3
    <3> QED
      BY <2>1, <3>1 DEF PassedOver, WaitsForIt
  <2> QED
    BY <2>1, <2>2, <2>3 DEF PassedOver, WaitsForIt
<1>5. CASE ExitEnds
  <2>1. pm'.i = 1
    BY <1>1, <1>5 DEF ExitEnds, PmRecord
  <2> QED
    BY <2>1 DEF PassedOver
<1>6. CASE ProcessManagement /\ ~WakeOne /\ ~PassOver /\ ~ExitEnds
  <2>1. pm'.at # "wake"
    <3>1. CASE PmReceive
      <4>1. PICK k \in Oldest(PM, ANY) : pm' = [pm EXCEPT !.at = "serve", !.m = box[PM][k]]
        BY <3>1 DEF PmReceive
      <4> QED
        BY <1>1, <4>1 DEF PmRecord
    <3>2. CASE ForkBegins \/ ExitBegins \/ ExecBegins
      BY <1>1, <3>2 DEF ForkBegins, ExitBegins, ExecBegins, Serves, PmRecord
    <3>3. CASE ForkEnds \/ WakeEnds \/ Sleep \/ ExecEnds
      BY <3>3, Done DEF ForkEnds, WakeEnds, Sleep, ExecEnds
    <3> QED
      BY <1>6, <3>1, <3>2, <3>3 DEF ProcessManagement, WakeUp
  <2> QED
    BY <1>2, <2>1
<1>7. ASSUME NEW p \in Pids, User(p) \/ \E c \in Calls : Fill(p, c) PROVE PassedOver'
  <2>1. pm.at # "wake" /\ pm' = pm
    BY <1>7 DEF User, Send, Receive, Return, Fill, MayRun
  <2> QED
    BY <1>2, <2>1
<1> QED
  BY <1>3, <1>4, <1>5, <1>6, <1>7 DEF PmNext

-----------------------------------------------------------------------------
(***************************************************************************)
(* Pm implements Processes: what a step does to the phase, the call and    *)
(* the result of each process.                                             *)
(***************************************************************************)
Unseen(x) == Phase(x)' = Phase(x) /\ Result(x)' = Result(x) /\ CallOf(x)' = CallOf(x)

LEMMA NotSeen ==
    ASSUME NEW x \in Pids, at'[x] = at[x], box'[x] = box[x], eax'[x] = eax[x], call'[x] = call[x],
           at[x] = "got" => m' = m,
           Exiting(x)' <=> Exiting(x), Queued(x)' <=> Queued(x), Woken(x)' <=> Woken(x),
           Exiting(x) \/ Woken(x) => pm'.m = pm.m
    PROVE  Unseen(x)
BY DEF Unseen, Phase, Result, CallOf

LEMMA NothingSeen ==
    ASSUME \A x \in Pids : Unseen(x), argv' = argv, halt' = halt
    PROVE  UNCHANGED Abstract!procVars
BY DEF Unseen, Abstract!procVars

\* The queue and the process that exits are as they were.
LEMMA SameQueue ==
    ASSUME queue' = queue, pm' = pm, NEW CONSTANT x
    PROVE  (Exiting(x)' <=> Exiting(x)) /\ (Queued(x)' <=> Queued(x)) /\ (Woken(x)' <=> Woken(x))
BY DEF Exiting, Queued, Woken, WaitsForIt

\* Before and after the step nobody exits.
LEMMA NobodyExits ==
    ASSUME pm.at \notin {"exit", "wake"}, NEW CONSTANT x
    PROVE  ~Exiting(x) /\ ~Woken(x) /\ CallOf(x) = call[x]
BY DEF Exiting, Woken, CallOf

LEMMA NobodyExitsNext ==
    ASSUME pm'.at \notin {"exit", "wake"}, NEW CONSTANT x
    PROVE  ~Exiting(x)' /\ ~Woken(x)' /\ CallOf(x)' = call'[x]
BY DEF Exiting, Woken, CallOf

\* PM's step before an exit takes effect, or after: the others see nothing.
LEMMA QuietStep ==
    ASSUME pm.at \notin {"exit", "wake"}, pm'.at \notin {"exit", "wake"}, queue' = queue,
           NEW x \in Pids, at'[x] = at[x], box'[x] = box[x], eax'[x] = eax[x], call'[x] = call[x],
           at[x] = "got" => m' = m
    PROVE  Unseen(x)
<1>1. Queued(x)' <=> Queued(x)
  BY DEF Queued
<1> QED
  BY <1>1, NobodyExits, NobodyExitsNext, NotSeen

LEMMA IsQueued ==
    ASSUME NEW x
    PROVE  /\ Queued(x) <=> ~NotQueued(x)
           /\ Woken(x) => Queued(x)
BY DEF Queued, NotQueued, Woken

\* A process that runs, or is in the handler with m.
LEMMA OwnPhase ==
    ASSUME CallsInv, NEW x \in Pids, at[x] \in {"user", "filled", "got"}
    PROVE  /\ Phase(x) = CASE at[x] = "user" -> "run" [] at[x] = "filled" -> "asked"
                           [] at[x] = "got" -> "done"
           /\ Result(x) = IF at[x] = "got" THEN m.p1 ELSE eax[x]
           /\ CallOf(x) = call[x] /\ ~Exiting(x) /\ ~Queued(x) /\ ~Woken(x)
           /\ box[x] = <<>>
<1>1. NotQueued(x) /\ box[x] = <<>>
  BY Elsewhere
<1>2. ~Queued(x) /\ ~Woken(x)
  BY <1>1, IsQueued
<1>3. ~Exiting(x)
  BY DEF CallsInv, Served, Free, Exiting
<1> QED
  BY <1>1, <1>2, <1>3 DEF Phase, Result, CallOf

LEMMA FillEnters ==
    ASSUME ~Preemptible, CallsInv, NEW x \in Pids, NEW c \in Calls, Fill(x, c), halt = "none"
    PROVE  Abstract!Enter(x, c)
<1>1. Typed
  BY InvTyped
<1>2. /\ at[x] = "user" /\ at' = [at EXCEPT ![x] = "filled"] /\ call' = [call EXCEPT ![x] = c]
      /\ eax' = [eax EXCEPT ![x] = 0]
      /\ box' = box /\ argv' = argv /\ pm' = pm /\ queue' = queue /\ halt' = halt
  BY DEF Fill
<1>3. /\ at'[x] = "filled" /\ call'[x] = c /\ eax'[x] = 0
      /\ \A q \in Pids \ {x} : at'[q] = at[q] /\ call'[q] = call[q] /\ eax'[q] = eax[q]
  BY <1>1, <1>2 DEF Typed
<1>4. Phase(x) = "run"
  BY <1>2, OwnPhase
<1>5. Phase(x)' = "asked" /\ Result(x)' = 0 /\ CallOf(x)' = c
  <2>1. ~Queued(x)' /\ ~Woken(x)' /\ ~Exiting(x)' /\ box'[x] = <<>>
    BY <1>2, OwnPhase, SameQueue
  <2> QED
    BY <1>3, <2>1 DEF Phase, Result, CallOf
<1>6. ASSUME NEW q \in Pids \ {x} PROVE Unseen(q)
  <2>1. at[q] # "got" \/ m' = m
    BY <1>2 DEF Fill, MayRun
  <2> QED
    BY <1>2, <1>3, <2>1, SameQueue, NotSeen
<1> QED
  BY <1>2, <1>4, <1>5, <1>6 DEF Abstract!Enter, Unseen

\* A process on its way to PM, or served there, and not answered.
LEMMA AskedPhase ==
    ASSUME NEW x \in Pids, at[x] \in {"filled", "waits"}, box[x] = <<>>, NotQueued(x), ~Exiting(x)
    PROVE  Phase(x) = "asked" /\ Result(x) = eax[x] /\ CallOf(x) = call[x]
<1>1. ~Queued(x) /\ ~Woken(x)
  BY IsQueued
<1> QED
  BY <1>1 DEF Phase, Result, CallOf

LEMMA SendUnseen ==
    ASSUME ~Preemptible, CallsInv, CallsInv', NEW x \in Pids, Send(x)
    PROVE  UNCHANGED Abstract!procVars
<1>1. Typed
  BY InvTyped
<1>2. /\ at[x] = "filled" /\ at' = [at EXCEPT ![x] = "waits"]
      /\ box' = [box EXCEPT ![PM] = Append(@, Sent(x))]
      /\ call' = call /\ eax' = eax /\ argv' = argv /\ pm' = pm /\ queue' = queue /\ halt' = halt
      /\ \A q \in Pids \ {x} : at[q] \notin {"filled", "got"}
  BY DEF Send, MayRun, Deliver
<1>3. /\ at'[x] = "waits" /\ \A q \in Pids \ {x} : at'[q] = at[q]
      /\ \A q \in Pids : box'[q] = box[q]
  BY <1>1, <1>2, Ids DEF Typed
<1>4. Unseen(x)
  <2>1. NotQueued(x) /\ box[x] = <<>> /\ ~Exiting(x) /\ ~Woken(x)
    BY <1>2, Elsewhere, OwnPhase
  <2>2. Phase(x) = "asked" /\ Result(x) = eax[x] /\ CallOf(x) = call[x]
    BY <1>2, <2>1, AskedPhase
  <2>3. ~Queued(x)' /\ ~Woken(x)' /\ ~Exiting(x)' /\ box'[x] = <<>>
    BY <1>2, <1>3, <2>1, IsQueued, SameQueue
  <2>4. Phase(x)' = "asked" /\ Result(x)' = eax'[x] /\ CallOf(x)' = call'[x]
    BY <1>3, <2>3 DEF Phase, Result, CallOf
  <2> QED
    BY <1>2, <2>2, <2>4 DEF Unseen
<1>5. ASSUME NEW q \in Pids \ {x} PROVE Unseen(q)
  BY <1>2, <1>3, SameQueue, NotSeen
<1> QED
  BY <1>2, <1>4, <1>5, NothingSeen

LEMMA ReceiveUnseen ==
    ASSUME ~Preemptible, CallsInv, CallsInv', NEW x \in Pids, Receive(x)
    PROVE  UNCHANGED Abstract!procVars
<1>1. Typed /\ AnswersAwaited
  BY InvTyped DEF CallsInv
<1>2. /\ at[x] = "waits" /\ at' = [at EXCEPT ![x] = "got"]
      /\ call' = call /\ eax' = eax /\ argv' = argv /\ pm' = pm /\ queue' = queue /\ halt' = halt
      /\ \A q \in Pids \ {x} : at[q] \notin {"filled", "got"}
  BY DEF Receive, MayRun
<1>3. PICK k \in Oldest(x, PM) : Collect(x, k) /\ m' = box[x][k]
  BY DEF Receive
<1>4. k \in 1 .. Len(box[x]) /\ box[x] # <<>>
  BY <1>1, <1>3, EmptySeq DEF Oldest, Typed
<1>5. k = 1
  <2>1. Len(box[x]) = 1
    BY <1>1, <1>4 DEF AnswersAwaited
  <2> QED
    BY <1>4, <2>1
<1>6. /\ at'[x] = "got" /\ \A q \in Pids \ {x} : at'[q] = at[q] /\ box'[q] = box[q]
  BY <1>1, <1>2, <1>3 DEF Typed, Collect
<1>7. Unseen(x)
  <2>1. NotQueued(x)
    BY <1>4, Elsewhere
  <2>2. ~Queued(x) /\ ~Woken(x)
    BY <2>1, IsQueued
  <2>3. ~Exiting(x)
    BY <1>2 DEF CallsInv, Served, Free, Exiting
  <2>4. Phase(x) = "done" /\ Result(x) = box[x][1].p1 /\ CallOf(x) = call[x]
    BY <1>2, <1>4, <2>2, <2>3 DEF Phase, Result, CallOf
  <2>5. ~Exiting(x)'
    BY <1>2, <2>3, SameQueue
  <2>6. Phase(x)' = "done" /\ Result(x)' = m'.p1 /\ CallOf(x)' = call'[x]
    BY <1>6, <2>5 DEF Phase, Result, CallOf
  <2> QED
    BY <1>2, <1>3, <1>5, <2>4, <2>6 DEF Unseen
<1>8. ASSUME NEW q \in Pids \ {x} PROVE Unseen(q)
  BY <1>2, <1>6, SameQueue, NotSeen
<1> QED
  BY <1>2, <1>7, <1>8, NothingSeen

LEMMA ReturnLeaves ==
    ASSUME ~Preemptible, CallsInv, NEW x \in Pids, Return(x), halt = "none"
    PROVE  Abstract!Leave(x)
<1>1. Typed /\ OwnMessage
  BY InvTyped DEF CallsInv
<1>2. /\ at[x] = "got" /\ \A q \in Pids \ {x} : at[q] \notin {"filled", "got"}
      /\ box' = box /\ pm' = pm /\ queue' = queue /\ argv' = argv
  BY DEF Return, MayRun
<1>3. /\ eax' = [eax EXCEPT ![x] = m.p1] /\ call' = [call EXCEPT ![x] = NoCall]
      /\ at' = [at EXCEPT ![x] = "user"] /\ halt' = halt
  BY <1>1, <1>2 DEF OwnMessage, Return
<1>4. /\ at'[x] = "user" /\ call'[x] = NoCall /\ eax'[x] = m.p1
      /\ \A q \in Pids \ {x} : at'[q] = at[q] /\ call'[q] = call[q] /\ eax'[q] = eax[q]
  BY <1>1, <1>3 DEF Typed
<1>5. /\ Phase(x) = "done" /\ Result(x) = m.p1
      /\ ~Queued(x) /\ ~Woken(x) /\ ~Exiting(x) /\ box[x] = <<>>
  BY <1>2, OwnPhase
<1>6. Phase(x)' = "run" /\ Result(x)' = m.p1 /\ CallOf(x)' = NoCall
  <2>1. ~Queued(x)' /\ ~Woken(x)' /\ ~Exiting(x)' /\ box'[x] = <<>>
    BY <1>2, <1>5, SameQueue
  <2> QED
    BY <1>4, <2>1 DEF Phase, Result, CallOf
<1>7. ASSUME NEW q \in Pids \ {x} PROVE Unseen(q)
  BY <1>2, <1>4, SameQueue, NotSeen
<1> QED
  BY <1>2, <1>3, <1>5, <1>6, <1>7 DEF Abstract!Leave, Unseen
-----------------------------------------------------------------------------
(***************************************************************************)
(* The steps of PM.                                                        *)
(***************************************************************************)
LEMMA PmReceiveUnseen ==
    ASSUME CallsInv, PmReceive
    PROVE  UNCHANGED Abstract!procVars
<1>1. Typed /\ PmRecord
  BY InvTyped DEF CallsInv
<1>2. /\ pm.at = "top" /\ at' = at /\ call' = call /\ eax' = eax /\ argv' = argv /\ queue' = queue
      /\ halt' = halt /\ m' = m
  BY DEF PmReceive
<1>3. PICK k \in Oldest(PM, ANY) :
         Collect(PM, k) /\ pm' = [pm EXCEPT !.at = "serve", !.m = box[PM][k]]
  BY DEF PmReceive
<1>4. pm'.at = "serve" /\ \A q \in Pids : box'[q] = box[q]
  BY <1>1, <1>3, Ids DEF PmRecord, Typed, Collect
<1>5. \A q \in Pids : Unseen(q)
  BY <1>2, <1>4, QuietStep
<1> QED
  BY <1>2, <1>5, NothingSeen

\* Whose call PM works on, before it has its effect.
LEMMA ServedPhase ==
    ASSUME CallsInv, pm.at \in {"serve", "fork", "exec"}, NEW p, p = pm.m.pid
    PROVE  /\ p \in Pids /\ Phase(p) = "asked" /\ Result(p) = eax[p] /\ CallOf(p) = call[p]
           /\ call[p].type = pm.m.type /\ NotQueued(p) /\ box[p] = <<>> /\ at[p] = "waits"
           /\ call[p] \in Calls
<1>1. /\ p \in Pids /\ at[p] = "waits" /\ box[p] = <<>> /\ NotQueued(p)
      /\ pm.m.type = call[p].type /\ call[p] \in Calls
  BY OnlyServed
<1>2. ~Exiting(p)
  BY DEF Exiting
<1> QED
  BY <1>1, <1>2, AskedPhase

LEMMA ForkBeginsSimulates ==
    ASSUME CallsInv, ForkBegins, halt = "none"
    PROVE  UNCHANGED Abstract!procVars \/ \E p \in Pids : Abstract!Panic(p)
<1>1. Typed /\ PmRecord
  BY InvTyped DEF CallsInv
<1>2. /\ pm.at = "serve" /\ pm.m.type = "fork" /\ pm'.at \in {"serve", "fork"}
      /\ m' = m /\ at' = at /\ call' = call /\ eax' = eax /\ argv' = argv /\ queue' = queue
  BY <1>1 DEF ForkBegins, Serves, PmRecord
<1>3. box' = box
  <2>1. CASE Free = {}
    BY <2>1 DEF ForkBegins
  <2>2. CASE Free # {}
    <3> DEFINE q == CHOOSE x \in Free : \A y \in Free : x <= y
    <3>1. q \in Free
      <4>1. Free \subseteq Pids
        BY DEF Free
      <4>2. \E x \in Free : \A y \in Free : x <= y
        BY <2>2, <4>1, FirstFree
      <4> QED
        BY <4>2
    <3>2. pm' = [pm EXCEPT !.at = "fork", !.new = q] /\ box' = [box EXCEPT ![pm'.new] = <<>>]
      BY <2>2 DEF ForkBegins, EmptyPool
    <3> HIDE DEF q
    <3>3. q \in Pids /\ at[q] = "free" /\ pm'.new = q
      BY <1>1, <3>1, <3>2 DEF Free, PmRecord
    <3>4. box[q] = <<>>
      BY <3>3, Elsewhere
    <3> QED
      BY <1>1, <3>2, <3>3, <3>4 DEF Typed
  <2> QED
    BY <2>1, <2>2
<1>4. \A q \in Pids : Unseen(q)
  BY <1>2, <1>3, QuietStep
<1>5. CASE Free # {}
  <2>1. halt' = halt
    BY <1>5 DEF ForkBegins
  <2> QED
    BY <1>2, <1>4, <2>1, NothingSeen
<1>6. CASE Free = {}
  <2>0. PICK p : p = pm.m.pid
    OBVIOUS
  <2>1. halt' = "full"
    BY <1>6 DEF ForkBegins
  <2>2. p \in Pids /\ Phase(p) = "asked" /\ CallOf(p).type = "fork"
    BY <1>2, <2>0, ServedPhase
  <2>3. \A q \in Pids : Phase(q) # "none"
    BY <1>6 DEF Free, Phase
  <2>4. Abstract!Panic(p)
    BY <1>2, <1>4, <2>1, <2>2, <2>3 DEF Abstract!Panic, Abstract!Asks, Unseen
  <2> QED
    BY <2>2, <2>4
<1> QED
  BY <1>5, <1>6

LEMMA ForkEndsSpawns ==
    ASSUME CallsInv, ForkEnds, halt = "none"
    PROVE  \E p, q \in Pids : Abstract!Spawn(p, q)
<1>1. Typed /\ Served
  BY InvTyped DEF CallsInv
<1>0. PICK p, q, a : p = pm.m.pid /\ q = pm.new /\ a = Answer(pm.new)
  OBVIOUS
<1>2. /\ pm.at = "fork" /\ PmDone
      /\ at' = [at EXCEPT ![q] = "user"] /\ eax' = [eax EXCEPT ![q] = 0]
      /\ argv' = [argv EXCEPT ![q] = argv[p]]
      /\ box' = [box EXCEPT ![pm.m.src] = Append(@, a)]
      /\ m' = m /\ call' = call /\ queue' = queue /\ halt' = halt
  BY <1>0 DEF ForkEnds, ForkReply, Deliver
<1>3. /\ p \in Pids /\ Phase(p) = "asked" /\ CallOf(p) = call[p] /\ call[p].type = "fork"
      /\ NotQueued(p) /\ box[p] = <<>> /\ at[p] = "waits" /\ pm.m.src = p
  BY <1>0, <1>1, <1>2, ServedPhase, OnlyServed DEF Served
<1>4. q \in Pids /\ at[q] = "free" /\ q # p
  BY <1>0, <1>1, <1>2, <1>3 DEF Served, Free
<1>5. NotQueued(q) /\ box[q] = <<>>
  BY <1>4, Elsewhere
<1>6. pm'.at = "top"
  BY <1>2, Done
<1>7. /\ box'[p] = <<a>> /\ \A x \in Pids \ {p} : box'[x] = box[x]
      /\ at'[q] = "user" /\ \A x \in Pids \ {q} : at'[x] = at[x] /\ eax'[x] = eax[x]
      /\ eax'[q] = 0
  BY <1>1, <1>2, <1>3, <1>4 DEF Typed
<1>8. Phase(q) = "none" /\ CallOf(q) = call[q]
  BY <1>2, <1>4, NobodyExits DEF Phase
<1>9. /\ Phase(p)' = "done" /\ Result(p)' = q /\ CallOf(p)' = call[p]
  <2>1. ~Exiting(p)' /\ ~Woken(p)' /\ CallOf(p)' = call'[p]
    BY <1>6, NobodyExitsNext
  <2>2. box'[p] # <<>> /\ box'[p][1].p1 = q
    <3>1. <<a>> # <<>> /\ <<a>>[1] = a /\ a.p1 = q
      BY <1>0 DEF Answer
    <3> QED
      BY <1>7, <3>1
  <2>3. at'[p] = "waits"
    BY <1>3, <1>4, <1>7
  <2> QED
    BY <1>2, <2>1, <2>2, <2>3 DEF Phase, Result
<1>10. Phase(q)' = "run" /\ Result(q)' = 0 /\ CallOf(q)' = call[q]
  <2>1. ~Exiting(q)' /\ ~Woken(q)' /\ CallOf(q)' = call'[q]
    BY <1>6, NobodyExitsNext
  <2> QED
    BY <1>2, <1>4, <1>5, <1>7, <2>1 DEF Phase, Result
<1>11. \A x \in Pids \ {p, q} : Unseen(x)
  BY <1>2, <1>6, <1>7, QuietStep
<1>12. Abstract!Spawn(p, q)
  BY <1>2, <1>3, <1>4, <1>8, <1>9, <1>10, <1>11
  DEF Abstract!Spawn, Abstract!Asks, Unseen
<1> QED
  BY <1>3, <1>4, <1>12

LEMMA ExitBeginsUnseen ==
    ASSUME CallsInv, ExitBegins
    PROVE  UNCHANGED Abstract!procVars
<1>1. Typed /\ PmRecord
  BY InvTyped DEF CallsInv
<1>0. PICK p : p = pm.m.pid
  OBVIOUS
<1>2. /\ pm.at = "serve" /\ pm.m.type = "exit"
      /\ at' = [at EXCEPT ![p] = "free"] /\ call' = [call EXCEPT ![p] = NoCall]
      /\ pm' = [pm EXCEPT !.at = "exit"]
      /\ UNCHANGED <<box, m, eax, argv, queue, halt>>
  BY <1>0 DEF ExitBegins, Serves
<1>3. /\ p \in Pids /\ Phase(p) = "asked" /\ Result(p) = eax[p] /\ CallOf(p) = call[p]
      /\ NotQueued(p) /\ box[p] = <<>> /\ call[p] \in Calls /\ call[p].type = "exit"
  BY <1>0, <1>2, ServedPhase
<1>4. pm'.at = "exit" /\ pm'.m = pm.m
  BY <1>1, <1>2 DEF PmRecord
<1>5. call[p] = [type |-> "exit", p1 |-> pm.m.p1]
  <2>1. call[p] = [type |-> "exit", p1 |-> call[p].p1]
    BY <1>3 DEF Calls
  <2>2. pm.m = [Filled(p, call[p]) EXCEPT !.src = p]
    BY <1>0, <1>2, OnlyServed DEF Asks
  <2>3. pm.m.p1 = Filled(p, call[p]).p1 /\ Filled(p, call[p]).p1 = call[p].p1
    BY <1>3, <2>2, FilledFields DEF Filled
  <2> QED
    BY <2>1, <2>3
<1>6. at'[p] = "free" /\ \A x \in Pids \ {p} : at'[x] = at[x] /\ call'[x] = call[x]
  BY <1>1, <1>2, <1>3 DEF Typed
<1>7. Unseen(p)
  <2>1. Exiting(p)'
    BY <1>0, <1>4 DEF Exiting
  <2>2. Phase(p)' = "asked" /\ CallOf(p)' = [type |-> "exit", p1 |-> pm.m.p1]
    BY <1>4, <2>1 DEF Phase, CallOf
  <2>3. Result(p)' = eax[p]
    BY <1>2, <1>3, <1>4, <1>6 DEF Result, Woken
  <2> QED
    BY <1>3, <1>5, <2>2, <2>3 DEF Unseen
<1>8. ASSUME NEW x \in Pids \ {p} PROVE Unseen(x)
  <2>1. ~Exiting(x) /\ ~Woken(x)
    BY <1>2, NobodyExits
  <2>2. ~Exiting(x)' /\ ~Woken(x)'
    BY <1>0, <1>4, <1>8 DEF Exiting, Woken
  <2>3. Queued(x)' <=> Queued(x)
    BY <1>2 DEF Queued
  <2> QED
    BY <1>2, <1>6, <2>1, <2>2, <2>3, NotSeen
<1> QED
  BY <1>2, <1>7, <1>8, NothingSeen

\* Who is in WaitQueue, and for whom.
LEMMA QueuedPhase ==
    ASSUME CallsInv, NEW x \in Pids, Queued(x)
    PROVE  /\ at[x] = "waits" /\ box[x] = <<>> /\ ~Exiting(x)
           /\ CallOf(x) = call[x] /\ call[x].type = "waitpid"
           /\ Phase(x) = IF Woken(x) THEN "done" ELSE "waits"
           /\ Result(x) = IF Woken(x) THEN pm.m.p1 ELSE eax[x]
           /\ Woken(x) <=> pm.at = "wake" /\ call[x].p1 = pm.m.pid
<1>1. PICK k \in 1 .. Len(queue) : queue[k].pid = x
  BY DEF Queued
<1>2. /\ at[x] = "waits" /\ box[x] = <<>>
      /\ call[x] = [type |-> "waitpid", p1 |-> queue[k].wait_for]
      /\ \A j \in 1 .. Len(queue) : queue[j].pid = x => j = k
  BY <1>1, OneWaiter DEF CallsInv
<1>3. ~Exiting(x)
  BY <1>2 DEF CallsInv, Served, Free, Exiting
<1>4. Woken(x) <=> pm.at = "wake" /\ call[x].p1 = pm.m.pid
  BY <1>1, <1>2 DEF Woken, WaitsForIt
<1> QED
  BY <1>2, <1>3, <1>4 DEF Phase, Result, CallOf

\* Nobody else waits.
LEMMA WaitingPhase ==
    ASSUME NEW x \in Pids, Phase(x) = "waits"
    PROVE  Queued(x) /\ ~Woken(x)
BY DEF Phase

LEMMA ExitEndsEnds ==
    ASSUME CallsInv, CallsEnd, ExitEnds, halt = "none"
    PROVE  \E p \in Pids : Abstract!End(p)
<1>1. Typed /\ PmRecord /\ Served
  BY InvTyped DEF CallsInv
<1>0. PICK p : p = pm.m.pid
  OBVIOUS
<1>2. /\ pm.at = "exit" /\ argv' = [argv EXCEPT ![p] = <<>>]
      /\ pm' = [pm EXCEPT !.at = "wake", !.i = 1]
      /\ UNCHANGED <<box, m, at, call, eax, queue, halt>>
  BY <1>0 DEF ExitEnds
<1>3. pm'.at = "wake" /\ pm'.m = pm.m
  BY <1>1, <1>2 DEF PmRecord
<1>4. p \in Pids /\ at[p] = "free"
  BY <1>0, <1>1, <1>2 DEF Served, Free
<1>5. /\ Exiting(p) /\ \A x \in Pids \ {p} : ~Exiting(x)
      /\ \A x \in Pids : ~Exiting(x)' /\ ~Woken(x)
  BY <1>0, <1>2, <1>3 DEF Exiting, Woken
<1>6. NotQueued(p) /\ box[p] = <<>>
  BY <1>4, Elsewhere
<1>7. /\ Phase(p) = "asked" /\ CallOf(p) = [type |-> "exit", p1 |-> pm.m.p1]
      /\ Result(p) = eax[p]
  BY <1>4, <1>5, <1>6 DEF Phase, CallOf, Result
<1>8. Phase(p)' = "none" /\ CallOf(p)' = NoCall /\ Result(p)' = eax[p]
  <2>1. ~Woken(p)'
    BY <1>2, <1>6, IsQueued DEF Woken, NotQueued
  <2>2. call[p] = NoCall
    BY <1>4 DEF CallsEnd
  <2> QED
    BY <1>2, <1>4, <1>5, <1>6, <2>1, <2>2 DEF Phase, CallOf, Result
<1> DEFINE waiters == {x \in Pids : Phase(x) = "waits" /\ CallOf(x).p1 = p}
<1>9. ASSUME NEW x \in Pids \ {p}
      PROVE  /\ CallOf(x)' = CallOf(x)
             /\ x \in waiters => Phase(x)' = "done" /\ Result(x)' = pm.m.p1
             /\ x \notin waiters => Phase(x)' = Phase(x) /\ Result(x)' = Result(x)
  <2>1. CallOf(x) = call[x] /\ CallOf(x)' = call[x]
    BY <1>2, <1>5 DEF CallOf
  <2>2. CASE Queued(x)
    <3>1. /\ at[x] = "waits" /\ box[x] = <<>>
          /\ Phase(x) = "waits" /\ Result(x) = eax[x]
      BY <1>5, <2>2, QueuedPhase
    <3>2. Queued(x)' /\ (Woken(x)' <=> call[x].p1 = p)
      <4>1. PICK k \in 1 .. Len(queue) : queue[k].pid = x
        BY <2>2 DEF Queued
      <4>2. /\ call[x] = [type |-> "waitpid", p1 |-> queue[k].wait_for]
            /\ \A j \in 1 .. Len(queue) : queue[j].pid = x => j = k
        BY <4>1, OneWaiter DEF CallsInv
      <4> QED
        BY <1>0, <1>2, <1>3, <4>1, <4>2 DEF Queued, Woken, WaitsForIt
    <3>3. /\ Phase(x)' = IF Woken(x)' THEN "done" ELSE "waits"
          /\ Result(x)' = IF Woken(x)' THEN pm'.m.p1 ELSE eax'[x]
      BY <1>2, <1>5, <3>1, <3>2 DEF Phase, Result
    <3> QED
      BY <1>2, <1>3, <2>1, <3>1, <3>2, <3>3
  <2>3. CASE ~Queued(x)
    <3>1. ~Queued(x)' /\ ~Woken(x)'
      BY <1>2, <2>3 DEF Queued, Woken
    <3>2. Phase(x)' = Phase(x) /\ Result(x)' = Result(x)
      BY <1>2, <1>5, <2>3, <3>1 DEF Phase, Result
    <3>3. x \notin waiters
      BY <2>3, WaitingPhase
    <3> QED
      BY <2>1, <3>2, <3>3
  <2> QED
    BY <2>2, <2>3
<1>10. p \notin waiters
  BY <1>7
<1>11. waiters = Abstract!Waiters(p)
  BY <1>4 DEF Abstract!Waiters
<1> HIDE DEF waiters
<1>12. Abstract!End(p)
  <2>1. Abstract!Asks(p, "exit")
    BY <1>4, <1>7 DEF Abstract!Asks
  <2>2. \A q \in Pids :
           /\ Phase(q)' = IF q = p THEN "none" ELSE IF q \in waiters THEN "done" ELSE Phase(q)
           /\ Result(q)' = IF q \in waiters THEN pm.m.p1 ELSE Result(q)
           /\ CallOf(q)' = IF q = p THEN NoCall ELSE CallOf(q)
    BY <1>7, <1>8, <1>9, <1>10
  <2>3. CallOf(p).p1 = pm.m.p1
    BY <1>7
  <2>4. [q \in Pids |-> Phase(q)]' =
           [q \in Pids |-> IF q = p THEN "none"
                           ELSE IF q \in waiters THEN "done" ELSE [x \in Pids |-> Phase(x)][q]]
    BY <2>2
  <2>5. [q \in Pids |-> Result(q)]' =
           [q \in Pids |-> IF q \in waiters THEN [x \in Pids |-> CallOf(x)][p].p1
                           ELSE [x \in Pids |-> Result(x)][q]]
    BY <1>4, <2>2, <2>3
  <2>6. [q \in Pids |-> CallOf(q)]' = [[q \in Pids |-> CallOf(q)] EXCEPT ![p] = NoCall]
    BY <2>2
  <2> QED
    BY <1>2, <1>11, <2>1, <2>4, <2>5, <2>6 DEF Abstract!End
<1> QED
  BY <1>4, <1>12

(***************************************************************************)
(* The rounds of Wake_Up: whoever waits for the process had its answer     *)
(* when the exit took effect, and has it in its mailbox after its round.   *)
(***************************************************************************)
LEMMA WakeOneUnseen ==
    ASSUME CallsInv, CallsInv', WakeOne
    PROVE  UNCHANGED Abstract!procVars
<1>1. Typed /\ PmRecord /\ Served
  BY InvTyped DEF CallsInv
<1>0. PICK k, p, a : k = pm.i /\ p = queue[k].pid /\ a = Answer(pm.m.p1)
  OBVIOUS
<1>2. /\ pm.at = "wake" /\ k <= Len(queue) /\ WaitsForIt(k)
      /\ box' = [box EXCEPT ![p] = Append(@, a)]
      /\ queue' = Front([queue EXCEPT ![k] = queue[Len(queue)]])
      /\ pm' = [pm EXCEPT !.i = k]
      /\ UNCHANGED <<m, at, call, eax, argv, halt>>
  BY <1>0 DEF WakeOne, Deliver, NextAfter
<1> DEFINE n == Len(queue)
<1>3. k \in 1 .. n /\ n \in Nat /\ queue \in Seq([pid : Pids, wait_for : Pids]) /\ p \in Pids
  BY <1>0, <1>1, <1>2 DEF Served, Typed
<1>4. /\ Len(queue') = n - 1
      /\ \A j \in 1 .. n - 1 : queue'[j] = IF j = k THEN queue[n] ELSE queue[j]
  BY <1>2, <1>3, LastTakesPlace
<1>5. pm'.at = "wake" /\ pm'.m = pm.m
  BY <1>1, <1>2 DEF PmRecord
<1>6. /\ at[p] = "waits" /\ box[p] = <<>> /\ call[p].type = "waitpid"
      /\ \A j \in 1 .. n : queue[j].pid = p => j = k
  <2>1. /\ at[queue[k].pid] = "waits" /\ box[queue[k].pid] = <<>>
        /\ call[queue[k].pid] = [type |-> "waitpid", p1 |-> queue[k].wait_for]
        /\ \A j \in 1 .. n : queue[j].pid = queue[k].pid => j = k
    BY <1>3, OneWaiter DEF CallsInv
  <2> QED
    BY <1>0, <2>1
<1>7. /\ box'[p] = <<a>> /\ \A x \in Pids \ {p} : box'[x] = box[x]
  <2>1. Append(box[p], a) = <<a>>
    BY <1>6
  <2> QED
    BY <1>1, <1>2, <1>3, <2>1 DEF Typed
<1>8. \A x : ~Exiting(x) /\ ~Exiting(x)'
  BY <1>2, <1>5 DEF Exiting
<1>9. Unseen(p)
  <2>1. Queued(p) /\ Woken(p)
    BY <1>0, <1>2, <1>3 DEF Queued, Woken
  <2>2. Phase(p) = "done" /\ Result(p) = pm.m.p1 /\ CallOf(p) = call[p]
    BY <1>3, <2>1, QueuedPhase
  <2>3. box'[p] # <<>> /\ box'[p][1].p1 = pm.m.p1
    <3>1. <<a>> # <<>> /\ <<a>>[1] = a /\ a.p1 = pm.m.p1
      BY <1>0 DEF Answer
    <3> QED
      BY <1>7, <3>1
  <2>4. at'[p] = "waits" /\ call'[p] = call[p] /\ ~Exiting(p)'
    BY <1>2, <1>6, <1>8
  <2>5. Phase(p)' = "done" /\ Result(p)' = pm.m.p1 /\ CallOf(p)' = call[p]
    BY <2>3, <2>4 DEF Phase, Result, CallOf
  <2> QED
    BY <2>2, <2>5 DEF Unseen
<1>10. ASSUME NEW x \in Pids \ {p} PROVE Unseen(x)
  <2> DEFINE In(q, y) == \E j \in 1 .. Len(q) : q[j].pid = x /\ q[j].wait_for = y
  <2>1. \A y : In(queue', y) <=> In(queue, y)
    <3> SUFFICES ASSUME NEW y PROVE In(queue', y) <=> In(queue, y)
      OBVIOUS
    <3>1. ASSUME NEW j \in 1 .. Len(queue'), queue'[j].pid = x, queue'[j].wait_for = y
          PROVE  In(queue, y)
      BY <1>3, <1>4, <3>1
    <3>2. ASSUME NEW j \in 1 .. n, queue[j].pid = x, queue[j].wait_for = y
          PROVE  In(queue', y)
      <4>1. j # k
        BY <1>0, <3>2
      <4>2. CASE j = n
        <5>1. k \in 1 .. n - 1
          BY <1>3, <4>1, <4>2
        <5> QED
          BY <1>4, <3>2, <4>2, <5>1
      <4>3. CASE j # n
        <5>1. j \in 1 .. n - 1
          BY <1>3, <4>3
        <5> QED
          BY <1>4, <3>2, <4>1, <5>1
      <4> QED
        BY <4>2, <4>3
    <3> QED
      BY <3>1, <3>2
  <2>2. (Queued(x) <=> \E y : In(queue, y)) /\ (Queued(x)' <=> \E y : In(queue', y))
    BY DEF Queued
  <2>3. (Woken(x) <=> In(queue, pm.m.pid)) /\ (Woken(x)' <=> In(queue', pm.m.pid))
    BY <1>2, <1>5 DEF Woken, WaitsForIt
  <2> HIDE DEF In
  <2>4. (Queued(x)' <=> Queued(x)) /\ (Woken(x)' <=> Woken(x))
    BY <2>1, <2>2, <2>3
  <2> QED
    BY <1>2, <1>5, <1>7, <1>8, <2>4, NotSeen
<1> QED
  BY <1>2, <1>9, <1>10, NothingSeen

LEMMA PassOverUnseen ==
    ASSUME CallsInv, PassOver
    PROVE  UNCHANGED Abstract!procVars
<1>1. PmRecord
  BY DEF CallsInv
<1>2. /\ pm.at = "wake" /\ pm' = [pm EXCEPT !.i = @ + 1]
      /\ UNCHANGED <<box, m, at, call, eax, argv, queue, halt>>
  BY DEF PassOver
<1>3. pm'.at = "wake" /\ pm'.m = pm.m
  BY <1>1, <1>2 DEF PmRecord
<1>4. ASSUME NEW x \in Pids PROVE Unseen(x)
  BY <1>2, <1>3, NotSeen DEF Exiting, Queued, Woken, WaitsForIt
<1> QED
  BY <1>2, <1>4, NothingSeen

LEMMA WakeEndsUnseen ==
    ASSUME CallsInv, PassedOver, WakeEnds
    PROVE  UNCHANGED Abstract!procVars
<1>1. Typed /\ Served
  BY InvTyped DEF CallsInv
<1>2. /\ pm.at = "wake" /\ pm.i > Len(queue) /\ PmDone
      /\ UNCHANGED <<box, m, at, call, eax, argv, queue, halt>>
  BY DEF WakeEnds
<1>3. pm'.at = "top"
  BY <1>2, Done
<1>4. ASSUME NEW x \in Pids PROVE Unseen(x)
  <2>1. ~Woken(x)
    <3>1. \A k \in 1 .. Len(queue) : k < pm.i
      BY <1>1, <1>2 DEF Typed, Served
    <3> QED
      BY <1>2, <3>1 DEF PassedOver, Woken
  <2>2. ~Exiting(x) /\ ~Exiting(x)' /\ ~Woken(x)'
    BY <1>2, <1>3 DEF Exiting, Woken
  <2>3. Queued(x)' <=> Queued(x)
    BY <1>2 DEF Queued
  <2> QED
    BY <1>2, <2>1, <2>2, <2>3, NotSeen
<1> QED
  BY <1>2, <1>4, NothingSeen

LEMMA SleepWaits ==
    ASSUME CallsInv, CallsInv', Sleep, halt = "none"
    PROVE  \E p \in Pids : Abstract!Wait(p)
<1>1. Typed
  BY InvTyped
<1>0. PICK p, w : p = pm.m.pid /\ w = Waiter
  OBVIOUS
<1> DEFINE n == Len(queue)
<1>2. /\ pm.at = "serve" /\ pm.m.type = "waitpid" /\ PmDone /\ queue' = Append(queue, w)
      /\ UNCHANGED <<box, m, at, call, eax, argv, halt>>
  BY <1>0 DEF Sleep, Serves
<1>3. /\ p \in Pids /\ Phase(p) = "asked" /\ CallOf(p) = call[p] /\ call[p].type = "waitpid"
      /\ Result(p) = eax[p] /\ NotQueued(p) /\ box[p] = <<>> /\ at[p] = "waits"
  BY <1>0, <1>2, ServedPhase
<1>4. pm'.at = "top" /\ w.pid = p
  BY <1>0, <1>2, Done DEF Waiter
<1>5. w \in [pid : Pids, wait_for : Pids]
  <2>1. pm.m.p1 \in Pids
    BY <1>2, OnlyServed
  <2> QED
    BY <1>0, <1>3, <2>1 DEF Waiter
<1>6. /\ n \in Nat /\ Len(queue') = n + 1 /\ queue'[n + 1] = w
      /\ \A k \in 1 .. n : queue'[k] = queue[k]
  <2>1. queue \in Seq([pid : Pids, wait_for : Pids]) /\ n \in Nat
    BY <1>1 DEF Typed
  <2> QED
    BY <1>2, <1>5, <2>1, AppendProperties
<1>7. 1 .. Len(queue') = (1 .. n) \cup {n + 1}
  BY <1>6
<1>8. Phase(p)' = "waits" /\ Result(p)' = Result(p) /\ CallOf(p)' = CallOf(p)
  <2>1. Queued(p)'
    BY <1>4, <1>6, <1>7 DEF Queued
  <2>2. ~Exiting(p)' /\ ~Woken(p)' /\ CallOf(p)' = call'[p]
    BY <1>4, NobodyExitsNext
  <2> QED
    BY <1>2, <1>3, <2>1, <2>2 DEF Phase, Result
<1>9. ASSUME NEW x \in Pids \ {p} PROVE Unseen(x)
  <2>1. Queued(x)' <=> Queued(x)
    BY <1>4, <1>6, <1>7 DEF Queued
  <2>2. /\ ~Exiting(x) /\ ~Woken(x) /\ ~Exiting(x)' /\ ~Woken(x)'
    BY <1>2, <1>4, NobodyExits, NobodyExitsNext
  <2> QED
    BY <1>2, <2>1, <2>2, NotSeen
<1>10. Abstract!Wait(p)
  BY <1>2, <1>3, <1>8, <1>9 DEF Abstract!Wait, Abstract!Asks, Unseen
<1> QED
  BY <1>3, <1>10

LEMMA ExecBeginsUnseen ==
    ASSUME CallsInv, ExecBegins
    PROVE  UNCHANGED Abstract!procVars
<1>1. Typed /\ PmRecord
  BY InvTyped DEF CallsInv
<1>0. PICK p : p = pm.m.pid
  OBVIOUS
<1>2. /\ pm.at = "serve" /\ pm.m.type = "exec" /\ box' = [box EXCEPT ![p] = <<>>]
      /\ pm'.at = "exec"
      /\ UNCHANGED <<m, at, call, eax, argv, queue, halt>>
  BY <1>0, <1>1 DEF ExecBegins, Serves, EmptyPool, PmRecord
<1>3. box' = box
  <2>1. p \in Pids /\ box[p] = <<>>
    BY <1>0, <1>2, OnlyServed
  <2> QED
    BY <1>1, <1>2, <2>1 DEF Typed
<1>4. \A x \in Pids : Unseen(x)
  BY <1>2, <1>3, QuietStep
<1> QED
  BY <1>2, <1>4, NothingSeen

LEMMA ExecEndsReplaces ==
    ASSUME CallsInv, ArgumentsKept, ExecEnds, halt = "none"
    PROVE  \E p \in Pids : Abstract!Replace(p)
<1>1. Typed /\ Served
  BY InvTyped DEF CallsInv
<1>0. PICK p : p = pm.m.pid
  OBVIOUS
<1>2. /\ pm.at = "exec" /\ PmDone
      /\ at' = [at EXCEPT ![p] = "user"] /\ call' = [call EXCEPT ![p] = NoCall]
      /\ argv' = [argv EXCEPT ![p] = pm.argv]
      /\ UNCHANGED <<box, m, eax, queue, halt>>
  BY <1>0 DEF ExecEnds
<1>3. /\ p \in Pids /\ Phase(p) = "asked" /\ CallOf(p) = call[p] /\ call[p].type = "exec"
      /\ Result(p) = eax[p] /\ NotQueued(p) /\ box[p] = <<>>
  BY <1>0, <1>1, <1>2, ServedPhase DEF Served
<1>4. pm'.at = "top" /\ pm.argv = call[p].args
  BY <1>0, <1>2, Done DEF ArgumentsKept
<1>5. /\ at'[p] = "user" /\ call'[p] = NoCall
      /\ \A x \in Pids \ {p} : at'[x] = at[x] /\ call'[x] = call[x]
  BY <1>1, <1>2, <1>3 DEF Typed
<1>6. Phase(p)' = "run" /\ Result(p)' = Result(p) /\ CallOf(p)' = NoCall
  <2>1. ~Exiting(p)' /\ ~Woken(p)' /\ CallOf(p)' = call'[p]
    BY <1>4, NobodyExitsNext
  <2> QED
    BY <1>2, <1>3, <1>5, <2>1 DEF Phase, Result
<1>7. \A x \in Pids \ {p} : Unseen(x)
  BY <1>2, <1>4, <1>5, QuietStep
<1>8. Abstract!Replace(p)
  BY <1>2, <1>3, <1>4, <1>6, <1>7 DEF Abstract!Replace, Abstract!Asks, Unseen
<1> QED
  BY <1>3, <1>8

-----------------------------------------------------------------------------
LEMMA InitInv == PmInit => CallsInv
<1> SUFFICES ASSUME PmInit PROVE CallsInv
  OBVIOUS
<1>1. /\ box = [p \in Pids \cup {PM} |-> <<>>] /\ call = [p \in Pids |-> NoCall]
      /\ at = [p \in Pids |-> IF p = 1 THEN "user" ELSE "free"] /\ eax = [p \in Pids |-> 0]
      /\ pm = Idle /\ queue = <<>> /\ halt = "none"
  BY DEF PmInit
<1>2. pm.at = "top" /\ PmRecord /\ Served
  BY <1>1 DEF Idle, PmRecord, Served
<1>3. Len(queue) = 0 /\ queue \in Seq([pid : Pids, wait_for : Pids])
  BY <1>1
<1>4. PmTypeOK
  BY <1>1, <1>2, <1>3 DEF PmTypeOK, At, PmAt
<1>5. \A p \in Pids \cup {PM} : box[p] = <<>>
  BY <1>1
<1>6. box \in [Pids \cup {PM} -> Seq(Fields)]
  BY <1>1
<1>7. WaitersBlocked /\ AnswersAwaited /\ OwnMessage
  BY <1>1, <1>3, <1>5 DEF WaitersBlocked, AnswersAwaited, OwnMessage
<1>8. Requests
  <2>1. Len(box[PM]) = 0
    BY <1>5
  <2> QED
    BY <2>1 DEF Requests
<1> QED
  BY <1>1, <1>2, <1>3, <1>4, <1>5, <1>6, <1>7, <1>8 DEF CallsInv

LEMMA NextInv ==
    ASSUME ~Preemptible, CallsInv, [PmNext]_vars
    PROVE  CallsInv'
<1>1. CASE UNCHANGED vars
  <2>1. UNCHANGED <<box, m, at, call, eax, queue, halt, pm>>
    BY <1>1 DEF vars
  <2> QED
    BY <2>1 DEF CallsInv, PmTypeOK, PmRecord, WaitersBlocked, AnswersAwaited, OwnMessage, Requests,
                Served, Asks, Free, Filled
<1>2. CASE PmNext
  <2>1. halt = "none"
    BY <1>2 DEF PmNext
  <2>2. CASE ProcessManagement
    BY <2>1, <2>2, PmReceiveKeeps, ForkBeginsKeeps, ForkEndsKeeps, ExitBeginsKeeps,
       ExitEndsKeeps, WakeOneKeeps, PassOverKeeps, WakeEndsKeeps, SleepKeeps, ExecBeginsKeeps,
       ExecEndsKeeps DEF ProcessManagement, WakeUp
  <2>3. ASSUME NEW p \in Pids, User(p) \/ \E c \in Calls : Fill(p, c)
        PROVE  CallsInv'
    BY <2>1, <2>3, SendKeeps, ReceiveKeeps, ReturnKeeps, FillKeeps DEF User
  <2> QED
    BY <1>2, <2>2, <2>3 DEF PmNext
<1> QED
  BY <1>1, <1>2

\* Every step of Pm is one of Processes, or seen by nobody.
LEMMA StepProcesses ==
    ASSUME ~Preemptible, PmInv, CallsInv', [PmNext]_vars
    PROVE  [Abstract!ProcNext]_Abstract!procVars
<1> /\ CallsInv /\ CallsEnd /\ ArgumentsKept /\ PassedOver
  BY DEF PmInv
<1>1. CASE UNCHANGED vars
  <2>1. UNCHANGED <<box, m, at, call, eax, argv, queue, halt, pm>>
    BY <1>1 DEF vars
  <2>2. \A x \in Pids : Unseen(x)
    BY <2>1, SameQueue, NotSeen
  <2> QED
    BY <2>1, <2>2, NothingSeen
<1>2. CASE PmNext
  <2>1. halt = "none"
    BY <1>2 DEF PmNext
  <2>2. ~(halt # "none")
    BY <2>1
  <2>3. CASE PmReceive \/ ExitBegins \/ WakeUp \/ ExecBegins
    BY <2>3, PmReceiveUnseen, ExitBeginsUnseen, WakeOneUnseen, PassOverUnseen, WakeEndsUnseen,
       ExecBeginsUnseen DEF WakeUp
  <2>4. CASE ForkBegins
    <3>1. ASSUME NEW p \in Pids, Abstract!Panic(p) PROVE Abstract!ProcNext
      BY <2>2, <3>1 DEF Abstract!ProcNext, Abstract!Effect
    <3> QED
      BY <2>1, <2>4, <3>1, ForkBeginsSimulates
  <2>5. CASE ForkEnds
    <3>1. PICK p, q \in Pids : Abstract!Spawn(p, q)
      BY <2>1, <2>5, ForkEndsSpawns
    <3> QED
      BY <2>2, <3>1 DEF Abstract!ProcNext, Abstract!Effect
  <2>6. CASE ExitEnds
    <3>1. PICK p \in Pids : Abstract!End(p)
      BY <2>1, <2>6, ExitEndsEnds
    <3> QED
      BY <2>2, <3>1 DEF Abstract!ProcNext, Abstract!Effect
  <2>7. CASE Sleep
    <3>1. PICK p \in Pids : Abstract!Wait(p)
      BY <2>1, <2>7, SleepWaits
    <3> QED
      BY <2>2, <3>1 DEF Abstract!ProcNext, Abstract!Effect
  <2>8. CASE ExecEnds
    <3>1. PICK p \in Pids : Abstract!Replace(p)
      BY <2>1, <2>8, ExecEndsReplaces
    <3> QED
      BY <2>2, <3>1 DEF Abstract!ProcNext, Abstract!Effect
  <2>9. ASSUME NEW p \in Pids, User(p) PROVE [Abstract!ProcNext]_Abstract!procVars
    <3>1. CASE Send(p) \/ Receive(p)
      BY <3>1, SendUnseen, ReceiveUnseen
    <3>2. CASE Return(p)
      <4>1. Abstract!Leave(p)
        BY <2>1, <3>2, ReturnLeaves
      <4> QED
        BY <4>1 DEF Abstract!ProcNext
    <3> QED
      BY <2>9, <3>1, <3>2 DEF User
  <2>10. ASSUME NEW p \in Pids, NEW c \in Calls, Fill(p, c) PROVE Abstract!ProcNext
    <3>1. Abstract!Enter(p, c)
      BY <2>1, <2>10, FillEnters
    <3> QED
      BY <3>1 DEF Abstract!ProcNext
  <2> QED
    BY <1>2, <2>3, <2>4, <2>5, <2>6, <2>7, <2>8, <2>9, <2>10 DEF PmNext, ProcessManagement
<1> QED
  BY <1>1, <1>2

LEMMA InitProcesses == PmInit => Abstract!ProcInit /\ PmInv
<1> SUFFICES ASSUME PmInit PROVE Abstract!ProcInit /\ PmInv
  OBVIOUS
<1>1. /\ box = [p \in Pids \cup {PM} |-> <<>>] /\ call = [p \in Pids |-> NoCall]
      /\ at = [p \in Pids |-> IF p = 1 THEN "user" ELSE "free"] /\ eax = [p \in Pids |-> 0]
      /\ argv = [p \in Pids |-> <<>>] /\ pm = Idle /\ queue = <<>> /\ halt = "none"
      /\ buf \in [Pids -> {Memory(b) : b \in Junk}]
  BY DEF PmInit
<1>2. pm.at = "top" /\ Len(queue) = 0
  BY <1>1 DEF Idle
<1>3. \A p \in Pids : /\ ~Exiting(p) /\ ~Queued(p) /\ ~Woken(p)
                      /\ box[p] = <<>> /\ call[p] = NoCall /\ eax[p] = 0
                      /\ at[p] = IF p = 1 THEN "user" ELSE "free"
  BY <1>1, <1>2 DEF Exiting, Queued, Woken
<1>4. \A p \in Pids : /\ Phase(p) = IF p = 1 THEN "run" ELSE "none"
                      /\ Result(p) = 0 /\ CallOf(p) = NoCall
  BY <1>3 DEF Phase, Result, CallOf
<1>5. 1 \in Pids
  BY ArgsAssumption DEF Pids
<1>6. Abstract!ProcInit
  BY <1>1, <1>4, <1>5 DEF Abstract!ProcInit
<1>7. CallsEnd /\ PassedOver
  BY <1>2, <1>3 DEF CallsEnd, PassedOver
<1>8. ArgumentsKept
  <2>1. \A b \in Junk : Memory(b) \in [1 .. BufferSize -> Bytes]
    BY ArgsAssumption DEF Memory
  <2>2. buf \in [Pids -> [1 .. BufferSize -> Bytes]]
    BY <1>1, <2>1
  <2> QED
    BY <1>2, <1>3, <2>2, NoCallType DEF ArgumentsKept
<1> QED
  BY <1>6, <1>7, <1>8, InitInv DEF PmInv

LEMMA StepInv ==
    ASSUME ~Preemptible, PmInv, [PmNext]_vars
    PROVE  PmInv'
<1> CallsInv /\ CallsEnd /\ ArgumentsKept /\ PassedOver
  BY DEF PmInv
<1>1. CallsInv'
  BY NextInv
<1>2. CASE UNCHANGED vars
  <2>1. UNCHANGED <<at, call, buf, queue, pm>>
    BY <1>2 DEF vars
  <2> QED
    BY <1>1, <2>1 DEF PmInv, CallsEnd, ArgumentsKept, Packed, PassedOver, WaitsForIt
<1>3. CASE PmNext
  <2>1. ArgumentsKept'
    BY <1>3, FillArguments, UserArguments, PmArguments DEF PmNext
  <2> QED
    BY <1>1, <1>3, <2>1, StepCallsEnd, StepPassedOver DEF PmInv
<1> QED
  BY <1>2, <1>3

\* While the handler of a system call is not preempted, a call is in one place
\* only, on its way to PM, served, in WaitQueue or answered, and its process
\* sleeps for as long (irq_handle.c and pm.c together); and what it executes
\* with is in its buffer until PM has read it.
THEOREM PmInvariant ==
    ASSUME ~Preemptible
    PROVE  PmSpec => []PmInv
<1>1. PmInit => PmInv
  BY InitProcesses
<1>2. PmInv /\ [PmNext]_vars => PmInv'
  BY StepInv
<1> QED
  BY <1>1, <1>2, PTL DEF PmSpec

THEOREM PmTyped ==
    ASSUME ~Preemptible
    PROVE  PmSpec => []PmTypeOK
<1>1. PmInv => PmTypeOK
  BY DEF PmInv, CallsInv
<1> QED
  BY <1>1, PmInvariant, PTL

\* Who is in WaitQueue sleeps in its waitpid, is there once and has no answer.
THEOREM WaitersAreBlocked ==
    ASSUME ~Preemptible
    PROVE  PmSpec => []WaitersBlocked
<1>1. PmInv => WaitersBlocked
  BY DEF PmInv, CallsInv
<1> QED
  BY <1>1, PmInvariant, PTL

\* No answer of PM is left for another process than the one that asked.
THEOREM AnswersAreAwaited ==
    ASSUME ~Preemptible
    PROVE  PmSpec => []AnswersAwaited
<1>1. PmInv => AnswersAwaited
  BY DEF PmInv, CallsInv
<1> QED
  BY <1>1, PmInvariant, PTL

\* The panics behind INT80_EXIT and INT80_EXEC are never reached, unless the
\* handler is preempted while m has something: the race on m is their only cause.
THEOREM ExitNeverReturns ==
    ASSUME ~Preemptible
    PROVE  PmSpec => []NoImpossibleReturn
<1>1. PmInv => NoImpossibleReturn
  BY DEF PmInv, CallsInv, NoImpossibleReturn
<1> QED
  BY <1>1, PmInvariant, PTL

(***************************************************************************)
(* fork, exit, waitpid and execv do what Processes promises: each takes    *)
(* effect at once between its call and its return, an exit answers exactly *)
(* those who then wait for the process, with its code, a child has its own *)
(* pid and returns 0, and main gets the arguments that were given to execv.*)
(***************************************************************************)
THEOREM ImplementsCalls ==
    ASSUME ~Preemptible
    PROVE  PmSpec => ProcSafety
<1>1. PmInit => Abstract!ProcInit
  BY InitProcesses
<1>2. PmInv /\ PmInv' /\ [PmNext]_vars => [Abstract!ProcNext]_Abstract!procVars
  BY StepProcesses DEF PmInv
<1> QED
  BY <1>1, <1>2, PmInvariant, PTL DEF PmSpec, ProcSafety
=============================================================================
