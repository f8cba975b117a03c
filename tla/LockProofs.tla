---------------------------- MODULE LockProofs ----------------------------
(***************************************************************************)
(* Proofs about Lock, for every set of processes and every nesting depth.  *)
(***************************************************************************)
EXTENDS Lock, SequenceTheorems, TLAPS

\* The frame of a new thread enables interrupts when it is popped.
LEMMA InitialFrame ==
    /\ <<>> \in Seq({0, 1}) /\ <<1>> \in Seq({0, 1})
    /\ Len(<<>>) = 0 /\ Len(<<1>>) = 1 /\ <<1>>[1] = 1
    /\ <<1>> # <<>>
  OBVIOUS

\* Threads start outside every section, with enter_interrupt clear.
LEMMA InitInv == Init => IInv
<1> SUFFICES ASSUME Init PROVE IInv
  OBVIOUS
<1>1. TypeOK
  <2>1. \A p \in Threads : frames[p] \in Seq({0, 1})
    BY InitialFrame DEF Init
  <2> QED
    BY <2>1, LockAssumption DEF Init, TypeOK, PC, LockPC, Contexts
<1>2. /\ at[Irq] = "none" /\ Running = cur /\ cur \in Threads /\ cur \in Contexts
      /\ \A c \in Contexts : depth[c] = 0
      /\ \A p \in Threads : at[p] = "out" /\ (p # cur => frames[p] = <<1>>)
      /\ frames[cur] = <<>>
  BY LockAssumption DEF Init, Running, Contexts
<1>3. FramesEnable
  <2> SUFFICES ASSUME NEW p \in Threads, NEW i \in 1 .. Len(frames[p])
               PROVE  frames[p][i] = 1
    BY DEF FramesEnable
  <2>1. CASE p = cur
    BY <1>2, <2>1, InitialFrame
  <2>2. CASE p # cur
    BY <1>2, <2>2, InitialFrame
  <2> QED
    BY <2>1, <2>2
<1>4. CounterIsDepth
  BY <1>2 DEF CounterIsDepth, Init
<1>5. \A p \in Threads : p # Running => Suspended(p)
  BY <1>2, InitialFrame DEF Suspended, Contexts
<1>6. ThreadRuns(cur) /\ depth[Irq] = 0
  BY <1>2 DEF ThreadRuns, Init, Contexts
<1> QED
  BY <1>1, <1>2, <1>3, <1>4, <1>5, <1>6 DEF IInv

(***************************************************************************)
(* What IInv says of the context that runs, whichever it is.               *)
(***************************************************************************)
LEMMA Facts ==
    ASSUME IInv
    PROVE  /\ cur \in Threads /\ Irq \in Contexts /\ Threads \subseteq Contexts
           /\ Irq \notin Threads /\ cur # Irq
           /\ Running \in Contexts
           /\ counter = depth[Running]
           /\ at \in [Contexts -> PC] /\ depth \in [Contexts -> Int]
           /\ frames \in [Threads -> Seq({0, 1})]
           /\ intFlag \in {0, 1} /\ enter \in {0, 1} /\ counter \in Int
  BY LockAssumption DEF IInv, TypeOK, Contexts, Running, CounterIsDepth

\* Appending to and removing from a stack of frames.
LEMMA FrameFacts ==
    ASSUME NEW s \in Seq({0, 1}), \A i \in 1 .. Len(s) : s[i] = 1
    PROVE  /\ Append(s, 1) \in Seq({0, 1}) /\ Append(s, 1) # <<>>
           /\ \A i \in 1 .. Len(Append(s, 1)) : Append(s, 1)[i] = 1
           /\ s # <<>> => /\ Last(s) = 1
                          /\ Front(s) \in Seq({0, 1})
                          /\ \A i \in 1 .. Len(Front(s)) : Front(s)[i] = 1
<1>1. Append(s, 1) \in Seq({0, 1}) /\ Append(s, 1) # <<>>
  <2>1. Append(s, 1) \in Seq({0, 1}) /\ Len(Append(s, 1)) = Len(s) + 1 /\ Len(s) \in Nat
    BY AppendProperties, LenProperties
  <2>2. Len(Append(s, 1)) # 0
    BY <2>1
  <2> QED
    BY <2>1, <2>2
<1>2. \A i \in 1 .. Len(Append(s, 1)) : Append(s, 1)[i] = 1
  BY AppendProperties
<1>3. ASSUME s # <<>>
      PROVE  /\ Last(s) = 1
             /\ Front(s) \in Seq({0, 1})
             /\ \A i \in 1 .. Len(Front(s)) : Front(s)[i] = 1
  <2>1. Len(s) \in Nat /\ Len(s) # 0
    BY <1>3, EmptySeq
  <2> QED
    BY <2>1 DEF Last, Front
<1> QED
  BY <1>1, <1>2, <1>3

(***************************************************************************)
(* A step of lock() or unlock() moves only the running context, and leaves *)
(* the frames, enter_interrupt and current_pcb alone.                      *)
(***************************************************************************)
LEMMA CodeStep ==
    ASSUME IInv, NEW x \in LockPC, at[Running] \in LockPC,
           at' = [at EXCEPT ![Running] = x],
           UNCHANGED <<enter, cur, frames>>,
           intFlag' \in {0, 1}, counter' \in Int, depth' \in [Contexts -> Int],
           counter' = depth'[Running], depth'[Running] >= 0,
           \A c \in Contexts \ {Running} : depth'[c] = depth[c],
           Running = cur => ThreadRuns(cur)',
           Running = Irq => HandlerRuns'
    PROVE  IInv'
<1>1. x \in PC /\ x \notin {"none", "entry", "exit", "sched"}
  BY DEF LockPC, PC
<1>2. Running' = Running /\ (at[Irq] = "none" <=> at'[Irq] = "none")
      /\ (at[Irq] # "none" => Running = Irq) /\ (at[Irq] = "none" => Running = cur)
  BY <1>1, Facts DEF Running, LockPC
<1>3. TypeOK'
  BY <1>1, Facts DEF TypeOK
<1>4. CounterIsDepth'
  BY <1>1, <1>2, Facts DEF CounterIsDepth, IInv, LockPC
<1>5. FramesEnable'
  BY DEF FramesEnable, IInv
<1>6. \A c \in Contexts : depth'[c] >= 0
  BY DEF IInv
<1>7. \A p \in Threads : p # Running' => Suspended(p)'
  BY <1>2, Facts DEF Suspended, IInv
<1>8. IF at'[Irq] = "none" THEN depth'[Irq] = 0 /\ ThreadRuns(cur)' ELSE HandlerRuns'
  BY <1>2, Facts DEF IInv
<1> QED
  BY <1>3, <1>4, <1>5, <1>6, <1>7, <1>8 DEF IInv

\* Each instruction of lock() and unlock(), for a process and for a handler.
LEMMA LockCodeInv ==
    ASSUME IInv, LockCode(Running)
    PROVE  IInv'
<1> DEFINE c == Running
<1>1. /\ c \in Contexts /\ counter = depth[c] /\ depth[c] >= 0 /\ depth[c] \in Int
      /\ at \in [Contexts -> PC] /\ depth \in [Contexts -> Int]
      /\ intFlag \in {0, 1} /\ counter \in Int
  BY Facts DEF IInv
<1>2. /\ c = cur => ThreadRuns(cur)
      /\ c = Irq => HandlerRuns /\ (at[Irq] = "out" => enter = 1)
      /\ at[c] \in LockPC /\ c = Irq => enter = 1
  BY Facts DEF IInv, Running, CounterIsDepth, LockPC
<1>3. (c = cur /\ c # Irq /\ enter = 0) \/ (c = Irq /\ c # cur)
  BY Facts DEF Running, IInv, CounterIsDepth
<1> USE DEF Goto, LockPC
<1>4. CASE CallLock(c)
  BY <1>1, <1>2, <1>3, <1>4, CodeStep DEF CallLock, ThreadRuns, HandlerRuns
<1>5. CASE LockTest(c)
  BY <1>1, <1>2, <1>3, <1>5, CodeStep DEF LockTest, ThreadRuns, HandlerRuns
<1>6. CASE LockCli(c)
  BY <1>1, <1>2, <1>3, <1>6, CodeStep DEF LockCli, ThreadRuns, HandlerRuns
<1>7. CASE LockInc(c)
  BY <1>1, <1>2, <1>3, <1>7, CodeStep DEF LockInc, ThreadRuns, HandlerRuns
<1>8. CASE CallUnlock(c)
  BY <1>1, <1>2, <1>3, <1>8, CodeStep DEF CallUnlock, ThreadRuns, HandlerRuns
<1>9. CASE UnlockDec(c)
  BY <1>1, <1>2, <1>3, <1>9, CodeStep DEF UnlockDec, ThreadRuns, HandlerRuns
<1>10. CASE UnlockTest(c)
  <2>2. CASE counter = 0 /\ enter = 0
    <3>1. c = cur /\ at' = [at EXCEPT ![c] = "usti"] /\ at[c] = "utest"
      BY <1>2, <1>3, <1>10, <2>2 DEF UnlockTest
    <3> QED
      BY <1>1, <1>2, <1>3, <1>10, <2>2, <3>1, CodeStep DEF UnlockTest, ThreadRuns
  <2>3. CASE ~(counter = 0 /\ enter = 0)
    <3>1. at' = [at EXCEPT ![c] = "out"] /\ at[c] = "utest"
      BY <1>10, <2>3 DEF UnlockTest
    <3>2. c = cur => intFlag = 0 /\ depth[c] # 0
      BY <1>1, <1>2, <1>3, <2>3, <3>1 DEF ThreadRuns
    <3>3. at'[c] = "out" /\ UNCHANGED <<intFlag, counter, enter, cur, depth, frames>>
      BY <1>1, <1>10, <3>1 DEF UnlockTest
    <3>4. c = cur => ThreadRuns(cur)'
      BY <1>1, <3>2, <3>3 DEF ThreadRuns
    <3>5. c = Irq => HandlerRuns'
      BY <1>2, <3>3 DEF HandlerRuns
    <3> QED
      BY <1>1, <3>1, <3>3, <3>4, <3>5, CodeStep
  <2> QED
    BY <2>2, <2>3
<1>11. CASE UnlockSti(c)
  BY <1>1, <1>2, <1>3, <1>11, CodeStep DEF UnlockSti, ThreadRuns, HandlerRuns
<1> QED
  BY <1>4, <1>5, <1>6, <1>7, <1>8, <1>9, <1>10, <1>11 DEF LockCode

(***************************************************************************)
(* The entries and exits of system calls and interrupts.                   *)
(***************************************************************************)
LEMMA Int80Inv ==
    ASSUME IInv, Running = cur, Int80(cur)
    PROVE  IInv'
<1> USE Facts
<1>1. at[Irq] = "none" /\ intFlag = 1
  BY DEF Running, IInv, ThreadRuns, Int80
<1>2. frames' = [frames EXCEPT ![cur] = Append(frames[cur], 1)]
      /\ UNCHANGED <<intFlag, counter, enter, cur, at, depth>> /\ Running' = Running
  BY <1>1 DEF Int80, Running
<1>3. /\ Append(frames[cur], 1) \in Seq({0, 1}) /\ Append(frames[cur], 1) # <<>>
      /\ \A i \in 1 .. Len(Append(frames[cur], 1)) : Append(frames[cur], 1)[i] = 1
  BY FrameFacts DEF IInv, FramesEnable
<1>4. TypeOK'
  BY <1>2, <1>3 DEF TypeOK
<1>5. FramesEnable'
  BY <1>2, <1>3 DEF FramesEnable, IInv
<1>6. CounterIsDepth' /\ \A c \in Contexts : depth'[c] >= 0
  BY <1>2 DEF CounterIsDepth, IInv
<1>7. \A p \in Threads : p # Running' => Suspended(p)'
  BY <1>2 DEF Suspended, IInv
<1>8. at'[Irq] = "none" /\ depth'[Irq] = 0 /\ ThreadRuns(cur)'
  BY <1>1, <1>2, <1>3 DEF ThreadRuns, IInv
<1> QED
  BY <1>4, <1>5, <1>6, <1>7, <1>8 DEF IInv

\* The cli of asm_do_int.
LEMMA IntCliInv ==
    ASSUME IInv, Running = cur, IntCli(cur)
    PROVE  IInv'
<1> USE Facts
<1>1. at[Irq] = "none"
  BY DEF Running
<1>2. at' = [at EXCEPT ![cur] = "sched"] /\ intFlag' = 0 /\ depth[cur] = 0
      /\ frames[cur] # <<>>
      /\ UNCHANGED <<counter, enter, cur, depth, frames>> /\ Running' = Running
      /\ at'[Irq] = "none"
  BY <1>1 DEF IntCli, Goto, Running
<1>3. TypeOK'
  BY <1>2 DEF TypeOK, PC
<1>4. CounterIsDepth' /\ FramesEnable' /\ \A c \in Contexts : depth'[c] >= 0
  BY <1>1, <1>2 DEF CounterIsDepth, FramesEnable, IInv
<1>5. \A p \in Threads : p # Running' => Suspended(p)'
  BY <1>2 DEF Suspended, IInv
<1>6. depth'[Irq] = 0 /\ ThreadRuns(cur)'
  BY <1>1, <1>2 DEF ThreadRuns, IInv
<1> QED
  BY <1>2, <1>3, <1>4, <1>5, <1>6 DEF IInv

\* What iret finds in the frame of the process it returns to.
LEMMA IretFacts ==
    ASSUME IInv, NEW q \in Threads, Iret(q)
    PROVE  /\ intFlag' = 1 /\ cur' = q /\ frames[q] # <<>>
           /\ frames' \in [Threads -> Seq({0, 1})]
           /\ \A p \in Threads \ {q} : frames'[p] = frames[p]
           /\ FramesEnable'
<1> USE Facts
<1>1. /\ intFlag' = Last(frames[q]) /\ cur' = q /\ frames[q] # <<>>
      /\ frames' = [frames EXCEPT ![q] = Front(frames[q])]
  BY DEF Iret
<1>2. /\ Last(frames[q]) = 1 /\ Front(frames[q]) \in Seq({0, 1})
      /\ \A i \in 1 .. Len(Front(frames[q])) : Front(frames[q])[i] = 1
  BY <1>1, FrameFacts DEF IInv, FramesEnable
<1>3. FramesEnable'
  BY <1>1, <1>2 DEF FramesEnable, IInv
<1> QED
  BY <1>1, <1>2, <1>3

\* schedule() and iret of asm_do_int.
LEMMA IntSchedInv ==
    ASSUME IInv, Running = cur, IntSched(cur)
    PROVE  IInv'
<1> USE Facts
<1>1. at[Irq] = "none" /\ at[cur] = "sched" /\ depth[cur] = 0 /\ frames[cur] # <<>>
  BY DEF Running, IntSched, Goto, IInv, ThreadRuns
<1>2. PICK q \in Threads : Iret(q)
  BY DEF IntSched
<1>3. at' = [at EXCEPT ![cur] = "out"] /\ UNCHANGED <<counter, enter, depth>>
      /\ intFlag' = 1 /\ cur' = q /\ frames' \in [Threads -> Seq({0, 1})]
      /\ (\A p \in Threads \ {q} : frames'[p] = frames[p]) /\ FramesEnable'
  BY <1>2, IretFacts DEF IntSched, Goto
<1>4. at'[Irq] = "none" /\ Running' = q
  BY <1>1, <1>3 DEF Running
<1>5. TypeOK'
  BY <1>3 DEF TypeOK, PC, LockPC
<1>6. /\ at[q] \in {"out", "ltest", "lcli", "sched"} /\ at'[q] \in {"out", "ltest", "lcli"}
      /\ depth[q] = 0 /\ counter = 0
  BY <1>1, <1>3 DEF IInv, Suspended
<1>7. CounterIsDepth' /\ \A c \in Contexts : depth'[c] >= 0
  BY <1>1, <1>3, <1>4, <1>6 DEF CounterIsDepth, IInv
<1>8. \A p \in Threads : p # Running' => Suspended(p)'
  BY <1>1, <1>3, <1>4 DEF Suspended, IInv
<1>9. depth'[Irq] = 0 /\ ThreadRuns(cur)'
  BY <1>1, <1>3, <1>6 DEF ThreadRuns, IInv
<1> QED
  BY <1>3, <1>4, <1>5, <1>7, <1>8, <1>9 DEF IInv

\* The processor takes an interrupt.
LEMMA IrqEntryInv ==
    ASSUME IInv, IrqEntry
    PROVE  IInv'
<1> USE Facts
<1>1. at[Irq] = "none" /\ intFlag = 1 /\ Running = cur /\ depth[Irq] = 0
      /\ ThreadRuns(cur) /\ enter = 0
  BY DEF IrqEntry, Goto, Running, IInv, CounterIsDepth
<1>2. at' = [at EXCEPT ![Irq] = "entry"] /\ intFlag' = 0
      /\ frames' = [frames EXCEPT ![cur] = Append(frames[cur], 1)]
      /\ UNCHANGED <<counter, enter, cur, depth>>
  BY <1>1 DEF IrqEntry, Goto
<1>3. /\ Append(frames[cur], 1) \in Seq({0, 1}) /\ Append(frames[cur], 1) # <<>>
      /\ \A i \in 1 .. Len(Append(frames[cur], 1)) : Append(frames[cur], 1)[i] = 1
  BY FrameFacts DEF IInv, FramesEnable
<1>4. Running' = Irq /\ at'[Irq] = "entry"
  BY <1>2 DEF Running
<1>5. at[cur] \in {"out", "ltest", "lcli"} /\ depth[cur] = 0
  BY <1>1 DEF ThreadRuns, PC, LockPC
<1>6. TypeOK'
  BY <1>2, <1>3 DEF TypeOK, PC
<1>7. FramesEnable'
  BY <1>2, <1>3 DEF FramesEnable, IInv
<1>8. CounterIsDepth' /\ \A c \in Contexts : depth'[c] >= 0
  BY <1>1, <1>2, <1>4, <1>5 DEF CounterIsDepth, IInv
<1>9. \A p \in Threads : Suspended(p)'
  BY <1>1, <1>2, <1>3, <1>5 DEF Suspended, IInv
<1>10. HandlerRuns'
  BY <1>1, <1>2, <1>4 DEF HandlerRuns
<1> QED
  BY <1>4, <1>6, <1>7, <1>8, <1>9, <1>10 DEF IInv

\* While a handler runs every process is suspended, and stays so.
LEMMA HandlerFacts ==
    ASSUME IInv, at[Irq] # "none"
    PROVE  /\ Running = Irq /\ HandlerRuns
           /\ \A p \in Threads : Suspended(p)
  BY Facts DEF IInv, Running

\* asm_do_irq sets enter_interrupt and calls the handlers.
LEMMA IrqMarkInv ==
    ASSUME IInv, IrqMark
    PROVE  IInv'
<1> USE Facts
<1>1. at[Irq] = "entry" /\ Running = Irq /\ HandlerRuns /\ \A p \in Threads : Suspended(p)
  BY HandlerFacts DEF IrqMark, Goto
<1>2. at' = [at EXCEPT ![Irq] = "out"] /\ enter' = 1
      /\ UNCHANGED <<intFlag, counter, cur, depth, frames>>
  BY DEF IrqMark, Goto
<1>3. Running' = Irq /\ at'[Irq] = "out"
  BY <1>2 DEF Running
<1>4. TypeOK'
  BY <1>2 DEF TypeOK, PC, LockPC
<1>5. CounterIsDepth' /\ FramesEnable' /\ \A c \in Contexts : depth'[c] >= 0
  BY <1>1, <1>2, <1>3 DEF CounterIsDepth, FramesEnable, IInv
<1>6. \A p \in Threads : Suspended(p)'
  BY <1>1, <1>2 DEF Suspended
<1>7. HandlerRuns'
  BY <1>1, <1>2, <1>3 DEF HandlerRuns
<1> QED
  BY <1>3, <1>4, <1>5, <1>6, <1>7 DEF IInv

\* asm_do_irq clears enter_interrupt and calls schedule().
LEMMA IrqSchedInv ==
    ASSUME IInv, IrqSched
    PROVE  IInv'
<1> USE Facts
<1>1. at[Irq] = "out" /\ Running = Irq /\ HandlerRuns /\ \A p \in Threads : Suspended(p)
  BY HandlerFacts DEF IrqSched, Goto
<1>2. at' = [at EXCEPT ![Irq] = "exit"] /\ cur' \in Threads /\ depth[Irq] = 0
      /\ UNCHANGED <<intFlag, counter, enter, depth, frames>>
  BY DEF IrqSched, Goto
<1>3. Running' = Irq /\ at'[Irq] = "exit"
  BY <1>2 DEF Running
<1>4. TypeOK'
  BY <1>2 DEF TypeOK, PC
<1>5. CounterIsDepth' /\ FramesEnable' /\ \A c \in Contexts : depth'[c] >= 0
  BY <1>1, <1>2, <1>3 DEF CounterIsDepth, FramesEnable, IInv
<1>6. \A p \in Threads : Suspended(p)'
  BY <1>1, <1>2 DEF Suspended
<1>7. HandlerRuns'
  BY <1>1, <1>2, <1>3 DEF HandlerRuns
<1> QED
  BY <1>3, <1>4, <1>5, <1>6, <1>7 DEF IInv

\* iret of asm_do_irq.
LEMMA IrqExitInv ==
    ASSUME IInv, IrqExit
    PROVE  IInv'
<1> USE Facts
<1>1. at[Irq] = "exit" /\ Running = Irq /\ depth[Irq] = 0 /\ counter = 0
      /\ \A p \in Threads : Suspended(p)
  BY HandlerFacts DEF IrqExit, Goto, HandlerRuns
<1>2. Iret(cur)
  BY DEF IrqExit
<1>3. at' = [at EXCEPT ![Irq] = "none"] /\ enter' = 0 /\ UNCHANGED <<counter, depth>>
      /\ intFlag' = 1 /\ cur' = cur /\ frames' \in [Threads -> Seq({0, 1})]
      /\ (\A p \in Threads \ {cur} : frames'[p] = frames[p]) /\ FramesEnable'
  BY <1>2, IretFacts DEF IrqExit, Goto
<1>4. at'[Irq] = "none" /\ Running' = cur
  BY <1>3 DEF Running
<1>5. TypeOK'
  BY <1>3 DEF TypeOK, PC
<1>6. at'[cur] \in {"out", "ltest", "lcli"} /\ depth[cur] = 0
  BY <1>1, <1>3 DEF Suspended
<1>7. CounterIsDepth' /\ \A c \in Contexts : depth'[c] >= 0
  BY <1>1, <1>3, <1>4, <1>6 DEF CounterIsDepth, IInv
<1>8. \A p \in Threads : p # Running' => Suspended(p)'
  BY <1>1, <1>3, <1>4 DEF Suspended
<1>9. depth'[Irq] = 0 /\ ThreadRuns(cur)'
  BY <1>1, <1>3, <1>6 DEF ThreadRuns
<1> QED
  BY <1>3, <1>4, <1>5, <1>7, <1>8, <1>9 DEF IInv

\* Steps that change nothing.
LEMMA StutterInv == IInv /\ UNCHANGED vars => IInv'
  BY DEF vars, IInv, TypeOK, CounterIsDepth, FramesEnable, Suspended, ThreadRuns,
         HandlerRuns, Running

(***************************************************************************)
(* The inductive invariant: whichever code runs, its nesting depth is the  *)
(* global counter, interrupts are disabled exactly where the code needs    *)
(* them to be, and every process that does not run stopped outside its     *)
(* sections at a place where interrupts were enabled.                      *)
(***************************************************************************)
THEOREM LockInvariant == Spec => []IInv
<1>1. Init => IInv
  BY InitInv
<1>2. IInv /\ [Next]_vars => IInv'
  <2> SUFFICES ASSUME IInv, [Next]_vars PROVE IInv'
    OBVIOUS
  <2>1. CASE LockCode(Running)
    BY <2>1, LockCodeInv
  <2>2. CASE Running = cur /\ Int80(cur)
    BY <2>2, Int80Inv
  <2>3. CASE Running = cur /\ IntCli(cur)
    BY <2>3, IntCliInv
  <2>4. CASE Running = cur /\ IntSched(cur)
    BY <2>4, IntSchedInv
  <2>5. CASE IrqEntry
    BY <2>5, IrqEntryInv
  <2>6. CASE IrqMark
    BY <2>6, IrqMarkInv
  <2>7. CASE IrqSched
    BY <2>7, IrqSchedInv
  <2>8. CASE IrqExit
    BY <2>8, IrqExitInv
  <2>9. CASE UNCHANGED vars
    BY <2>9, StutterInv
  <2> QED
    BY <2>1, <2>2, <2>3, <2>4, <2>5, <2>6, <2>7, <2>8, <2>9 DEF Next
<1> QED
  BY <1>1, <1>2, PTL DEF Spec

(***************************************************************************)
(* lock() excludes: nobody but the code that runs is inside a section, and *)
(* that code cannot be interrupted.                                        *)
(***************************************************************************)
THEOREM LockExcludes == Spec => []SectionsExclusive
<1>1. IInv => SectionsExclusive
  <2> SUFFICES ASSUME IInv, NEW c \in Contexts, depth[c] > 0
               PROVE  c = Running /\ intFlag = 0
    BY DEF SectionsExclusive
  <2>1. CASE at[Irq] = "none"
    <3>1. c \in Threads /\ Running = cur
      BY <2>1, Facts DEF IInv, Running, Contexts
    <3>2. c = cur
      BY <3>1 DEF IInv, Suspended
    <3>3. ThreadRuns(cur) /\ at[cur] \in PC
      BY <2>1, Facts DEF IInv
    <3> QED
      BY <3>1, <3>2, <3>3, Facts DEF ThreadRuns, PC, LockPC
  <2>2. CASE at[Irq] # "none"
    BY <2>2, HandlerFacts DEF Contexts, Suspended, HandlerRuns
  <2> QED
    BY <2>1, <2>2
<1> QED
  BY <1>1, LockInvariant, PTL

(***************************************************************************)
(* unlock() gives interrupts back: a process outside every section has     *)
(* them enabled, so the timer can take the processor away from it.         *)
(***************************************************************************)
THEOREM UnlockEnables == Spec => []InterruptsGivenBack
<1>1. IInv => InterruptsGivenBack
  <2> SUFFICES ASSUME IInv, NEW p \in Threads, p = Running, at[p] = "out", depth[p] = 0
               PROVE  intFlag = 1
    BY DEF InterruptsGivenBack
  <2>1. at[Irq] = "none" /\ p = cur
    BY Facts DEF Running
  <2> QED
    BY <2>1 DEF IInv, ThreadRuns
<1> QED
  BY <1>1, LockInvariant, PTL

(***************************************************************************)
(* The unlock() of an interrupt handler does not enable interrupts, so     *)
(* that the whole handler is one step of the other modules.                *)
(***************************************************************************)
THEOREM HandlerNotInterrupted == Spec => []InterruptsNotNested
<1>1. IInv => InterruptsNotNested
  BY HandlerFacts DEF InterruptsNotNested, HandlerRuns
<1> QED
  BY <1>1, LockInvariant, PTL
=============================================================================
