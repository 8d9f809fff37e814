---- MODULE Spinlock_proofs ----
(***************************************************************************)
(* Mutual exclusion of the spinlock and of the section it protects, for    *)
(* handlers nested to any depth.                                           *)
(***************************************************************************)
EXTENDS Spinlock, TLAPS

\* A lock and contexts of the right types, in every state.
THEOREM TypeCorrect == Spec => []TypeOK
<1>1. Init => TypeOK
  <2> SUFFICES ASSUME Init PROVE TypeOK
    OBVIOUS
  <2>1. [c \in Contexts |-> FALSE] \in [Contexts -> BOOLEAN]
    OBVIOUS
  <2>2. [c \in Contexts |-> "out"] \in [Contexts -> Labels]
    BY DEF Labels
  <2>3. 0 \in Contexts /\ locked \in {0, 1}
    BY DepthAssumption DEF Contexts, Init
  <2>4. interrupts_were_enabled \in BOOLEAN /\ IF_ \in BOOLEAN
    BY DEF Init
  <2> QED
    BY <2>1, <2>2, <2>3, <2>4, Zenon DEF Init, TypeOK
<1>2. TypeOK /\ [Next]_vars => TypeOK'
  <2> SUFFICES ASSUME TypeOK, [Next]_vars PROVE TypeOK'
    OBVIOUS
  <2> USE DepthAssumption DEF TypeOK, Labels, Contexts, Goto, At
  <2>1. CASE Call
    BY <2>1 DEF Call
  <2>2. CASE Xchg
    BY <2>2 DEF Xchg, SwappedWord
  <2>3. CASE SpinSti \/ SpinCli
    BY <2>3 DEF SpinSti, SpinCli
  <2>4. CASE ReadFlag
    BY <2>4 DEF ReadFlag
  <2>5. CASE DisableSave
    BY <2>5 DEF DisableSave
  <2>6. CASE Write
    BY <2>6 DEF Write
  <2>7. CASE Unlock
    BY <2>7 DEF Unlock
  <2>8. CASE Restore
    <3>1. IF_' \in BOOLEAN
      BY <2>8, Zenon DEF Restore, interrupts_restore
    <3>2. pc' \in [Contexts -> Labels]
      BY <2>8 DEF Restore
    <3>3. UNCHANGED <<locked, interrupts_were_enabled, depth, was, entry>>
      BY <2>8, Zenon DEF Restore
    <3> QED
      BY <3>1, <3>2, <3>3, Zenon
  <2>9. CASE Interrupt
    <3>1. pc' \in [Contexts -> Labels] /\ depth' \in Contexts
      BY <2>9 DEF Interrupt
    <3>2. entry' \in [Contexts -> BOOLEAN]
      BY <2>9, Zenon DEF Interrupt
    <3>3. IF_' \in BOOLEAN /\ UNCHANGED <<locked, interrupts_were_enabled, was>>
      BY <2>9, Zenon DEF Interrupt
    <3> QED
      BY <3>1, <3>2, <3>3, Zenon
  <2>10. CASE Return
    BY <2>10 DEF Return
  <2>11. CASE UNCHANGED vars
    BY <2>11 DEF vars
  <2> QED
    BY <2>1, <2>2, <2>3, <2>4, <2>5, <2>6, <2>7, <2>8, <2>9, <2>10, <2>11 DEF Next, Step
<1> QED
  BY <1>1, <1>2, PTL DEF Spec

----
\* The contexts above the running one are not in serial_write.
Idle == \A c \in Contexts : c > depth => pc[c] = "out"

Inv == MutualExclusion /\ CriticalUninterrupted /\ Idle

\* Every instruction and every interrupt keeps the invariant: xchg lets a
\* context in only when the lock word says that nobody holds the lock.
LEMMA StepInv == TypeOK /\ Inv /\ [Next]_vars => Inv'
<1> SUFFICES ASSUME TypeOK, Inv, [Next]_vars PROVE Inv'
  OBVIOUS
<1> USE DepthAssumption DEF TypeOK, Inv, MutualExclusion, CriticalUninterrupted, Idle, Contexts,
                            Holding, Goto, At
<1>1. CASE Call
  BY <1>1 DEF Call
<1>2. CASE Xchg
  BY <1>2 DEF Xchg, SwappedWord, Took
<1>3. CASE SpinSti \/ SpinCli
  BY <1>3 DEF SpinSti, SpinCli
<1>4. CASE ReadFlag
  BY <1>4 DEF ReadFlag
<1>5. CASE DisableSave
  BY <1>5 DEF DisableSave
<1>6. CASE Write
  BY <1>6 DEF Write
<1>7. CASE Unlock
  BY <1>7 DEF Unlock
<1>8. CASE Restore
  BY <1>8 DEF Restore, interrupts_restore
<1>9. CASE Interrupt
  BY <1>9 DEF Interrupt
<1>10. CASE Return
  BY <1>10 DEF Return
<1>11. CASE UNCHANGED vars
  BY <1>11 DEF vars
<1> QED
  BY <1>1, <1>2, <1>3, <1>4, <1>5, <1>6, <1>7, <1>8, <1>9, <1>10, <1>11 DEF Next, Step

\* The inductive invariant holds in every state.
LEMMA InvCorrect == Spec => []Inv
<1>1. Init => Inv
  BY DepthAssumption DEF Init, Inv, MutualExclusion, CriticalUninterrupted, Idle, Holding, Contexts
<1> QED
  BY <1>1, StepInv, TypeCorrect, PTL DEF Spec

\* Two contexts never hold the lock at once.
THEOREM LockExcludes == Spec => []MutualExclusion
BY InvCorrect, PTL DEF Inv

\* serial_write is never interrupted while it writes.
THEOREM WriteUninterrupted == Spec => []CriticalUninterrupted
BY InvCorrect, PTL DEF Inv

----
\* What spinlock_lock knows of the interrupt flag of its caller: only a context
\* that can never get the lock spins, so the loop's sti and cli do not count.
SavedFlag ==
    /\ SpinsOnlyInWindow
    /\ locked # 0 => \E h \in Contexts : pc[h] \in Holding
    /\ \A c \in Contexts :
        /\ pc[c] \in {"xchg", "pushf"} /\ ~TrappedBelow(c) =>
              IF c = depth THEN IF_ = entry[c] ELSE entry[c] = TRUE
        /\ pc[c] = "cli" => was[c] = entry[c]
        /\ pc[c] \in {"crit", "release"} => interrupts_were_enabled = entry[c]
        /\ pc[c] = "restore" => was[c] = entry[c] /\ IF_ = FALSE /\ depth = c

\* A step of the loop, of the lock or of an interrupt keeps the flag that the
\* caller will get back.
LEMMA StepSaved == TypeOK /\ Inv /\ SavedFlag /\ [Next]_vars => SavedFlag'
<1> SUFFICES ASSUME TypeOK, Inv, SavedFlag, [Next]_vars PROVE SavedFlag'
  OBVIOUS
<1> USE DepthAssumption DEF TypeOK, Inv, MutualExclusion, CriticalUninterrupted, Idle, Contexts,
                            Holding, Goto, At, SavedFlag, SpinsOnlyInWindow, TrappedBelow
<1>1. CASE Call
  BY <1>1 DEF Call
<1>2. CASE Xchg
  BY <1>2 DEF Xchg, SwappedWord, Took
<1>3. CASE SpinSti
  BY <1>3 DEF SpinSti
<1>4. CASE SpinCli
  BY <1>4 DEF SpinCli
<1>5. CASE ReadFlag
  BY <1>5 DEF ReadFlag
<1>6. CASE DisableSave
  BY <1>6 DEF DisableSave
<1>7. CASE Write
  BY <1>7 DEF Write
<1>8. CASE Unlock
  BY <1>8 DEF Unlock
<1>9. CASE Restore
  BY <1>9 DEF Restore, interrupts_restore
<1>10. CASE Interrupt
  <2>1. /\ depth + 1 \in Contexts /\ depth' = depth + 1 /\ pc[depth + 1] = "out"
        /\ pc'[depth + 1] = "xchg" /\ entry'[depth + 1] = FALSE /\ IF_' = FALSE /\ IF_ = TRUE
    BY <1>10 DEF Interrupt
  <2>2. \A c \in Contexts : c # depth + 1 => pc'[c] = pc[c] /\ entry'[c] = entry[c]
    BY <1>10 DEF Interrupt
  <2>3. UNCHANGED <<locked, interrupts_were_enabled, was>>
    BY <1>10 DEF Interrupt
  <2>4. \A h \in Contexts : pc'[h] \in Holding <=> pc[h] \in Holding
    BY <2>1, <2>2
  <2>5. \A c \in Contexts : TrappedBelow(c)' <=> TrappedBelow(c)
    BY <2>1, <2>2
  <2>6. ASSUME NEW c \in Contexts, pc'[c] \in {"xchg", "pushf"}, ~TrappedBelow(c)'
        PROVE  IF c = depth' THEN IF_' = entry'[c] ELSE entry'[c] = TRUE
    <3>1. CASE c = depth + 1
      BY <3>1, <2>1
    <3>2. CASE c # depth + 1
      <4>1. IF c = depth THEN IF_ = entry[c] ELSE entry[c] = TRUE
        BY <3>2, <2>2, <2>5, <2>6 DEF SavedFlag
      <4> QED
        BY <4>1, <3>2, <2>1, <2>2
    <3> QED
      BY <3>1, <3>2
  <2>7. ASSUME NEW c \in Contexts
        PROVE  /\ pc'[c] \in {"sti", "cli_again"} => TrappedBelow(c)'
               /\ pc'[c] = "cli" => was'[c] = entry'[c]
               /\ pc'[c] \in {"crit", "release"} => interrupts_were_enabled' = entry'[c]
               /\ pc'[c] = "restore" => was'[c] = entry'[c] /\ IF_' = FALSE /\ depth' = c
    <3>1. CASE c = depth + 1
      BY <3>1, <2>1
    <3>2. CASE c # depth + 1
      <4>1. pc[c] # "restore" /\ pc'[c] = pc[c] /\ entry'[c] = entry[c]
        BY <3>2, <2>1, <2>2
      <4>2. pc[c] \in {"sti", "cli_again"} => TrappedBelow(c)
        BY DEF SavedFlag
      <4>3. /\ pc[c] = "cli" => was[c] = entry[c]
            /\ pc[c] \in {"crit", "release"} => interrupts_were_enabled = entry[c]
        BY DEF SavedFlag
      <4> HIDE DEF TrappedBelow
      <4> QED
        BY <4>1, <4>2, <4>3, <2>3, <2>5
    <3> QED
      BY <3>1, <3>2, Zenon
  <2>8. locked' # 0 => \E h \in Contexts : pc'[h] \in Holding
    BY <2>3, <2>4
  <2> QED
    BY <2>6, <2>7, <2>8, Zenon DEF SavedFlag
<1>11. CASE Return
  BY <1>11 DEF Return
<1>12. CASE UNCHANGED vars
  BY <1>12 DEF vars
<1> QED
  BY <1>1, <1>2, <1>3, <1>4, <1>5, <1>6, <1>7, <1>8, <1>9, <1>10, <1>11, <1>12 DEF Next, Step

\* Nobody is in serial_write when the kernel starts.
LEMMA SavedInit == Init => SavedFlag
BY DepthAssumption DEF Init, SavedFlag, SpinsOnlyInWindow, Holding, Contexts

\* A handler waits for the lock only on top of a context that it interrupted
\* between xchg and cli, however deep the handlers nest.
THEOREM WaitsOnlyInWindow == Spec => []SpinsOnlyInWindow
<1>1. TypeOK /\ Inv /\ SavedFlag /\ [Next]_vars => SavedFlag'
  BY StepSaved
<1>2. SavedFlag => SpinsOnlyInWindow
  BY DEF SavedFlag
<1> QED
  BY <1>1, <1>2, SavedInit, InvCorrect, TypeCorrect, PTL DEF Spec

\* A caller of serial_write gets the interrupt flag back as it was.
THEOREM FlagRestored == Spec => RestoresInterrupts
<1>1. Init => SavedFlag
  BY SavedInit
<1>2. TypeOK /\ SavedFlag /\ [Next]_vars =>
        [\A c \in Contexts : pc[c] = "restore" /\ pc'[c] = "out" => IF_' = entry[c]]_vars
  <2> SUFFICES ASSUME TypeOK, SavedFlag, Next, NEW c \in Contexts, pc[c] = "restore", pc'[c] = "out"
               PROVE  IF_' = entry[c]
    BY DEF vars
  <2>1. depth = c /\ IF_ = FALSE /\ was[c] = entry[c] /\ entry[c] \in BOOLEAN
    BY DEF SavedFlag, TypeOK
  <2>2. Restore
    BY <2>1 DEF Next, Step, Call, Xchg, SpinSti, SpinCli, ReadFlag, DisableSave, Write, Unlock,
                Interrupt, Return, At, Contexts, TypeOK
  <2> QED
    BY <2>1, <2>2, Zenon DEF Restore, interrupts_restore
<1> QED
  BY <1>1, <1>2, StepSaved, InvCorrect, TypeCorrect, PTL DEF Spec, RestoresInterrupts
====
