---- MODULE Spinlock ----
(***************************************************************************)
(* The spinlock around the serial port (spinlock.c, interrupts.c,          *)
(* serial_write in kernel.c) on the single CPU it is written for.  Context *)
(* 0 is the kernel, contexts 1 .. MaxDepth are interrupt handlers, each of *)
(* which runs on top of the context it interrupted and also logs with      *)
(* serial_write.  Only the topmost context runs.  An instruction that an   *)
(* interrupt can precede is a step of its own.                             *)
(***************************************************************************)
EXTENDS Integers

CONSTANT MaxDepth   \* how deep handlers nest

ASSUME DepthAssumption == MaxDepth \in Nat

VARIABLES
    locked, interrupts_were_enabled,   \* the lock
    IF_,       \* the interrupt flag of the CPU
    depth,     \* the running context
    pc,        \* where each context is in serial_write
    was,       \* the local was_enabled, later restore, of each context
    entry      \* the interrupt flag when the context called spinlock_lock

vars == <<locked, interrupts_were_enabled, IF_, depth, pc, was, entry>>

Contexts == 0 .. MaxDepth
Labels == {"out", "xchg", "sti", "cli_again", "pushf", "cli", "crit", "release", "restore"}

\* The contexts that have taken the lock and not yet given it back.
Holding == {"pushf", "cli", "crit", "release"}

\* The labels are the instruction the context executes next.
At(l) == pc[depth] = l
Goto(l) == pc' = [pc EXCEPT ![depth] = l]

\* The kernel boots with interrupts off and may turn them on before it logs.
Init ==
    /\ locked = 0 /\ interrupts_were_enabled = FALSE
    /\ IF_ \in BOOLEAN
    /\ depth = 0
    /\ pc = [c \in Contexts |-> "out"]
    /\ was = [c \in Contexts |-> FALSE] /\ entry = [c \in Contexts |-> FALSE]

\* serial_write calls spinlock_lock.
Call ==
    /\ At("out")
    /\ entry' = [entry EXCEPT ![depth] = IF_]
    /\ Goto("xchg")
    /\ UNCHANGED <<locked, interrupts_were_enabled, IF_, depth, was>>

\* Mutant: the old value is not looked at.
TookAnyway(old) == TRUE

Took(old) == old = 0

\* The lock word after xchg.
SwappedWord(old) == 1

\* spinlock_trylock: xchg swaps in 1; 0 coming out means the lock was free.
Xchg ==
    /\ At("xchg")
    /\ locked' = SwappedWord(locked)
    /\ Goto(IF Took(locked) THEN "pushf" ELSE "sti")
    /\ UNCHANGED <<interrupts_were_enabled, IF_, depth, was, entry>>

\* The body of the loop of spinlock_lock: sti, pause, cli and try again.
SpinSti ==
    /\ At("sti")
    /\ IF_' = TRUE
    /\ Goto("cli_again")
    /\ UNCHANGED <<locked, interrupts_were_enabled, depth, was, entry>>

SpinCli ==
    /\ At("cli_again")
    /\ IF_' = FALSE
    /\ Goto("xchg")
    /\ UNCHANGED <<locked, interrupts_were_enabled, depth, was, entry>>

\* interrupts_disable_save: read the flag, then cli; the result goes into the lock.
ReadFlag ==
    /\ At("pushf")
    /\ was' = [was EXCEPT ![depth] = IF_]
    /\ Goto("cli")
    /\ UNCHANGED <<locked, interrupts_were_enabled, IF_, depth, entry>>

\* Mutant: the flag is saved and left as it is.
SaveOnly ==
    /\ At("cli")
    /\ interrupts_were_enabled' = was[depth]
    /\ Goto("crit")
    /\ UNCHANGED <<locked, IF_, depth, was, entry>>

DisableSave ==
    /\ At("cli")
    /\ IF_' = FALSE
    /\ interrupts_were_enabled' = was[depth]
    /\ Goto("crit")
    /\ UNCHANGED <<locked, depth, was, entry>>

\* The message goes out.
Write ==
    /\ At("crit")
    /\ Goto("release")
    /\ UNCHANGED <<locked, interrupts_were_enabled, IF_, depth, was, entry>>

\* spinlock_unlock: the flag is read out of the lock before the lock is released.
Unlock ==
    /\ At("release")
    /\ was' = [was EXCEPT ![depth] = interrupts_were_enabled]
    /\ locked' = 0
    /\ Goto("restore")
    /\ UNCHANGED <<interrupts_were_enabled, IF_, depth, entry>>

\* Mutant: interrupts are enabled whatever they were.
EnableAlways(was_enabled) == TRUE

interrupts_restore(was_enabled) == IF was_enabled THEN TRUE ELSE IF_

Restore ==
    /\ At("restore")
    /\ IF_' = interrupts_restore(was[depth])
    /\ Goto("out")
    /\ UNCHANGED <<locked, interrupts_were_enabled, depth, was, entry>>

\* An interrupt pushes a handler, which starts with interrupts off and logs.
Interrupt ==
    /\ IF_ /\ depth < MaxDepth
    /\ depth' = depth + 1
    /\ pc' = [pc EXCEPT ![depth + 1] = "xchg"]
    /\ entry' = [entry EXCEPT ![depth + 1] = FALSE]
    /\ IF_' = FALSE
    /\ UNCHANGED <<locked, interrupts_were_enabled, was>>

\* iret: the handler has logged; the flag it interrupted under comes back.
Return ==
    /\ depth > 0 /\ At("out")
    /\ depth' = depth - 1
    /\ IF_' = TRUE
    /\ UNCHANGED <<locked, interrupts_were_enabled, pc, was, entry>>

Step == \/ Call \/ Xchg \/ SpinSti \/ SpinCli \/ ReadFlag \/ DisableSave
        \/ Write \/ Unlock \/ Restore \/ Return

Next == Step \/ Interrupt

Spec == Init /\ [][Next]_vars /\ WF_vars(Step)

----
TypeOK ==
    /\ locked \in {0, 1} /\ interrupts_were_enabled \in BOOLEAN /\ IF_ \in BOOLEAN
    /\ depth \in Contexts /\ pc \in [Contexts -> Labels]
    /\ was \in [Contexts -> BOOLEAN] /\ entry \in [Contexts -> BOOLEAN]

\* At most one context has taken the lock, also when handlers interrupt each
\* other in the middle of spinlock_trylock, and the lock word says so.
MutualExclusion ==
    /\ \A c, d \in Contexts : pc[c] \in Holding /\ pc[d] \in Holding => c = d
    /\ locked = 0 => \A c \in Contexts : pc[c] \notin Holding

\* A message is never interrupted: the context that writes runs with
\* interrupts off and is the topmost one.
CriticalUninterrupted ==
    \A c \in Contexts : pc[c] \in {"crit", "release"} => ~IF_ /\ depth = c

\* A context that comes back from serial_write finds interrupts as they were
\* when it called, whatever handlers stored in the shared lock field meanwhile.
RestoresInterrupts ==
    [][\A c \in Contexts : pc[c] = "restore" /\ pc'[c] = "out" => IF_' = entry[c]]_vars

\* A context below c has taken the lock and not yet turned interrupts off: while
\* c runs it cannot go on, so c can never get the lock.
TrappedBelow(c) == \E h \in Contexts : h < c /\ pc[h] \in {"pushf", "cli"}

\* The loop of spinlock_lock is entered only above a context that was interrupted
\* between the xchg and the cli of spinlock_trylock: that window is the only one
\* in which a handler can find the lock taken, and while nobody is interrupted
\* there serial_write never waits.
SpinsOnlyInWindow == \A c \in Contexts : pc[c] \in {"sti", "cli_again"} => TrappedBelow(c)

\* "This avoids deadlocks where an ISR attempts to acquire a lock held by the
\* interrupted context." (include/spinlock.h:11-12): serial_write returns to every
\* handler that calls it.
HandlersLog == \A d \in 1 .. MaxDepth : pc[d] # "out" ~> pc[d] = "out"
====
