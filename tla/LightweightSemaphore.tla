------------------------ MODULE LightweightSemaphore ------------------------
(***************************************************************************)
(* LightweightSemaphore (queue/atomicops.h): a counter in front of a       *)
(* kernel semaphore, for one thread that signals and one that waits.  A    *)
(* waiter that finds nothing takes the counter to -1 and sleeps; when it   *)
(* times out it must give the counter back, or take the signal that came   *)
(* in the meantime after all.                                              *)
(*                                                                         *)
(* Every step is one access to the counter or the kernel semaphore.        *)
(***************************************************************************)
EXTENDS Integers

VARIABLES count,         \* m_count
          posts,         \* the value of m_sema
          sigPc,         \* the thread in signal()
          waitPc,        \* the thread in tryWait() or wait()
          timed,         \* whether its wait has a timeout
          signals,       \* history: the initial count and every signal()
          acquired       \* history: how often a wait succeeded

sema == <<count, posts, sigPc, waitPc, timed, signals, acquired>>

(* The waiter has taken the counter down without a signal to show for it. *)
Owing == waitPc \in {"sleep", "restore", "kernel"}

SemaTypeOK ==
    /\ count \in Int
    /\ posts \in Nat
    /\ sigPc \in {"idle", "post"}
    /\ waitPc \in {"idle", "take", "spin", "last", "sleep", "restore", "retry",
                   "kernel", "acquired", "timedout"}
    /\ timed \in BOOLEAN
    /\ signals \in Nat
    /\ acquired \in Nat

SemaInit(initialCount) ==
    /\ count = initialCount
    /\ posts = 0
    /\ sigPc = "idle"
    /\ waitPc = "idle"
    /\ timed = FALSE
    /\ signals = initialCount
    /\ acquired = 0

availableApprox == IF count > 0 THEN count ELSE 0
-----------------------------------------------------------------------------
(* signal(1): raise the counter, and wake the waiter if there is one.      *)
(* Mutant: the waiter is looked for in the counter as it is after.         *)

SignalLate ==
    /\ sigPc = "idle"
    /\ count' = count + 1
    /\ signals' = signals + 1
    /\ sigPc' = IF count' < 0 THEN "post" ELSE "idle"
    /\ UNCHANGED <<posts, waitPc, timed, acquired>>

Signal ==
    /\ sigPc = "idle"
    /\ count' = count + 1
    /\ signals' = signals + 1
    /\ sigPc' = IF count < 0 THEN "post" ELSE "idle"
    /\ UNCHANGED <<posts, waitPc, timed, acquired>>

Post ==
    /\ sigPc = "post"
    /\ posts' = posts + 1
    /\ sigPc' = "idle"
    /\ UNCHANGED <<count, waitPc, timed, signals, acquired>>
-----------------------------------------------------------------------------
(* tryWait *)

TryWait ==
    /\ waitPc = "idle"
    /\ count > 0
    /\ waitPc' = "take"
    /\ UNCHANGED <<count, posts, sigPc, timed, signals, acquired>>

(* Only this thread takes the counter down: what it saw is still there. *)
TakeSignal ==
    /\ waitPc = "take"
    /\ count' = count - 1
    /\ waitPc' = "acquired"
    /\ acquired' = acquired + 1
    /\ UNCHANGED <<posts, sigPc, timed, signals>>
-----------------------------------------------------------------------------
(* wait(): tryWait and waitWithPartialSpinning.  The kernel semaphore may  *)
(* be asked without limit, for a time, or, with a timeout of 0, not at all.*)

WaitCall(t) ==
    /\ waitPc = "idle"
    /\ timed' = t
    /\ waitPc' = "spin"
    /\ UNCHANGED <<count, posts, sigPc, signals, acquired>>

(* tryWait and 1024 more looks at the counter, of which one may find it    *)
(* raised; then it is taken down whatever it is.                           *)
Spin ==
    /\ waitPc = "spin"
    /\ waitPc' = IF count > 0 THEN "take" ELSE "last"
    /\ UNCHANGED <<count, posts, sigPc, timed, signals, acquired>>

SpinAgain ==
    /\ waitPc = "last"
    /\ count > 0
    /\ waitPc' = "take"
    /\ UNCHANGED <<count, posts, sigPc, timed, signals, acquired>>

SpinEnd ==
    /\ waitPc = "last"
    /\ count' = count - 1
    /\ IF count > 0 THEN waitPc' = "acquired" /\ acquired' = acquired + 1
                    ELSE waitPc' = "sleep" /\ UNCHANGED acquired
    /\ UNCHANGED <<posts, sigPc, timed, signals>>

(* sem_wait has returned with a post.  Mutant: it has returned without.    *)
WokenEarly ==
    /\ waitPc = "sleep"
    /\ posts' = posts - 1
    /\ waitPc' = "acquired"
    /\ acquired' = acquired + 1
    /\ UNCHANGED <<count, sigPc, timed, signals>>

Woken ==
    /\ waitPc = "sleep"
    /\ posts > 0
    /\ posts' = posts - 1
    /\ waitPc' = "acquired"
    /\ acquired' = acquired + 1
    /\ UNCHANGED <<count, sigPc, timed, signals>>

TimeOut ==
    /\ waitPc = "sleep"
    /\ timed
    /\ waitPc' = "restore"
    /\ UNCHANGED <<count, posts, sigPc, timed, signals, acquired>>

(* The counter is given back; that it was below 0 shows that no signal     *)
(* came.  Mutant: the test is left out.                                    *)
RestoreBlindly ==
    /\ waitPc = "restore"
    /\ count' = count + 1
    /\ waitPc' = "timedout"
    /\ UNCHANGED <<posts, sigPc, timed, signals, acquired>>

Restore ==
    /\ waitPc = "restore"
    /\ count' = count + 1
    /\ waitPc' = IF count < 0 THEN "timedout" ELSE "retry"
    /\ UNCHANGED <<posts, sigPc, timed, signals, acquired>>

Retry ==
    /\ waitPc = "retry"
    /\ count' = count - 1
    /\ waitPc' = IF count > 0 THEN "kernel" ELSE "restore"
    /\ UNCHANGED <<posts, sigPc, timed, signals, acquired>>

(* try_wait(): the post of a signal that was counted may still be coming. *)
TryKernel ==
    /\ waitPc = "kernel"
    /\ \/ /\ posts > 0
          /\ posts' = posts - 1
          /\ waitPc' = "acquired"
          /\ acquired' = acquired + 1
       \/ /\ posts = 0
          /\ waitPc' = "restore"
          /\ UNCHANGED <<posts, acquired>>
    /\ UNCHANGED <<count, sigPc, timed, signals>>
-----------------------------------------------------------------------------
(* The steps inside a wait; the calls and returns are the client's. *)
Waiting ==
    \/ TakeSignal \/ Spin \/ SpinAgain \/ SpinEnd \/ Woken \/ TimeOut
    \/ Restore \/ Retry \/ TryKernel

Return ==
    /\ waitPc \in {"acquired", "timedout"}
    /\ waitPc' = "idle"
    /\ UNCHANGED <<count, posts, sigPc, timed, signals, acquired>>

SemaNext ==
    \/ Signal \/ Post \/ TryWait \/ (\E t \in BOOLEAN : WaitCall(t))
    \/ Waiting \/ Return
-----------------------------------------------------------------------------
(* No signal is lost and none is taken twice, however a timeout and a      *)
(* signal meet: the counter is what was signalled and not yet acquired,    *)
(* less one while the waiter owes one; a wake-up is in the kernel          *)
(* semaphore, or about to be, exactly when the waiter owes the counter and *)
(* has been signalled, so that wake-ups do not pile up.  The counter is    *)
(* never below -1, which signal() asserts, it is below 0 only while the    *)
(* waiter owes, and a signal the waiter has seen is there when it takes it.*)
Balanced ==
    LET wakeups == posts + (IF sigPc = "post" THEN 1 ELSE 0) IN
    /\ count = signals - acquired - (IF Owing THEN 1 ELSE 0)
    /\ wakeups = IF (Owing /\ count >= 0) \/ waitPc = "retry" THEN 1 ELSE 0
    /\ count >= IF Owing THEN -1
                ELSE IF waitPc \in {"take", "retry"} THEN 1 ELSE 0
=============================================================================
