--------------------- MODULE LightweightSemaphore_proofs ---------------------
(***************************************************************************)
(* That the semaphore neither loses nor invents a signal, whatever its     *)
(* clients do with it, and what a step of it does to their account.        *)
(***************************************************************************)
EXTENDS LightweightSemaphore, TLAPS

SemaInv == SemaTypeOK /\ Balanced

(* Signal and Post, the two steps of signal(), keep the account of the     *)
(* semaphore: a signal that finds the counter below 0 owes a post.         *)
LEMMA SignalKeepsBalance ==
    ASSUME SemaInv, Signal \/ Post
    PROVE  SemaInv'
<1>1. CASE Signal
  BY <1>1 DEF SemaInv, SemaTypeOK, Balanced, Owing, Signal
<1>2. CASE Post
  BY <1>2 DEF SemaInv, SemaTypeOK, Balanced, Owing, Post
<1> QED  BY <1>1, <1>2

(* A wait that ends without the kernel semaphore keeps the account.        *)
LEMMA SpinKeepsBalance ==
    ASSUME SemaInv, TryWait \/ TakeSignal \/ (\E t \in BOOLEAN : WaitCall(t))
                    \/ Spin \/ SpinAgain \/ SpinEnd \/ Return
    PROVE  SemaInv'
<1>1. CASE TryWait
  BY <1>1 DEF SemaInv, SemaTypeOK, Balanced, Owing, TryWait
<1>2. CASE TakeSignal
  BY <1>2 DEF SemaInv, SemaTypeOK, Balanced, Owing, TakeSignal
<1>3. CASE \E t \in BOOLEAN : WaitCall(t)
  BY <1>3 DEF SemaInv, SemaTypeOK, Balanced, Owing, WaitCall
<1>4. CASE Spin
  BY <1>4 DEF SemaInv, SemaTypeOK, Balanced, Owing, Spin
<1>5. CASE SpinAgain
  BY <1>5 DEF SemaInv, SemaTypeOK, Balanced, Owing, SpinAgain
<1>6. CASE SpinEnd
  BY <1>6 DEF SemaInv, SemaTypeOK, Balanced, Owing, SpinEnd
<1>7. CASE Return
  BY <1>7 DEF SemaInv, SemaTypeOK, Balanced, Owing, Return
<1> QED  BY <1>1, <1>2, <1>3, <1>4, <1>5, <1>6, <1>7

(* A wait that sleeps, and one that times out and restores the counter,    *)
(* keep the account: the hard part of waitWithPartialSpinning.             *)
LEMMA SleepKeepsBalance ==
    ASSUME SemaInv, Woken \/ TimeOut \/ Restore \/ Retry \/ TryKernel
    PROVE  SemaInv'
<1>1. CASE Woken
  BY <1>1 DEF SemaInv, SemaTypeOK, Balanced, Owing, Woken
<1>2. CASE TimeOut
  BY <1>2 DEF SemaInv, SemaTypeOK, Balanced, Owing, TimeOut
<1>3. CASE Restore
  BY <1>3 DEF SemaInv, SemaTypeOK, Balanced, Owing, Restore
<1>4. CASE Retry
  BY <1>4 DEF SemaInv, SemaTypeOK, Balanced, Owing, Retry
<1>5. CASE TryKernel
  BY <1>5 DEF SemaInv, SemaTypeOK, Balanced, Owing, TryKernel
<1> QED  BY <1>1, <1>2, <1>3, <1>4, <1>5

(* Together: no step of the semaphore disturbs the account.                *)
LEMMA SemaKeepsBalance ==
    ASSUME SemaInv, [SemaNext]_sema
    PROVE  SemaInv'
<1>1. CASE SemaNext
  BY <1>1, SignalKeepsBalance, SpinKeepsBalance, SleepKeepsBalance
  DEF SemaNext, Waiting
<1>2. CASE UNCHANGED sema
  BY <1>2 DEF sema, SemaInv, SemaTypeOK, Balanced, Owing
<1> QED  BY <1>1, <1>2

(* The constructor: an initial count is as many signals.                   *)
LEMMA SemaStartsBalanced ==
    ASSUME NEW initialCount \in Nat, SemaInit(initialCount)
    PROVE  SemaInv
<1>1. /\ count = initialCount /\ signals = initialCount /\ acquired = 0
      /\ posts = 0 /\ sigPc = "idle" /\ waitPc = "idle"
  BY DEF SemaInit
<1>2. timed \in BOOLEAN
  BY DEF SemaInit
<1>3. SemaTypeOK
  BY <1>1, <1>2 DEF SemaTypeOK
<1>4. ~Owing /\ sigPc # "post" /\ waitPc \notin {"take", "retry"}
  BY <1>1 DEF Owing
<1>5. count = signals - acquired /\ count >= 0
  BY <1>1
<1>6. Balanced
  BY <1>1, <1>4, <1>5 DEF Balanced
<1> QED  BY <1>3, <1>6 DEF SemaInv

(* A wait succeeds once: the step that acquires is the one that is counted.*)
LEMMA WaitingCounts ==
    ASSUME SemaInv, Waiting
    PROVE  /\ waitPc \notin {"idle", "acquired", "timedout"}
           /\ waitPc' # "idle"
           /\ acquired' = acquired + (IF waitPc' = "acquired" THEN 1 ELSE 0)
           /\ signals' = signals
  BY DEF SemaInv, SemaTypeOK, Waiting, TakeSignal, Spin, SpinAgain, SpinEnd,
         Woken, TimeOut, Restore, Retry, TryKernel
=============================================================================
