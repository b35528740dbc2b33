-------------------------- MODULE CommonEventProofs --------------------------
(***************************************************************************)
(* Theorems about CommonEvent, for any number of threads and any bits: its *)
(* type invariant, that a signal fails to reach a sleeping thread only by  *)
(* waking another one, and that it implements EventGroup.                  *)
(***************************************************************************)
EXTENDS CommonEvent, TLAPS

-----------------------------------------------------------------------------
(* The type invariant *)

LEMMA TypeInit == Init => TypeOK
  BY DEF Init, TypeOK, Pcs

LEMMA TypeStep == TypeOK /\ [Next]_vars => TypeOK'
<1> SUFFICES ASSUME TypeOK, [Next]_vars PROVE TypeOK'
  OBVIOUS
<1> USE DEF TypeOK, Pcs, Goto
<1>1. ASSUME NEW t \in Threads, NEW bits \in SUBSET Bits, Call(t, bits) PROVE TypeOK'
  BY <1>1 DEF Call
<1>2. ASSUME NEW t \in Threads, Lock(t) PROVE TypeOK'
  BY <1>2 DEF Lock, Locked
<1>3. ASSUME NEW t \in Threads, SetWrite(t) PROVE TypeOK'
  <2>1. event' \in SUBSET Bits
    BY <1>3 DEF SetWrite
  <2>2. pc' \in [Threads -> Pcs] /\ passed' \in SUBSET Threads
    BY <1>3 DEF SetWrite, Asleep
  <2> QED  BY <1>3, <2>1, <2>2 DEF SetWrite
<1>4. ASSUME NEW t \in Threads, ClearWrite(t) PROVE TypeOK'
  BY <1>4 DEF ClearWrite
<1>5. ASSUME NEW t \in Threads, WaitLock(t) PROVE TypeOK'
  BY <1>5 DEF WaitLock, Locked
<1>6. ASSUME NEW t \in Threads, WaitRead(t) PROVE TypeOK'
  BY <1>6 DEF WaitRead
<1>7. ASSUME NEW t \in Threads, WakeUp(t) PROVE TypeOK'
  BY <1>7 DEF WakeUp
<1>8. ASSUME NEW t \in Threads, TimedOut(t) PROVE TypeOK'
  BY <1>8 DEF TimedOut, Locked
<1>9. ASSUME NEW t \in Threads, WaitTake(t) PROVE TypeOK'
  BY <1>9 DEF WaitTake
<1>10. ASSUME NEW t \in Threads, Unlock(t) PROVE TypeOK'
  BY <1>10 DEF Unlock
<1>11. CASE UNCHANGED vars
  BY <1>11 DEF vars
<1> QED
  BY <1>1, <1>2, <1>3, <1>4, <1>5, <1>6, <1>7, <1>8, <1>9, <1>10, <1>11 DEF Next, Step

\* The variables of CommonEvent keep their types.
THEOREM TypeCorrect == Spec => []TypeOK
  BY TypeInit, TypeStep, PTL DEF Spec

-----------------------------------------------------------------------------
(* The mutex: who is between lock and unlock holds it, and what has been    *)
(* read there is still what the event group holds.                          *)

Inside == {"set_write", "clear_write", "wait_read", "wait_take", "unlock"}
MutexInv == \A t \in Threads : pc[t] \in Inside => mutex = t

\* The bits read: those of the group, or those of them that are waited for.
ReadInv == \A t \in Threads :
  /\ pc[t] \in {"set_write", "clear_write"} => ret[t] = event
  /\ pc[t] = "wait_take" => ret[t] \in {{}, event \cap events[t]}
  /\ pc[t] \in {"idle", "wait_lock", "asleep", "woken", "timed_out"} => ret[t] = {}

LEMMA MutexStep == TypeOK /\ MutexInv /\ [Next]_vars => MutexInv'
<1> SUFFICES ASSUME TypeOK, MutexInv, [Next]_vars PROVE MutexInv'
  OBVIOUS
<1> USE NoneAssumption DEF TypeOK, MutexInv, Inside, Goto
<1>1. ASSUME NEW t \in Threads, NEW bits \in SUBSET Bits, Call(t, bits) PROVE MutexInv'
  BY <1>1 DEF Call
<1>2. ASSUME NEW t \in Threads, Lock(t) PROVE MutexInv'
  BY <1>2 DEF Lock, Locked
<1>3. ASSUME NEW t \in Threads, SetWrite(t) PROVE MutexInv'
  BY <1>3 DEF SetWrite, Asleep
<1>4. ASSUME NEW t \in Threads, ClearWrite(t) PROVE MutexInv'
  BY <1>4 DEF ClearWrite
<1>5. ASSUME NEW t \in Threads, WaitLock(t) PROVE MutexInv'
  BY <1>5 DEF WaitLock, Locked
<1>6. ASSUME NEW t \in Threads, WaitRead(t) PROVE MutexInv'
  BY <1>6 DEF WaitRead
<1>7. ASSUME NEW t \in Threads, WakeUp(t) PROVE MutexInv'
  BY <1>7 DEF WakeUp
<1>8. ASSUME NEW t \in Threads, TimedOut(t) PROVE MutexInv'
  BY <1>8 DEF TimedOut, Locked
<1>9. ASSUME NEW t \in Threads, WaitTake(t) PROVE MutexInv'
  BY <1>9 DEF WaitTake
<1>10. ASSUME NEW t \in Threads, Unlock(t) PROVE MutexInv'
  BY <1>10 DEF Unlock
<1>11. CASE UNCHANGED vars
  BY <1>11 DEF vars
<1> QED
  BY <1>1, <1>2, <1>3, <1>4, <1>5, <1>6, <1>7, <1>8, <1>9, <1>10, <1>11 DEF Next, Step

LEMMA ReadStep == TypeOK /\ MutexInv /\ ReadInv /\ [Next]_vars => ReadInv'
<1> SUFFICES ASSUME TypeOK, MutexInv, ReadInv, [Next]_vars PROVE ReadInv'
  OBVIOUS
<1> USE NoneAssumption DEF TypeOK, MutexInv, ReadInv, Inside, Goto
<1>1. ASSUME NEW t \in Threads, NEW bits \in SUBSET Bits, Call(t, bits) PROVE ReadInv'
  BY <1>1 DEF Call
<1>2. ASSUME NEW t \in Threads, Lock(t) PROVE ReadInv'
  BY <1>2 DEF Lock, Locked
<1>3. ASSUME NEW t \in Threads, SetWrite(t) PROVE ReadInv'
  BY <1>3 DEF SetWrite, Asleep
<1>4. ASSUME NEW t \in Threads, ClearWrite(t) PROVE ReadInv'
  BY <1>4 DEF ClearWrite
<1>5. ASSUME NEW t \in Threads, WaitLock(t) PROVE ReadInv'
  BY <1>5 DEF WaitLock, Locked
<1>6. ASSUME NEW t \in Threads, WaitRead(t) PROVE ReadInv'
  BY <1>6 DEF WaitRead
<1>7. ASSUME NEW t \in Threads, WakeUp(t) PROVE ReadInv'
  BY <1>7 DEF WakeUp
<1>8. ASSUME NEW t \in Threads, TimedOut(t) PROVE ReadInv'
  BY <1>8 DEF TimedOut, Locked
<1>9. ASSUME NEW t \in Threads, WaitTake(t) PROVE ReadInv'
  BY <1>9 DEF WaitTake
<1>10. ASSUME NEW t \in Threads, Unlock(t) PROVE ReadInv'
  BY <1>10 DEF Unlock
<1>11. CASE UNCHANGED vars
  BY <1>11 DEF vars
<1> QED
  BY <1>1, <1>2, <1>3, <1>4, <1>5, <1>6, <1>7, <1>8, <1>9, <1>10, <1>11 DEF Next, Step

LEMMA LockInit == Init => MutexInv /\ ReadInv
  BY DEF Init, MutexInv, ReadInv, Inside

LEMMA LockCorrect == Spec => [](MutexInv /\ ReadInv)
  BY TypeCorrect, LockInit, MutexStep, ReadStep, PTL DEF Spec

-----------------------------------------------------------------------------
(* Signals *)

LEMMA SignalInit == Init => SignalReaches
  BY DEF Init, SignalReaches

LEMMA SignalStep ==
  TypeOK /\ ReadInv /\ SignalReaches /\ [Next]_vars => SignalReaches'
<1> SUFFICES ASSUME TypeOK, ReadInv, SignalReaches, [Next]_vars PROVE SignalReaches'
  OBVIOUS
<1> USE DEF TypeOK, SignalReaches, Goto
<1>1. ASSUME NEW t \in Threads, NEW bits \in SUBSET Bits, Call(t, bits) PROVE SignalReaches'
  BY <1>1 DEF Call
<1>2. ASSUME NEW t \in Threads, Lock(t) PROVE SignalReaches'
  BY <1>2 DEF Lock
<1>3. ASSUME NEW t \in Threads, SetWrite(t) PROVE SignalReaches'
  BY <1>3 DEF SetWrite, Asleep
<1>4. ASSUME NEW t \in Threads, ClearWrite(t) PROVE SignalReaches'
  <2>1. event' \subseteq event
    BY <1>4 DEF ClearWrite, ReadInv
  <2> QED  BY <1>4, <2>1 DEF ClearWrite
<1>5. ASSUME NEW t \in Threads, WaitLock(t) PROVE SignalReaches'
  BY <1>5 DEF WaitLock
<1>6. ASSUME NEW t \in Threads, WaitRead(t) PROVE SignalReaches'
  BY <1>6 DEF WaitRead
<1>7. ASSUME NEW t \in Threads, WakeUp(t) PROVE SignalReaches'
  BY <1>7 DEF WakeUp
<1>8. ASSUME NEW t \in Threads, TimedOut(t) PROVE SignalReaches'
  BY <1>8 DEF TimedOut
<1>9. ASSUME NEW t \in Threads, WaitTake(t) PROVE SignalReaches'
  <2>1. event' \subseteq event
    BY <1>9 DEF WaitTake
  <2> QED  BY <1>9, <2>1 DEF WaitTake
<1>10. ASSUME NEW t \in Threads, Unlock(t) PROVE SignalReaches'
  BY <1>10 DEF Unlock
<1>11. CASE UNCHANGED vars
  BY <1>11 DEF vars
<1> QED
  BY <1>1, <1>2, <1>3, <1>4, <1>5, <1>6, <1>7, <1>8, <1>9, <1>10, <1>11 DEF Next, Step

\* No wake-up is lost but to another thread that sleeps (common_event.c line 21).
THEOREM SignalCorrect == Spec => []SignalReaches
  BY TypeCorrect, LockCorrect, SignalInit, SignalStep, PTL DEF Spec

-----------------------------------------------------------------------------
(* Refinement *)

LEMMA GroupInit == Init => EG!Init
  BY DEF Init, EG!Init

LEMMA GroupStep == TypeOK /\ ReadInv /\ [Next]_vars => [EG!Next]_<<event, result>>
<1> SUFFICES ASSUME TypeOK, ReadInv, [Next]_vars PROVE [EG!Next]_<<event, result>>
  OBVIOUS
<1>1. ASSUME NEW t \in Threads, NEW bits \in SUBSET Bits, Call(t, bits)
      PROVE  UNCHANGED <<event, result>>
  BY <1>1 DEF Call
<1>2. ASSUME NEW t \in Threads,
             Lock(t) \/ WaitLock(t) \/ WaitRead(t) \/ WakeUp(t) \/ TimedOut(t) \/ Unlock(t)
      PROVE  UNCHANGED <<event, result>>
  BY <1>2 DEF Lock, WaitLock, WaitRead, WakeUp, TimedOut, Unlock
<1>3. ASSUME NEW t \in Threads, SetWrite(t) PROVE EG!Next
  <2>1. pc[t] = "set_write"
    BY <1>3 DEF SetWrite, Goto
  <2>2. EG!Set(events[t])
    BY <1>3, <2>1 DEF SetWrite, ReadInv, EG!Set
  <2> QED  BY <2>2 DEF EG!Next, TypeOK
<1>4. ASSUME NEW t \in Threads, ClearWrite(t) PROVE EG!Next
  <2>1. EG!Clear(events[t])
    BY <1>4 DEF ClearWrite, Goto, ReadInv, EG!Clear
  <2> QED  BY <2>1 DEF EG!Next, TypeOK
<1>5. ASSUME NEW t \in Threads, WaitTake(t) PROVE EG!Next
  <2>1. /\ event' = event \ ret[t]
        /\ result' = [result EXCEPT ![t] = ret[t]]
        /\ ret[t] \in {{}, event \cap events[t]}
    BY <1>5 DEF WaitTake, Goto, ReadInv
  <2>2. CASE ret[t] = {}
    <3>1. EG!GiveUp(t)
      BY <2>1, <2>2 DEF EG!GiveUp
    <3> QED  BY <3>1 DEF EG!Next
  <2>3. CASE ret[t] # {}
    <3>1. ret[t] = event \cap events[t] /\ event' = event \ events[t]
      BY <2>1, <2>3
    <3>2. EG!Wait(t, events[t])
      BY <2>1, <2>3, <3>1 DEF EG!Wait
    <3> QED  BY <3>2 DEF EG!Next, TypeOK
  <2> QED  BY <2>2, <2>3
<1>6. CASE UNCHANGED vars
  BY <1>6 DEF vars
<1> QED  BY <1>1, <1>2, <1>3, <1>4, <1>5, <1>6 DEF Next, Step

\* common_event.c implements the atomic event group that the other modules take
\* for granted.
THEOREM GroupCorrect == Spec => EventGroupSpec
  BY TypeCorrect, LockCorrect, GroupInit, GroupStep, PTL DEF Spec, EventGroupSpec, EG!Spec
=============================================================================
