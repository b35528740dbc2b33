----------------------------- MODULE CommonEvent -----------------------------
(***************************************************************************)
(* src/src/com/common_event.c: the event groups of the Linux port, bits    *)
(* under a mutex with one condition variable for all who wait.  Reading    *)
(* the bits and writing them are steps of their own; a thread that sleeps  *)
(* on the condition variable has released the mutex and takes it again     *)
(* before it goes on.                                                      *)
(*                                                                         *)
(* An operator marked MUTATION is a faulty variant of the one after it: no *)
(* action uses it, and the property it names fails when it does.           *)
(***************************************************************************)
EXTENDS FiniteSets

CONSTANTS Threads, Bits, NONE

ASSUME NoneAssumption == NONE \notin Threads

VARIABLES
  event,    \* common_event->event
  mutex,    \* the thread that holds common_event->mutex
  pc,       \* where a thread is in a function
  events,   \* the argument of its call
  ret,      \* the local `ret', or the bits read by |= and &= before they are written
  result,   \* what its last common_wait_event has returned
  passed    \* history: threads asleep since a signal that has woken another

vars == <<event, mutex, pc, events, ret, result, passed>>

Pcs == {"idle", "set_lock", "set_write", "clear_lock", "clear_write",
        "wait_lock", "wait_read", "asleep", "woken", "timed_out", "wait_take", "unlock"}

TypeOK ==
  /\ event \in SUBSET Bits
  /\ mutex \in Threads \cup {NONE}
  /\ pc \in [Threads -> Pcs]
  /\ events \in [Threads -> SUBSET Bits]
  /\ ret \in [Threads -> SUBSET Bits]
  /\ result \in [Threads -> SUBSET Bits]
  /\ passed \in SUBSET Threads

\* common_create_event
Init ==
  /\ event = {} /\ mutex = NONE
  /\ pc = [t \in Threads |-> "idle"]
  /\ events = [t \in Threads |-> {}]
  /\ ret = [t \in Threads |-> {}]
  /\ result = [t \in Threads |-> {}]
  /\ passed = {}

Goto(t, from, to) == pc[t] = from /\ pc' = [pc EXCEPT ![t] = to]
Asleep == {t \in Threads : pc[t] = "asleep"}

Call(t, bits) ==
  /\ \E entry \in {"set_lock", "clear_lock", "wait_lock"} : Goto(t, "idle", entry)
  /\ events' = [events EXCEPT ![t] = bits]
  /\ UNCHANGED <<event, mutex, ret, result, passed>>

\* pthread_mutex_lock, and the read of the bits that follows
Locked(t) == mutex = NONE /\ mutex' = t
Lock(t) ==
  /\ \/ Goto(t, "set_lock", "set_write")
     \/ Goto(t, "clear_lock", "clear_write")
  /\ Locked(t)
  /\ ret' = [ret EXCEPT ![t] = event]
  /\ UNCHANGED <<event, events, result, passed>>

\* MUTATION (SignalReaches): only the first bit to be set is signalled.
SetWriteFirst(t) ==
  /\ event' = ret[t] \cup events[t]
  /\ IF Asleep = {} \/ event # {} THEN Goto(t, "set_write", "unlock") /\ UNCHANGED passed
     ELSE \E s \in Asleep :
            /\ pc[t] = "set_write"
            /\ pc' = [pc EXCEPT ![t] = "unlock", ![s] = "woken"]
            /\ passed' = (passed \cup Asleep) \ {s}
  /\ UNCHANGED <<mutex, events, ret, result>>
\* common_set_event: the bits are written, and the signal wakes one thread.
SetWrite(t) ==
  /\ event' = ret[t] \cup events[t]
  /\ IF Asleep = {} THEN Goto(t, "set_write", "unlock") /\ UNCHANGED passed
     ELSE \E s \in Asleep :
            /\ pc[t] = "set_write"
            /\ pc' = [pc EXCEPT ![t] = "unlock", ![s] = "woken"]
            /\ passed' = (passed \cup Asleep) \ {s}
  /\ UNCHANGED <<mutex, events, ret, result>>

ClearWrite(t) ==
  /\ Goto(t, "clear_write", "unlock")
  /\ event' = ret[t] \ events[t]
  /\ UNCHANGED <<mutex, events, ret, result, passed>>

\* common_wait_event: the lock is taken at first, and again after every sleep.
WaitLock(t) ==
  /\ Goto(t, "wait_lock", "wait_read") \/ Goto(t, "woken", "wait_read")
  /\ Locked(t)
  /\ UNCHANGED <<event, events, ret, result, passed>>

\* One of the bits is set; or none is, and the thread sleeps, or does not wait.
WaitRead(t) ==
  /\ ret' = [ret EXCEPT ![t] = event \cap events[t]]
  /\ IF ret'[t] # {} THEN Goto(t, "wait_read", "wait_take") /\ UNCHANGED mutex
     ELSE \/ Goto(t, "wait_read", "asleep") /\ mutex' = NONE
          \/ Goto(t, "wait_read", "wait_take") /\ UNCHANGED mutex
  /\ UNCHANGED <<event, events, result, passed>>

\* pthread_cond_timedwait returns without a signal: as it may, or with ETIMEDOUT.
WakeUp(t) ==
  /\ Goto(t, "asleep", "woken") \/ Goto(t, "asleep", "timed_out")
  /\ passed' = passed \ {t}
  /\ UNCHANGED <<event, mutex, events, ret, result>>

\* After a time-out the bits are not read again; ret is still 0.
TimedOut(t) ==
  /\ Goto(t, "timed_out", "wait_take")
  /\ Locked(t)
  /\ UNCHANGED <<event, events, ret, result, passed>>

\* MUTATION (EventGroupSpec): all the bits the call is for are taken for set.
WaitTakeAll(t) ==
  /\ Goto(t, "wait_take", "unlock")
  /\ event' = IF ret[t] # {} THEN event \ events[t] ELSE event
  /\ result' = [result EXCEPT ![t] = IF ret[t] # {} THEN events[t] ELSE {}]
  /\ UNCHANGED <<mutex, events, ret, passed>>
\* The bits found are cleared and returned.
WaitTake(t) ==
  /\ Goto(t, "wait_take", "unlock")
  /\ event' = event \ ret[t]
  /\ result' = [result EXCEPT ![t] = ret[t]]
  /\ UNCHANGED <<mutex, events, ret, passed>>

\* The return ends the life of the locals.
Unlock(t) ==
  /\ Goto(t, "unlock", "idle")
  /\ mutex' = NONE
  /\ events' = [events EXCEPT ![t] = {}]
  /\ ret' = [ret EXCEPT ![t] = {}]
  /\ UNCHANGED <<event, result, passed>>

Step(t) ==
  \/ \E bits \in SUBSET Bits \ {{}} : Call(t, bits)
  \/ Lock(t) \/ SetWrite(t) \/ ClearWrite(t)
  \/ WaitLock(t) \/ WaitRead(t) \/ WakeUp(t) \/ TimedOut(t) \/ WaitTake(t)
  \/ Unlock(t)

Next == \E t \in Threads : Step(t)

Spec == Init /\ [][Next]_vars

-----------------------------------------------------------------------------
\* A thread sleeps on although a bit it waits for is set only when a signal has
\* passed it over for another thread: common_set_event wakes one thread and does
\* not look for what it waits (line 21).  With one thread asleep at a time, which
\* the locks of the players see to, no wake-up is lost.
SignalReaches ==
  \A t \in Threads : pc[t] = "asleep" /\ event \cap events[t] # {} => t \in passed

\* Reading, waiting and writing in several steps, and with the mutex released in
\* between, amounts to event groups whose operations are atomic (lines 16-77).
EG == INSTANCE EventGroup
EventGroupSpec == EG!Spec
=============================================================================
