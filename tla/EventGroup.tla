----------------------------- MODULE EventGroup -----------------------------
(***************************************************************************)
(* What an event group promises: bits are set, taken and cleared at once,  *)
(* and a bit that is waited for is taken by one thread.                    *)
(***************************************************************************)
CONSTANTS Threads, Bits

VARIABLES event,    \* the bits that are set
          result    \* what the last wait of each thread has returned

Init == event = {} /\ result = [t \in Threads |-> {}]

Set(bits)   == event' = event \cup bits /\ UNCHANGED result
Clear(bits) == event' = event \ bits /\ UNCHANGED result

\* A wait takes those of its bits that are set, at least one.
Wait(t, bits) == /\ event \cap bits # {}
                 /\ result' = [result EXCEPT ![t] = event \cap bits]
                 /\ event' = event \ bits

\* A wait gives up; it may do so although one of its bits has just been set.
GiveUp(t) == result' = [result EXCEPT ![t] = {}] /\ UNCHANGED event

Next == \/ \E bits \in SUBSET Bits : Set(bits) \/ Clear(bits)
        \/ \E t \in Threads : GiveUp(t) \/ \E bits \in SUBSET Bits : Wait(t, bits)

Spec == Init /\ [][Next]_<<event, result>>
=============================================================================
