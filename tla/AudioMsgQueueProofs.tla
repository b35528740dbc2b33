------------------------ MODULE AudioMsgQueueProofs -------------------------
(***************************************************************************)
(* Theorems about AudioMsgQueue, for every length, any number of senders   *)
(* and any events: its type invariant, that no wake-up is lost, and that a *)
(* queue of two or more slots implements the one-place Mailbox.            *)
(***************************************************************************)
EXTENDS AudioMsgQueue, TLAPS

-----------------------------------------------------------------------------
(* Lemmas *)

LEMMA SlotsFacts == /\ Slots \subseteq Int /\ 0 \in Slots /\ Last \in Slots
                    /\ \A k \in Slots : 0 <= k /\ k <= Last
                    /\ \A k \in Slots : k < Last => k + 1 \in Slots
                    /\ Empty \notin Messages
  BY LengthAssumption, NoneAssumption DEF Slots, Last, Empty, Messages

\* No slot gets a message from one pass of the loop that no slot had before.
LEMMA PassMoves ==
  ASSUME TypeOK, NEW s \in Senders, pc[s] = "loop", Pass(s)
  PROVE  /\ messages' \in [Slots -> Messages \cup {Empty}]
         /\ \A k \in Slots : messages'[k] # Empty => \E m \in Slots : messages[m] # Empty
<1> DEFINE q == Supersede(item[s].event, i[s])
<1>1. i[s] \in Slots
  BY DEF TypeOK
<1>2. q \in [Slots -> Messages \cup {Empty}] /\ \A k \in Slots : q[k] \in {messages[k], Empty}
  BY <1>1 DEF TypeOK, Supersede
<1>3. messages' = Shift(q, i[s])
  BY DEF Pass
<1> HIDE DEF q
<1>4. messages' \in [Slots -> Messages \cup {Empty}]
  BY <1>2, <1>3, SlotsFacts DEF Shift
<1>5. ASSUME NEW k \in Slots
      PROVE  messages'[k] = Empty \/ \E m \in Slots : messages'[k] = q[m]
  BY <1>3, SlotsFacts DEF Shift
<1> QED  BY <1>2, <1>4, <1>5

-----------------------------------------------------------------------------
(* The type invariant *)

LEMMA TypeInit == Init => TypeOK
  BY SlotsFacts, LengthAssumption DEF Init, TypeOK, Slots

LEMMA TypeStep == TypeOK /\ [Next]_vars => TypeOK'
<1> SUFFICES ASSUME TypeOK, [Next]_vars PROVE TypeOK'
  OBVIOUS
<1> USE SlotsFacts DEF TypeOK
<1>1. ASSUME NEW s \in Senders, NEW e \in Events, Send(s, e) PROVE TypeOK'
  <2>1. sends + 1 \in 1..MaxSends
    BY <1>1, SendsAssumption DEF Send
  <2>2. item' \in [Senders -> Messages \cup {Empty}]
    BY <1>1, <2>1 DEF Send, Messages
  <2>3. i' \in [Senders -> 0..Length] /\ \A t \in Senders : pc'[t] = "loop" => i'[t] \in Slots
    BY <1>1, LengthAssumption DEF Send
  <2> QED  BY <1>1, <2>1, <2>2, <2>3 DEF Send, recvVars, historyVars
<1>2. ASSUME NEW s \in Senders, Pass(s) PROVE TypeOK'
  <2>1. messages' \in [Slots -> Messages \cup {Empty}]
    BY <1>2, PassMoves DEF Pass
  <2>2. i[s] \in Slots /\ i[s] + 1 \in 0..Length /\ (i[s] < Last => i[s] + 1 \in Slots)
    BY <1>2, LengthAssumption DEF Pass, Slots, Last
  <2>3. /\ i' \in [Senders -> 0..Length]
        /\ pc' \in [Senders -> {"idle", "loop", "place", "signal"}]
    BY <1>2, <2>2 DEF Pass
  <2>4. \A t \in Senders : pc'[t] = "loop" => i'[t] \in Slots
    BY <1>2, <2>2 DEF Pass
  <2>5. messages[i[s]].data \in Nat
    <3>1. messages[i[s]] \in Messages \cup {Empty}
      BY <2>2
    <3> QED  BY <3>1, SendsAssumption DEF Messages, Empty
  <2>6. freed' \subseteq Nat
    BY <1>2, <2>5 DEF Pass
  <2> QED  BY <1>2, <2>1, <2>3, <2>4, <2>6 DEF Pass, recvVars
<1>3. ASSUME NEW s \in Senders, Place(s) PROVE TypeOK'
  <2>1. item[s].data \in Nat
    BY SendsAssumption DEF Messages, Empty
  <2>2. messages' \in [Slots -> Messages \cup {Empty}] /\ accepted' \subseteq Nat
    BY <1>3, <2>1 DEF Place
  <2>3. /\ pc' \in [Senders -> {"idle", "loop", "place", "signal"}]
        /\ \A t \in Senders : pc'[t] = "loop" => pc[t] = "loop"
    BY <1>3 DEF Place
  <2> QED  BY <1>3, <2>2, <2>3 DEF Place, recvVars
<1>4. ASSUME NEW s \in Senders, Signal(s) PROVE TypeOK'
  BY <1>4 DEF Signal, recvVars, historyVars
<1>5. CASE Recv
  BY <1>5 DEF Recv, sendVars, historyVars
<1>6. CASE Scan
  <2>1. \A k \in Slots : messages[k].data \in Nat
    BY SendsAssumption DEF Messages, Empty
  <2>2. ASSUME NEW k \in Slots,
               received' = messages[k],
               delivered' = Append(delivered, messages[k].data),
               messages' = [messages EXCEPT ![k] = Empty],
               rpc' = "busy"
        PROVE  /\ messages' \in [Slots -> Messages \cup {Empty}]
               /\ received' \in Messages \cup {Empty}
               /\ delivered' \in Seq(Nat)
    <3>1. messages' \in [Slots -> Messages \cup {Empty}] /\ received' \in Messages \cup {Empty}
      BY <2>2
    <3>2. delivered' \in Seq(Nat)
      BY <2>1, <2>2
    <3> QED  BY <3>1, <3>2
  <2>3. /\ messages' \in [Slots -> Messages \cup {Empty}]
        /\ received' \in Messages \cup {Empty}
        /\ delivered' \in Seq(Nat)
        /\ rpc' \in {"busy", "wait"}
    BY <1>6, <2>2 DEF Scan
  <2> QED  BY <1>6, <2>3 DEF Scan, sendVars, historyVars
<1>7. CASE TakeSignal
  BY <1>7 DEF TakeSignal, sendVars, historyVars
<1>8. CASE UNCHANGED vars
  BY <1>8 DEF vars, sendVars, recvVars, historyVars
<1> QED
  BY <1>1, <1>2, <1>3, <1>4, <1>5, <1>6, <1>7, <1>8 DEF Next, Sender, Receiver, Quiescent

\* The loop variable of audio_msg_queue_send stays within the slots, and every
\* variable within its type (TypeOK), for every length the uint8_t allows.
THEOREM QueueTypeCorrect == Spec => []TypeOK
<1> QED  BY TypeInit, TypeStep, PTL DEF Spec

-----------------------------------------------------------------------------
(* No wake-up is lost *)

LEMMA WakeupStep == TypeOK /\ NoLostWakeup /\ [Next]_vars => NoLostWakeup'
<1> SUFFICES ASSUME TypeOK, NoLostWakeup, [Next]_vars,
                    rpc' = "wait", NEW k \in Slots, messages'[k] # Empty
             PROVE  signal' \/ \E s \in Senders : pc'[s] = "signal"
  BY DEF NoLostWakeup
<1> DEFINE Woken == signal \/ \E s \in Senders : pc[s] = "signal"
<1>0. (rpc = "wait" /\ \E m \in Slots : messages[m] # Empty) => Woken
  BY DEF NoLostWakeup
<1> USE DEF TypeOK
<1>1. ASSUME NEW s \in Senders, NEW e \in Events, Send(s, e)
      PROVE  signal' \/ \E t \in Senders : pc'[t] = "signal"
  BY <1>0, <1>1 DEF Send, recvVars
<1>2. ASSUME NEW s \in Senders, Pass(s)
      PROVE  signal' \/ \E t \in Senders : pc'[t] = "signal"
  <2>1. \E m \in Slots : messages[m] # Empty
    BY <1>2, PassMoves DEF Pass
  <2> QED  BY <1>0, <1>2, <2>1 DEF Pass, recvVars
<1>3. ASSUME NEW s \in Senders, Place(s)
      PROVE  signal' \/ \E t \in Senders : pc'[t] = "signal"
  BY <1>0, <1>3 DEF Place, recvVars
<1>4. ASSUME NEW s \in Senders, Signal(s) PROVE signal'
  BY <1>4 DEF Signal
<1>5. CASE Recv
  BY <1>5 DEF Recv
<1>6. CASE Scan
  <2>1. UNCHANGED messages => messages[k].event # NONE
    BY NoneAssumption DEF Messages
  <2> QED  BY <1>6, <2>1 DEF Scan
<1>7. CASE TakeSignal
  BY <1>7 DEF TakeSignal
<1>8. CASE UNCHANGED vars
  BY <1>0, <1>8 DEF vars, sendVars, recvVars
<1> QED
  BY <1>1, <1>2, <1>3, <1>4, <1>5, <1>6, <1>7, <1>8 DEF Next, Sender, Receiver, Quiescent

LEMMA WakeupInit == Init => NoLostWakeup
  BY DEF Init, NoLostWakeup

\* The receiver never waits for a signal nobody will give while a message is in
\* the queue (NoLostWakeup), whatever the length of the queue.
THEOREM NoLostWakeupCorrect == Spec => []NoLostWakeup
<1> QED  BY WakeupInit, WakeupStep, QueueTypeCorrect, PTL DEF Spec

-----------------------------------------------------------------------------
(* Two or more slots are a mailbox for one message *)

\* Whoever is between taking and giving back the mutex holds it.
MutexInv ==
  \A s \in Senders : pc[s] \in {"loop", "place"} <=> mutex = s

\* A message is in slot 0 or nowhere, and nowhere once a sender's loop has run
\* for the first time: the shift onto slot 0 has overwritten what was there.
OneSlotInv ==
  /\ \A k \in Slots : messages[k] # Empty =>
       k = 0 /\ \A s \in Senders : ~InLoop(s)
  /\ \A s \in Senders : pc[s] # "idle" => item[s] \in Messages

BoxInv == TypeOK /\ MutexInv /\ OneSlotInv

LEMMA MutexStep == TypeOK /\ MutexInv /\ [Next]_vars => MutexInv'
<1> SUFFICES ASSUME TypeOK, MutexInv, [Next]_vars PROVE MutexInv'
  OBVIOUS
<1> USE NoneAssumption DEF TypeOK, MutexInv
<1>1. ASSUME NEW s \in Senders, NEW e \in Events, Send(s, e) PROVE MutexInv'
  BY <1>1 DEF Send
<1>2. ASSUME NEW s \in Senders, Pass(s) PROVE MutexInv'
  BY <1>2 DEF Pass
<1>3. ASSUME NEW s \in Senders, Place(s) PROVE MutexInv'
  BY <1>3 DEF Place
<1>4. ASSUME NEW s \in Senders, Signal(s) PROVE MutexInv'
  BY <1>4 DEF Signal
<1>5. CASE Recv
  BY <1>5 DEF Recv, sendVars
<1>6. CASE Scan
  BY <1>6 DEF Scan, sendVars
<1>7. CASE TakeSignal
  BY <1>7 DEF TakeSignal, sendVars
<1>8. CASE UNCHANGED vars
  BY <1>8 DEF vars, sendVars
<1> QED
  BY <1>1, <1>2, <1>3, <1>4, <1>5, <1>6, <1>7, <1>8 DEF Next, Sender, Receiver, Quiescent

\* One sender at a time is in the loop, and it is the one Pending speaks of.
LEMMA PendingInLoop ==
  ASSUME TypeOK, MutexInv, NEW s \in Senders, InLoop(s)
  PROVE  Pending = item[s] /\ mutex = s
<1>1. mutex = s /\ \A t \in Senders : InLoop(t) => t = s
  BY DEF InLoop, MutexInv
<1> QED  BY <1>1 DEF Pending

LEMMA PendingFree ==
  ASSUME MutexInv, mutex = NONE
  PROVE  Pending = messages[0] /\ \A s \in Senders : ~InLoop(s)
  BY NoneAssumption DEF InLoop, MutexInv, Pending

\* What one pass does to a queue with at most one message, in slot 0.
LEMMA PassClears ==
  ASSUME Length > 1, BoxInv, NEW s \in Senders, Pass(s)
  PROVE  \A k \in Slots : messages'[k] = Empty
<1> DEFINE q == Supersede(item[s].event, i[s])
<1> USE SlotsFacts DEF BoxInv, TypeOK
<1>1. i[s] \in Slots /\ messages' = Shift(q, i[s]) /\ Last > 0
  BY LengthAssumption DEF Pass, Last
<1>2. \A k \in Slots : q[k] \in {messages[k], Empty}
  BY <1>1 DEF Supersede
<1>3. \A k \in Slots : k # 0 => q[k] = Empty
  BY <1>2 DEF OneSlotInv
<1>4. i[s] # 0 => q[0] = Empty
  <2>1. i[s] # 0 => InLoop(s)
    BY <1>1 DEF Pass, InLoop
  <2> QED  BY <1>2, <2>1 DEF OneSlotInv
<1> HIDE DEF q, BoxInv, TypeOK
<1>5. CASE i[s] = Last
  BY <1>1, <1>3, <1>4, <1>5 DEF Shift
<1>6. CASE i[s] # Last
  <2>1. messages' = [m \in Slots |-> IF m < i[s] THEN q[m]
                                     ELSE IF m < Last THEN q[m + 1] ELSE Empty]
    BY <1>1, <1>6 DEF Shift
  <2>2. ASSUME NEW k \in Slots PROVE messages'[k] = Empty
    <3>1. CASE k < i[s]
      <4>1. messages'[k] = q[k]
        BY <2>1, <3>1
      <4>2. i[s] # 0
        BY <1>1, <3>1
      <4>3. q[k] = Empty
        <5>1. CASE k = 0
          BY <1>4, <4>2, <5>1
        <5>2. CASE k # 0
          BY <1>3, <5>2
        <5> QED  BY <5>1, <5>2
      <4> QED  BY <4>1, <4>3
    <3>2. CASE ~(k < i[s]) /\ k < Last
      <4>1. k + 1 \in Slots /\ k + 1 # 0
        BY <3>2
      <4>2. messages'[k] = q[k + 1]
        BY <2>1, <3>2
      <4> QED  BY <1>3, <4>1, <4>2
    <3>3. CASE ~(k < i[s]) /\ ~(k < Last)
      BY <2>1, <3>3
    <3> QED  BY <3>1, <3>2, <3>3
  <2> QED  BY <2>2
<1> QED  BY <1>5, <1>6

LEMMA OneSlotStep == Length > 1 /\ BoxInv /\ [Next]_vars => OneSlotInv'
<1> SUFFICES ASSUME Length > 1, BoxInv, [Next]_vars PROVE OneSlotInv'
  OBVIOUS
<1> USE SlotsFacts DEF BoxInv, TypeOK
<1>1. ASSUME NEW s \in Senders, NEW e \in Events, Send(s, e) PROVE OneSlotInv'
  <2>1. item' = [item EXCEPT ![s] = [event |-> e, data |-> sends + 1]] /\ sends + 1 \in 1..MaxSends
    BY <1>1, SendsAssumption DEF Send
  <2>2. \A t \in Senders : pc'[t] # "idle" => item'[t] \in Messages
    BY <1>1, <2>1 DEF Send, OneSlotInv, Messages
  <2>3. \A t \in Senders : InLoop(t)' => InLoop(t)
    BY <1>1 DEF Send, InLoop
  <2> QED  BY <1>1, <2>2, <2>3 DEF Send, OneSlotInv
<1>2. ASSUME NEW s \in Senders, Pass(s) PROVE OneSlotInv'
  <2>1. \A k \in Slots : messages'[k] = Empty
    BY <1>2, PassClears
  <2> QED  BY <1>2, <2>1 DEF Pass, OneSlotInv
<1>3. ASSUME NEW s \in Senders, Place(s) PROVE OneSlotInv'
  <2>1. InLoop(s) /\ \A k \in Slots : messages[k] = Empty
    BY <1>3 DEF Place, InLoop, OneSlotInv
  <2>2. \A t \in Senders : ~InLoop(t)'
    BY <1>3 DEF Place, InLoop, MutexInv
  <2>3. ASSUME NEW k \in Slots, FirstFree(k) PROVE k = 0
    BY <2>1, <2>3 DEF FirstFree, Empty
  <2>4. \A k \in Slots : messages'[k] # Empty => k = 0
    BY <1>3, <2>1, <2>3 DEF Place
  <2> QED  BY <1>3, <2>2, <2>4 DEF Place, OneSlotInv
<1>4. ASSUME NEW s \in Senders, Signal(s) PROVE OneSlotInv'
  <2>1. \A t \in Senders : InLoop(t)' => InLoop(t)
    BY <1>4 DEF Signal, InLoop
  <2> QED  BY <1>4, <2>1 DEF Signal, OneSlotInv
<1>5. CASE Recv
  BY <1>5 DEF Recv, sendVars, OneSlotInv, InLoop
<1>6. CASE Scan
  <2>1. \A k \in Slots : messages'[k] \in {messages[k], Empty}
    BY <1>6 DEF Scan
  <2> QED  BY <1>6, <2>1 DEF Scan, sendVars, OneSlotInv, InLoop
<1>7. CASE TakeSignal
  BY <1>7 DEF TakeSignal, sendVars, OneSlotInv, InLoop
<1>8. CASE UNCHANGED vars
  BY <1>8 DEF vars, sendVars, OneSlotInv, InLoop
<1> QED
  BY <1>1, <1>2, <1>3, <1>4, <1>5, <1>6, <1>7, <1>8 DEF Next, Sender, Receiver, Quiescent

LEMMA BoxInvCorrect == Length > 1 /\ Spec => []BoxInv
<1>1. Init => MutexInv /\ OneSlotInv
  BY NoneAssumption DEF Init, MutexInv, OneSlotInv
<1>2. Length > 1 /\ BoxInv /\ [Next]_vars => BoxInv'
  BY TypeStep, MutexStep, OneSlotStep DEF BoxInv
<1>3. CASE Length > 1
  <2>1. Init => BoxInv
    BY <1>1, TypeInit DEF BoxInv
  <2>2. BoxInv /\ [Next]_vars => BoxInv'
    BY <1>2, <1>3
  <2> QED  BY <2>1, <2>2, PTL DEF Spec
<1> QED  BY <1>3

-----------------------------------------------------------------------------
(* The refinement *)

LEMMA BoxInit == Init => Box!Init
<1> SUFFICES ASSUME Init PROVE Box!Init
  OBVIOUS
<1>1. \A s \in Senders : ~InLoop(s)
  BY DEF Init, InLoop
<1> QED  BY <1>1, SlotsFacts DEF Init, Box!Init, Pending

LEMMA BoxStep ==
  Length > 1 /\ BoxInv /\ BoxInv' /\ [Next]_vars => [Box!Next]_<<Pending, received>>
<1> SUFFICES ASSUME Length > 1, BoxInv, BoxInv', [Next]_vars
             PROVE  [Box!Next]_<<Pending, received>>
  OBVIOUS
<1> USE SlotsFacts
<1>1. ASSUME NEW s \in Senders, NEW e \in Events, Send(s, e)
      PROVE  UNCHANGED <<Pending, received>>
  <2>1. Pending = messages[0] /\ \A t \in Senders : ~InLoop(t)
    BY <1>1, PendingFree DEF Send, BoxInv
  <2>2. \A t \in Senders : ~InLoop(t)'
    BY <1>1, <2>1 DEF Send, InLoop, BoxInv, TypeOK
  <2> QED  BY <1>1, <2>1, <2>2 DEF Send, Pending, recvVars
<1>2. ASSUME NEW s \in Senders, Pass(s)
      PROVE  Box!Put(item[s]) \/ UNCHANGED <<Pending, received>>
  <2>1. InLoop(s)'
    <3>1. i[s] \in Slots /\ i'[s] = i[s] + 1 /\ pc'[s] \in {"loop", "place"}
      BY <1>2 DEF Pass, BoxInv, TypeOK
    <3>2. i[s] \in Int /\ 0 <= i[s]
      BY <3>1
    <3>3. i'[s] > 0
      BY <3>1, <3>2
    <3> QED  BY <3>1, <3>3 DEF InLoop
  <2>2. Pending' = item[s]
    <3>1. \A t \in Senders : InLoop(t)' => t = s
      BY <1>2, <2>1 DEF BoxInv, MutexInv, InLoop
    <3> QED  BY <1>2, <2>1, <3>1 DEF Pass, Pending
  <2> QED  BY <1>2, <2>2 DEF Pass, recvVars, Box!Put
<1>3. ASSUME NEW s \in Senders, Place(s) PROVE UNCHANGED <<Pending, received>>
  <2>1. InLoop(s) /\ \A k \in Slots : messages[k] = Empty
    BY <1>3 DEF Place, InLoop, BoxInv, OneSlotInv
  <2>2. Pending = item[s]
    BY <2>1, PendingInLoop DEF BoxInv
  <2>3. messages' = [messages EXCEPT ![0] = item[s]]
    <3>1. ASSUME NEW k \in Slots, FirstFree(k) PROVE k = 0
      BY <2>1, <3>1 DEF FirstFree, Empty
    <3>2. messages[0].event = NONE
      BY <2>1 DEF Empty
    <3> QED  BY <1>3, <3>1, <3>2 DEF Place
  <2>4. Pending' = messages'[0]
    BY <1>3, NoneAssumption DEF Place, BoxInv, MutexInv, InLoop, Pending
  <2>5. messages'[0] = item[s]
    BY <2>3 DEF BoxInv, TypeOK
  <2> QED  BY <1>3, <2>2, <2>4, <2>5 DEF Place, recvVars
<1>4. ASSUME NEW s \in Senders, Signal(s) PROVE UNCHANGED <<Pending, received>>
  <2>1. \A t \in Senders : InLoop(t)' <=> InLoop(t)
    BY <1>4 DEF Signal, InLoop, BoxInv, TypeOK
  <2>2. (CHOOSE t \in Senders : InLoop(t)') = CHOOSE t \in Senders : InLoop(t)
    BY <2>1
  <2> QED  BY <1>4, <2>1, <2>2 DEF Signal, recvVars, Pending
<1>5. CASE Recv
  BY <1>5 DEF Recv, sendVars, Pending, InLoop
<1>6. CASE Scan
  <2>1. Pending = messages[0] /\ Pending' = messages'[0]
    BY <1>6, PendingFree DEF Scan, sendVars, BoxInv, InLoop, Pending
  <2>2. ASSUME NEW k \in Slots, FirstUsed(k), received' = messages[k],
               messages' = [messages EXCEPT ![k] = Empty]
        PROVE  Box!Take
    <3>1. messages[k] # Empty
      BY <2>2 DEF FirstUsed, Empty
    <3>2. k = 0
      BY <3>1 DEF BoxInv, OneSlotInv
    <3>3. messages'[0] = Empty
      BY <2>2, <3>2 DEF BoxInv, TypeOK
    <3> QED  BY <2>1, <2>2, <3>1, <3>2, <3>3 DEF Box!Take
  <2> QED  BY <1>6, <2>1, <2>2 DEF Scan, Box!Next
<1>7. CASE TakeSignal
  BY <1>7 DEF TakeSignal, sendVars, Pending, InLoop
<1>8. CASE UNCHANGED vars
  BY <1>8 DEF vars, sendVars, recvVars, Pending, InLoop
<1>9. ASSUME NEW s \in Senders, Pass(s) PROVE item[s] \in Messages
  BY <1>9 DEF Pass, BoxInv, OneSlotInv
<1> QED
  BY <1>1, <1>2, <1>3, <1>4, <1>5, <1>6, <1>7, <1>8, <1>9
  DEF Next, Sender, Receiver, Quiescent, Box!Next

\* With two slots or more the queue implements the one-place mailbox
\* (MailboxSpec): however long it is, a send replaces the message that waits.
THEOREM MailboxCorrect == Length > 1 /\ Spec => MailboxSpec
<1>1. CASE Length > 1
  <2>1. BoxInv /\ BoxInv' /\ [Next]_vars => [Box!Next]_<<Pending, received>>
    BY <1>1, BoxStep
  <2>2. Spec => []BoxInv
    BY <1>1, BoxInvCorrect
  <2> QED  BY <2>1, <2>2, BoxInit, PTL DEF Spec, MailboxSpec, Box!Spec
<1> QED  BY <1>1
=============================================================================
