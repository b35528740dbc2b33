---------------------------- MODULE AudioMsgQueue ----------------------------
(***************************************************************************)
(* src/src/media/audio_message_queue.c: the queue between the threads that *)
(* call audio_mgr_* and audio_mgr_task, which executes their requests.     *)
(*                                                                         *)
(* Every iteration of the loop of audio_msg_queue_send is an action, under *)
(* the mutex it holds; audio_msg_queue_recv changes the slots in one step. *)
(* `signal' is xSemaphoreCreateBinary, a pthread mutex that is unlocked at *)
(* the start: Take (lock) waits until it is free, Give (unlock) makes it   *)
(* free whoever locked it.                                                 *)
(*                                                                         *)
(* An operator marked MUTATION is a faulty variant of the one after it: no *)
(* action uses it, and the property it names fails when it does.           *)
(***************************************************************************)
EXTENDS Integers, Sequences

CONSTANTS Senders,      \* the threads that send
          Events,       \* the values of event but 0
          NONE,         \* event 0, and no thread
          Length,       \* msg_queue->length
          MaxSends      \* bound: messages sent

\* i and j are uint8_t: with a longer queue the loops would never end.
ASSUME LengthAssumption == Length \in 1..255
ASSUME NoneAssumption   == NONE \notin Events /\ NONE \notin Senders
ASSUME SendsAssumption  == MaxSends \in Nat

Slots == 0..Length - 1
Last  == Length - 1

\* A message carries its number as its data; 0 is the NULL pointer.
Empty    == [event |-> NONE, data |-> 0]
Messages == [event : Events, data : 1..MaxSends]

VARIABLES messages,     \* msg_queue->messages
          mutex,        \* the sender that holds msg_queue->mutex, or NONE
          signal,       \* msg_queue->signal is free
          pc,           \* pc[s]: where sender s is in audio_msg_queue_send
          item,         \* item[s]: *p_msg of its call
          i,            \* i[s]: its loop variable
          rpc,          \* where the receiver is
          received,     \* the receiver's *p_msg: the message received last
          sends,        \* messages sent
          accepted,     \* history: the data of the sends that returned 0,
          delivered,    \* the data received, in order,
          freed         \* and the data that audio_msg_queue_send freed

sendVars    == <<mutex, pc, item, i, sends>>
recvVars    == <<rpc, received, delivered>>
historyVars == <<accepted, freed>>
vars == <<messages, signal, sendVars, recvVars, historyVars>>

Init ==
  /\ messages = [k \in Slots |-> Empty]
  /\ mutex = NONE
  /\ signal = TRUE
  /\ pc = [s \in Senders |-> "idle"]
  /\ item = [s \in Senders |-> Empty]
  /\ i = [s \in Senders |-> 0]
  /\ rpc = "scan"
  /\ received = Empty
  /\ sends = 0
  /\ accepted = {} /\ freed = {}
  /\ delivered = <<>>

-----------------------------------------------------------------------------
(* audio_msg_queue_send *)

\* Taking the mutex is the first step of a call that anyone can see.
Send(s, e) ==
  /\ pc[s] = "idle"
  /\ mutex = NONE
  /\ sends < MaxSends
  /\ mutex' = s
  /\ sends' = sends + 1
  /\ item' = [item EXCEPT ![s] = [event |-> e, data |-> sends + 1]]
  /\ i' = [i EXCEPT ![s] = 0]
  /\ pc' = [pc EXCEPT ![s] = "loop"]
  /\ UNCHANGED <<messages, signal, recvVars, historyVars>>

\* A message with the event of the one being sent is dropped ...
Supersede(e, k) == IF messages[k].event = e THEN [messages EXCEPT ![k] = Empty] ELSE messages

\* MUTATION (MailboxSpec): only an emptied slot is closed up (what a queue of
\* several messages would need).
ShiftFreed(q, k) == IF q[k] # Empty THEN q
                    ELSE [m \in Slots |-> IF m < k THEN q[m]
                                          ELSE IF m < Last THEN q[m + 1] ELSE Empty]

\* ... and the slots after it move down by one: onto slot k even when it is not
\* empty.  For the last slot the inner loop does nothing.
Shift(q, k) == IF k = Last THEN q
               ELSE [m \in Slots |-> IF m < k THEN q[m]
                                     ELSE IF m < Last THEN q[m + 1] ELSE Empty]

\* MUTATION (TypeOK): the outer loop runs once too often.
PassPastEnd(s) ==
  /\ pc[s] = "loop"
  /\ messages' = Shift(Supersede(item[s].event, i[s]), i[s])
  /\ i' = [i EXCEPT ![s] = @ + 1]
  /\ pc' = [pc EXCEPT ![s] = IF i[s] <= Last THEN "loop" ELSE "place"]
  /\ UNCHANGED <<mutex, signal, item, sends, recvVars, historyVars>>

Pass(s) ==
  /\ pc[s] = "loop"
  /\ messages' = Shift(Supersede(item[s].event, i[s]), i[s])
  /\ freed' = IF messages[i[s]].event = item[s].event THEN freed \cup {messages[i[s]].data}
              ELSE freed
  /\ i' = [i EXCEPT ![s] = @ + 1]
  /\ pc' = [pc EXCEPT ![s] = IF i[s] < Last THEN "loop" ELSE "place"]
  /\ UNCHANGED <<mutex, signal, item, sends, recvVars, accepted>>

FirstFree(k) == /\ messages[k].event = NONE
                /\ \A m \in Slots : m < k => messages[m].event # NONE

\* The first free slot is used; without one the call logs "full", returns -2.
Place(s) ==
  /\ pc[s] = "place"
  /\ \/ \E k \in Slots :
          /\ FirstFree(k)
          /\ messages' = [messages EXCEPT ![k] = item[s]]
          /\ accepted' = accepted \cup {item[s].data}
          /\ pc' = [pc EXCEPT ![s] = "signal"]
     \/ /\ \A k \in Slots : messages[k].event # NONE
        /\ pc' = [pc EXCEPT ![s] = "idle"]
        /\ UNCHANGED <<messages, accepted>>
  /\ mutex' = NONE
  /\ UNCHANGED <<signal, item, i, sends, recvVars, freed>>

\* MUTATION (NoLostWakeup, Delivered): line 102 gives the signal only when more
\* than one slot is in use.
SignalOnBacklog(s) ==
  /\ pc[s] = "signal"
  /\ signal' = (signal \/ \E k \in Slots : k > 0 /\ messages[k] # Empty)
  /\ pc' = [pc EXCEPT ![s] = "idle"]
  /\ UNCHANGED <<messages, mutex, item, i, sends, recvVars, historyVars>>

Signal(s) ==
  /\ pc[s] = "signal"
  /\ signal' = TRUE
  /\ pc' = [pc EXCEPT ![s] = "idle"]
  /\ UNCHANGED <<messages, mutex, item, i, sends, recvVars, historyVars>>

-----------------------------------------------------------------------------
(* audio_msg_queue_recv, which audio_mgr_task calls with portMAX_DELAY *)

Recv ==
  /\ rpc = "busy"
  /\ rpc' = "scan"
  /\ UNCHANGED <<messages, signal, sendVars, received, delivered, historyVars>>

FirstUsed(k) == /\ messages[k].event # NONE
                /\ \A m \in Slots : m < k => messages[m].event = NONE

\* Take the first message there is, or wait for the signal.
Scan ==
  /\ rpc = "scan"
  /\ mutex = NONE
  /\ \/ \E k \in Slots :
          /\ FirstUsed(k)
          /\ received' = messages[k]
          /\ delivered' = Append(delivered, messages[k].data)
          /\ messages' = [messages EXCEPT ![k] = Empty]
          /\ rpc' = "busy"
     \/ /\ \A k \in Slots : messages[k].event = NONE
        /\ rpc' = "wait"
        /\ UNCHANGED <<messages, received, delivered>>
  /\ UNCHANGED <<signal, sendVars, historyVars>>

TakeSignal ==
  /\ rpc = "wait"
  /\ signal
  /\ signal' = FALSE
  /\ rpc' = "scan"
  /\ UNCHANGED <<messages, sendVars, received, delivered, historyVars>>

\* Everything sent has been received: only then may the receiver wait for ever.
Quiescent ==
  /\ sends = MaxSends
  /\ \A s \in Senders : pc[s] = "idle"
  /\ \A k \in Slots : messages[k] = Empty
  /\ rpc = "wait" /\ ~signal
  /\ UNCHANGED vars

Sender(s) == Pass(s) \/ Place(s) \/ Signal(s)
Receiver  == Recv \/ Scan \/ TakeSignal

Next ==
  \/ \E s \in Senders : Sender(s) \/ \E e \in Events : Send(s, e)
  \/ Receiver
  \/ Quiescent

\* A sender need not send again, but ends the call it has begun.
Fairness == WF_vars(Receiver) /\ \A s \in Senders : WF_vars(Sender(s))

Spec     == Init /\ [][Next]_vars
FairSpec == Spec /\ Fairness

-----------------------------------------------------------------------------
(* Properties *)

TypeOK ==
  /\ messages \in [Slots -> Messages \cup {Empty}]
  /\ mutex \in Senders \cup {NONE}
  /\ signal \in BOOLEAN
  /\ pc \in [Senders -> {"idle", "loop", "place", "signal"}]
  /\ item \in [Senders -> Messages \cup {Empty}]
  /\ i \in [Senders -> 0..Length]
  /\ \A s \in Senders : pc[s] = "loop" => i[s] \in Slots
  /\ rpc \in {"scan", "wait", "busy"}
  /\ received \in Messages \cup {Empty}
  /\ sends \in Nat
  /\ accepted \subseteq Nat
  /\ freed \subseteq Nat
  /\ delivered \in Seq(Nat)

\* While the receiver waits and a message is in a slot, the signal is free or a
\* sender is about to give it: the test and the wait of audio_msg_queue_recv are
\* not atomic, and no message is overlooked between them (lines 135-139).
NoLostWakeup ==
  rpc = "wait" /\ (\E k \in Slots : messages[k] # Empty) =>
    signal \/ \E s \in Senders : pc[s] = "signal"

\* A message that was accepted (the call returned 0) is received, or is in the
\* queue, or a later message with the same event has replaced it.
NoSilentLoss ==
  \A d \in accepted :
    \/ d \in freed
    \/ \E m \in 1..Len(delivered) : delivered[m] = d
    \/ \E k \in Slots : messages[k].data = d

\* The message the receiver will get: from the first iteration of its loop on
\* that of a sender, which has emptied the slots by then.
InLoop(s) == pc[s] = "place" \/ (pc[s] = "loop" /\ i[s] > 0)
Pending   == IF \E s \in Senders : InLoop(s)
             THEN item[CHOOSE s \in Senders : InLoop(s)] ELSE messages[0]

Box == INSTANCE Mailbox WITH box <- Pending, taken <- received

\* A queue of two or more slots is a mailbox for one message: a send replaces
\* whatever message is pending, of any event (the shift in lines 77-80).
MailboxSpec == Box!Spec

\* A message in the queue is received, or gives way to a later one.
Delivered == \A d \in 1..MaxSends :
  (\E k \in Slots : messages[k].data = d) ~> ~(\E k \in Slots : messages[k].data = d)
=============================================================================
