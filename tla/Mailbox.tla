------------------------------- MODULE Mailbox -------------------------------
(***************************************************************************)
(* A mailbox with room for one message: putting a message replaces the one *)
(* that has not been taken yet.  This is what audio_message_queue.c gives  *)
(* its callers, whatever length (above 1) the queue was created with.      *)
(***************************************************************************)
CONSTANTS Messages, Empty

VARIABLES box,      \* the message to be taken, or Empty
          taken     \* the message taken last, or Empty

Init == box = Empty /\ taken = Empty

Put(m) == box' = m /\ UNCHANGED taken

Take == /\ box # Empty
        /\ taken' = box
        /\ box' = Empty

Next == Take \/ \E m \in Messages : Put(m)

Spec == Init /\ [][Next]_<<box, taken>>

\* The receiver does not leave a message in the box for ever.
FairSpec == Spec /\ WF_<<box, taken>>(Take)
=============================================================================
