---------------------------- MODULE MessageQueue ----------------------------
(***************************************************************************)
(* What a framed stream promises: the messages that were sent arrive once, *)
(* whole and in order, until one of the two sides is closed.               *)
(***************************************************************************)
EXTENDS Sequences, Integers

CONSTANT Payload

VARIABLES sent, received, sending, receiving

vars == <<sent, received, sending, receiving>>

Init ==
  /\ sent = << >> /\ received = << >>
  /\ sending = TRUE /\ receiving = TRUE

Put(m) ==
  /\ sending
  /\ sent' = Append(sent, m)
  /\ UNCHANGED <<received, sending, receiving>>

Get ==
  /\ receiving /\ Len(received) < Len(sent)
  /\ received' = Append(received, sent[Len(received) + 1])
  /\ UNCHANGED <<sent, sending, receiving>>

CloseSender ==
  /\ sending
  /\ sending' = FALSE
  /\ UNCHANGED <<sent, received, receiving>>

\* The receiver learns of the end after the sender has closed.
CloseReceiver ==
  /\ receiving /\ ~sending
  /\ receiving' = FALSE
  /\ UNCHANGED <<sent, received, sending>>

Next == (\E m \in Payload : Put(m)) \/ Get \/ CloseSender \/ CloseReceiver

Spec == Init /\ [][Next]_vars

=============================================================================
