------------------------------ MODULE Framing ------------------------------
(***************************************************************************)
(* One direction of a connection through Framed<TcpStream, EthCodec>: a    *)
(* sender that encodes messages into a byte stream and a receiver that     *)
(* reads pieces of any size into its buffer and decodes what is complete.  *)
(* The stream keeps order; when the sender dies, an unread tail is lost.   *)
(***************************************************************************)
EXTENDS Messages

CONSTANTS Payload,   \* the messages that are sent
          MaxSend,   \* how many of them
          CanDie     \* whether the sender may die with bytes in flight

VARIABLES sent,      \* the messages whose frames were written
          wire,      \* bytes written and not yet read
          writer,    \* "open", "failed", "closed" or "dead"
          src,       \* the receiver's read buffer
          readable,  \* whether the buffer may hold a complete frame
          received,  \* the messages decoded
          reader     \* "reading", "ended", "failed" or "panicked"

senderVars == <<sent, writer>>
receiverVars == <<src, readable, received, reader>>
vars == <<sent, wire, writer, src, readable, received, reader>>

Init ==
  /\ sent = << >> /\ wire = << >> /\ writer = "open"
  /\ src = << >> /\ readable = FALSE /\ received = << >> /\ reader = "reading"

-----------------------------------------------------------------------------
(* Sender *)

Send(m) ==
  /\ writer = "open" /\ Len(sent) < MaxSend
  /\ \E frame \in {encode_frame(m)} :
       IF Failed(frame)
       THEN writer' = "failed" /\ UNCHANGED <<sent, wire>>
       ELSE wire' = wire \o frame.ok /\ sent' = Append(sent, m) /\ UNCHANGED writer
  /\ UNCHANGED receiverVars

CloseWriter ==
  /\ writer = "open"
  /\ writer' = "closed"
  /\ UNCHANGED <<sent, wire>> /\ UNCHANGED receiverVars

Die ==
  /\ CanDie /\ writer = "open"
  /\ writer' = "dead"
  /\ \E n \in 0..Len(wire) : wire' = SubSeq(wire, 1, n)
  /\ UNCHANGED sent /\ UNCHANGED receiverVars

-----------------------------------------------------------------------------
(* Receiver: tokio's Framed decodes until the codec asks for more          *)

ReadSome ==
  /\ reader = "reading" /\ ~readable
  /\ \E n \in 1..Len(wire) :
       /\ src' = src \o SubSeq(wire, 1, n)
       /\ wire' = From(wire, n + 1)
  /\ readable' = TRUE
  /\ UNCHANGED senderVars /\ UNCHANGED <<received, reader>>

\* Plausible bug: a decoded frame stays in the buffer.
DecodeKeepsFrame ==
  /\ reader = "reading" /\ readable
  /\ \E next \in {decode_frame(src)} :
       /\ readable' = ("result" \in DOMAIN next)
       /\ IF "result" \notin DOMAIN next THEN UNCHANGED <<received, reader>>
          ELSE IF "ok" \in DOMAIN next.result
          THEN received' = Append(received, next.result.ok) /\ UNCHANGED reader
          ELSE reader' = "failed" /\ UNCHANGED received
  /\ UNCHANGED senderVars /\ UNCHANGED <<wire, src>>

\* Plausible bug: one frame is decoded for each read.
DecodeOncePerRead ==
  /\ reader = "reading" /\ readable
  /\ readable' = FALSE
  /\ \E next \in {decode_frame(src)} :
       /\ src' = next.src
       /\ received' = IF "result" \in DOMAIN next THEN Append(received, next.result.ok)
                      ELSE received
  /\ UNCHANGED senderVars /\ UNCHANGED <<wire, reader>>

Decode ==
  /\ reader = "reading" /\ readable
  /\ \E next \in {decode_frame(src)} :
       /\ src' = next.src
       /\ readable' = ("result" \in DOMAIN next)
       /\ IF "result" \notin DOMAIN next THEN UNCHANGED <<received, reader>>
          ELSE IF "ok" \in DOMAIN next.result
          THEN received' = Append(received, next.result.ok) /\ UNCHANGED reader
          ELSE /\ reader' = IF "panic" \in DOMAIN next.result THEN "panicked" ELSE "failed"
               /\ UNCHANGED received
  /\ UNCHANGED senderVars /\ UNCHANGED wire

\* At the end of the stream a rest of the buffer is an error.
ReadEnd ==
  /\ reader = "reading" /\ ~readable /\ wire = << >> /\ writer # "open"
  /\ reader' = IF src = << >> THEN "ended" ELSE "failed"
  /\ UNCHANGED senderVars /\ UNCHANGED <<wire, src, readable, received>>

ReceiverStep == ReadSome \/ Decode \/ ReadEnd

-----------------------------------------------------------------------------
Next == (\E m \in Payload : Send(m)) \/ CloseWriter \/ Die \/ ReceiverStep

Spec == Init /\ [][Next]_vars

Queue == INSTANCE MessageQueue
           WITH sending <- writer = "open", receiving <- reader = "reading"

-----------------------------------------------------------------------------
(* Properties *)

\* However reads split the stream, the messages that EthCodec::decode returns
\* are the ones given to EthCodec::encode, once each and in order, and the
\* receiver reports an end only after the sender's.
ImplementsQueue == Queue!Spec

\* The receiver is as good as the bytes it was given.  It fails only when the
\* sender died within a frame.  While it waits for more bytes it has delivered
\* every message whose frame it has read: when nothing is in flight, all that
\* was written has arrived, also after a later message was too large to be
\* encoded.
StreamExact ==
  /\ reader # "panicked"
  /\ reader = "failed" => writer = "dead"
  /\ reader = "ended" /\ writer # "dead" => received = sent
  /\ ~readable => "result" \notin DOMAIN decode_frame(src)
  /\ ~readable /\ wire = << >> /\ writer # "dead" => received = sent /\ src = << >>

=============================================================================
