--------------------------- MODULE MessageStream ---------------------------
(***************************************************************************)
(* What a connection between two Protocol_impl objects promises: a stream  *)
(* of messages.  Each message that was sent is received once, unchanged    *)
(* and in the order of sending.  The messages of a pipeline are sent       *)
(* together.  How messages become bytes, how the bytes travel and how      *)
(* they are put together again is the business of module Protocol.         *)
(***************************************************************************)
EXTENDS Naturals, Sequences, SequencesExt

VARIABLES
  sent,     \* the messages that were handed to the connection
  got       \* the messages that came out at the other end

vars == <<sent, got>>

Init ==
  /\ sent = <<>>
  /\ got = <<>>

\* One message, or all messages of a pipeline, are sent.
Send ==
  /\ IsStrictPrefix(sent, sent')
  /\ UNCHANGED got

\* The oldest message that was not received yet is received.
Receive ==
  /\ Len(got) < Len(sent)
  /\ got' = Append(got, sent[Len(got) + 1])
  /\ UNCHANGED sent

Next == Send \/ Receive

Spec == Init /\ [][Next]_vars
=============================================================================
