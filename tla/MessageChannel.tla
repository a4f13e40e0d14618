--------------------------- MODULE MessageChannel ---------------------------
(***************************************************************************)
(* What one direction of a ChunkedConnection promises its user: the        *)
(* messages it accepts (a committed block, or the argument of one          *)
(* StreamWrite) are handed to the peer's event pool once each, unchanged   *)
(* and in the order in which they were accepted.  Nothing is said of how   *)
(* many are delivered: a broken connection delivers a prefix.              *)
(***************************************************************************)
EXTENDS Naturals, Sequences

CONSTANT Message    \* every message a user could send

VARIABLES
  sent,             \* the messages accepted so far, in order
  delivered         \* the messages the peer was handed so far, in order

vars == <<sent, delivered>>

Init == /\ sent = <<>>
        /\ delivered = <<>>

\* Some message is accepted.  Message may be infinite, so the message is read
\* off the next state instead of being quantified over.
Accept == /\ Len(sent') = Len(sent) + 1
          /\ sent'[Len(sent')] \in Message
          /\ sent' = Append(sent, sent'[Len(sent')])
          /\ UNCHANGED delivered

Deliver == /\ Len(delivered) < Len(sent)
           /\ delivered' = Append(delivered, sent[Len(delivered) + 1])
           /\ UNCHANGED sent

Next == Accept \/ Deliver

Spec == Init /\ [][Next]_vars
=============================================================================
