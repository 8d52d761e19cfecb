---------------------------- MODULE LineChannel ----------------------------
(***************************************************************************)
(* What either direction of the stdio transport promises: what was sent    *)
(* arrives once and in order, and the receiver is told that there is no    *)
(* more only when it has everything.  A channel that breaks may lose the   *)
(* rest, but never tells that it has ended.                                *)
(***************************************************************************)
EXTENDS Naturals, Sequences

CONSTANT Message

VARIABLES sent, delivered, state

Init == sent = << >> /\ delivered = << >> /\ state = "open"

Send ==
  /\ state # "ended"
  /\ \E m \in Message : sent' = Append(sent, m)
  /\ UNCHANGED <<delivered, state>>

Deliver ==
  /\ Len(delivered) < Len(sent)
  /\ delivered' = Append(delivered, sent[Len(delivered) + 1])
  /\ state' \in {state, IF delivered' = sent THEN "ended" ELSE state}
  /\ UNCHANGED sent

End   == state = "open" /\ delivered = sent /\ state' = "ended" /\ UNCHANGED <<sent, delivered>>
Break == state = "open" /\ state' = "broken" /\ UNCHANGED <<sent, delivered>>

Spec == Init /\ [][Send \/ Deliver \/ End \/ Break]_<<sent, delivered, state>>
=============================================================================
