------------------------------- MODULE Channel -------------------------------
(***************************************************************************)
(* What a peer session promises the gossip and sync layers: payloads come  *)
(* out in the order they were encrypted, none twice, none skipped, until   *)
(* the session ends; and a session does not end unless something went      *)
(* wrong.                                                                  *)
(***************************************************************************)
EXTENDS Naturals, Sequences

CONSTANT Payloads

VARIABLES sent, delivered, open, fault

channel_vars == <<sent, delivered, open, fault>>

ChannelInit == sent = << >> /\ delivered = << >> /\ open \in BOOLEAN /\ fault = ~open

Send(m) == sent' = Append(sent, m) /\ UNCHANGED <<delivered, open, fault>>

Deliver ==
    /\ open /\ Len(delivered) < Len(sent)
    /\ delivered' = Append(delivered, sent[Len(delivered) + 1])
    /\ UNCHANGED <<sent, open, fault>>

GoesWrong == fault' = TRUE /\ UNCHANGED <<sent, delivered, open>>

End == open /\ open' = FALSE /\ fault' = TRUE /\ UNCHANGED <<sent, delivered>>

ChannelNext == (\E m \in Payloads : Send(m)) \/ Deliver \/ GoesWrong \/ End

ChannelSpec == ChannelInit /\ [][ChannelNext]_channel_vars
==============================================================================
