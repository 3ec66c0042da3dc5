----------------------------- MODULE MCInbound -----------------------------
(* A small instance of InboundProcessing: two events with the same customer *)
(* message, one of them with a receipt after it, and one for another        *)
(* channel of the same callback URL.                                        *)
EXTENDS InboundProcessing

Msg(m) == [type |-> "MESSAGE", id |-> m]
Rcpt(o) == [type |-> "DELIVERY_RECEIPT", id |-> o]
Other == [type |-> "IGNORED", id |-> "-"]

MCEvent == {"e1", "e2"}
MCResults == [e \in MCEvent |-> IF e = "e1" THEN <<Msg("m1"), Rcpt("o1")>> ELSE <<Other, Msg("m1")>>]
MCChannelOf == [e \in MCEvent |-> IF e = "e1" THEN "c1" ELSE "c2"]
MCConnected == {"c1", "c2"}
MCBatches == {MCEvent}
=============================================================================
