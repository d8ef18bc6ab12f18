--------------------------- MODULE MC_PacketNotify ---------------------------
(* Model-checking instance of PacketNotify with the code's real widths.    *)
(* Initial sequences: 0 (the u16 underflow of init), a middle value, and   *)
(* the top of the 14-bit range (the wire sequence wraps on the 2nd packet). *)
EXTENDS PacketNotify

MC_InitSeqs == {0, 700, 16383}
MC_InitSeqsNoWrap == {700}
=============================================================================
