-------------------------- MODULE MC_ChannelReceive --------------------------
(* Model-checking instances of ChannelReceive: a stream of one- and two-  *)
(* fragment messages long enough to wrap, or a single-bunch message        *)
(* followed by a two- or a three-fragment one.                             *)
EXTENDS ChannelReceive

MC_Gate == <<1, 2, 1, 1>>
MC_Fragmented == <<1, 2>>
MC_Long == <<1, 3>>
=============================================================================
