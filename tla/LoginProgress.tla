---------------------------- MODULE LoginProgress ----------------------------
(***************************************************************************)
(* What the server promises one Unreal client that completes the          *)
(* stateless handshake: its login moves forward one stage at a time and   *)
(* eventually reaches the stage where a player controller is spawned and  *)
(* the player's actor channels are open.  Session implements it.          *)
(*                                                                         *)
(*   0  no scope for the session                                           *)
(*   1  a scope (World + NetConnection) serves the session                 *)
(*   2  the server has answered NMT_Hello with NMT_Challenge               *)
(*   3  the server has approved NMT_Login and sent NMT_Welcome             *)
(*   4  NMT_Join has spawned the player                                    *)
(***************************************************************************)
EXTENDS Naturals

VARIABLE stage

Joined == 4

Init == stage = 0

Advance ==
    /\ stage < Joined
    /\ stage' = stage + 1

Spec == Init /\ [][Advance]_stage /\ WF_stage(Advance)
=============================================================================
