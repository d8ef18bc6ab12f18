------------------------------ MODULE MC_Session ------------------------------
EXTENDS Session

CONSTANTS k1, k2

(* Two cookies a Challenge can carry.  The server's raw sequence 65535 of *)
(* k1 is masked to 16383.  The client's control bunches Hello, Netspeed,  *)
(* Login, Join take the channel sequences                                  *)
(*   k1: 1021, 1022, 1023, 0     (Join lands on 0, which the gate always   *)
(*                                admits)                                   *)
(*   k2: 1022, 1023, 0, 1        (Login lands on 0 and resets in_reliable) *)
MC_CookieSeq ==
    [k \in {k1, k2} |-> IF k = k1 THEN [server |-> 65535, client |-> 1020]
                                  ELSE [server |-> 5, client |-> 17405]]
MC_CookiesJoinAtZero == {k1}
MC_CookiesLoginAtZero == {k2}
=============================================================================
