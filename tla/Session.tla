------------------------------- MODULE Session -------------------------------
(***************************************************************************)
(* One client session of the game server, from the first handshake       *)
(* datagram to the spawned player.                                          *)
(*                                                                         *)
(*  - the UDP task (net/udp_server.rs, UdpServer::on_receive) answers       *)
(*    handshake datagrams statelessly (stateless_connect_handler.rs) and    *)
(*    forwards an accepted Response and every game datagram to the cluster  *)
(*    thread over an mpsc channel (clusterQ, FIFO);                          *)
(*  - the cluster thread (logic/cluster.rs) creates a scope per             *)
(*    NewConnection (logic/scope.rs) and runs receive_packet for every     *)
(*    ReceivePacket: the control channel's reliable gate, then             *)
(*    World::notify_control_message for each control message               *)
(*    (Hello, Netspeed, Login, Join), then flush_net;                       *)
(*  - the login path: HTGameMode::pre_login / login / post_login and        *)
(*    GameSession::approve_login / register_player (logic/mode/).           *)
(*                                                                         *)
(* The Unreal client is the environment: it sends InitialPacket until it   *)
(* gets a Challenge, Response until it gets an Ack, then Hello; on         *)
(* NMT_Challenge it sends Netspeed and Login in one packet, on             *)
(* NMT_Welcome it sends Join.  It resends a handshake datagram or a        *)
(* reliable control packet when it has been lost (its resend timers fire   *)
(* after a round trip).  Datagrams in flight are sets: they are delivered   *)
(* in any order, lost (at most MaxLoss times) or duplicated (at most       *)
(* MaxDup times).  Acks are abstracted: a game packet is acked once the     *)
(* cluster thread has run received_packet on it.                           *)
(*                                                                         *)
(* Data is abstracted: a control message is its type, a cookie a model     *)
(* value with the two sequence numbers in its first four bytes, a world    *)
(* its player count, its spawned controllers and a connection its open     *)
(* actor channel indices.  World::tick (RPCs and actor replication) is     *)
(* left to the Replication module.                                          *)
(***************************************************************************)
EXTENDS Integers, Sequences, SequencesExt, FiniteSets

CONSTANTS
    Cookies,          \* cookies a Challenge can carry (one per random timestamp)
    NoCookie,         \* model value: the client has answered no Challenge yet
    CookieSeq,        \* cookie -> [server, client]: u16 read from its first four bytes
    MaxPlayers,       \* GameSession::default().max_players
    MaxSplitscreens,  \* GameSession::default().max_splitscreens_per_connection
    HasWeapon,        \* the configured character has a weapon (channel 11)
    ClientNetSpeed,   \* the rate the client reports in NMT_Netspeed
    DupHandshake,     \* the network may also duplicate handshake datagrams
    MaxLoss,          \* bound: datagrams lost
    MaxDup            \* bound: datagrams duplicated

ChMod == 1024     \* channel sequences are 10 bits

(* Datagrams. *)
Initial       == [kind |-> "Initial"]
Response(k)   == [kind |-> "Response", cookie |-> k]
ChallengeP(k) == [kind |-> "Challenge", cookie |-> k]
AckP(k)       == [kind |-> "Ack", cookie |-> k]
GamePkt(bs)   == [kind |-> "Game", bunches |-> bs]
NoPkt         == GamePkt(<< >>)

VARIABLES
    \* server: the UDP task and the cluster thread
    clusterQ,       \* ClusterInput messages not yet received by the cluster thread
    scope_counter,  \* LogicScopeManager.scope_counter
    scopes,         \* LogicScopeManager.scopes (ids; worlds are never removed)
    session_scope,  \* session_scopes[session]: 0 when absent
    conn,           \* the session's NetConnection in its current scope
    world,          \* the World of its current scope
    crashed,        \* a panic has ended the cluster thread
    ctlLog,         \* control bunches the server has put on the wire, in order
    \* client
    cHs,            \* "init", "responded", "connected"
    cCookie,        \* the cookie the client answered
    cOutRel,        \* client control channel out_reliable
    cInRel,         \* client control channel in_reliable
    cGot,           \* server control messages the client has accepted
    cLast,          \* its last control packet (resent until acked)
    \* network
    toServer, toClient, acked, losses, dups

serverVars == <<clusterQ, scope_counter, scopes, session_scope, conn, world,
                crashed, ctlLog>>
clientVars == <<cHs, cCookie, cOutRel, cInRel, cGot, cLast>>
netVars    == <<toServer, toClient, acked, losses, dups>>
vars       == <<serverVars, clientVars, netVars>>

-----------------------------------------------------------------------------
(* The sequences a Response's cookie carries: u16 from bytes 0..1 and     *)
(* 2..3, masked to the 14 bits of a packet sequence.                       *)
LastServerSequence(k) == CookieSeq[k].server % 16384
LastClientSequence(k) == CookieSeq[k].client % 16384

(* Fault model for the control channel's construction: the channel        *)
(* sequences taken from the packet sequences without the 10-bit mask.      *)
NewConnectionUnmasked(k) ==
    [in_reliable       |-> LastClientSequence(k),
     out_reliable      |-> LastServerSequence(k),
     init_out_reliable |-> LastServerSequence(k),
     unique_id         |-> FALSE,
     player_controller |-> FALSE,
     current_net_speed |-> 0,
     actor_channels    |-> {}]

(* NetConnection::new(session, 0, (server_seq, client_seq), output) with  *)
(* its control channel Channel::new(0, in_seq & 1023, out_seq & 1023) and *)
(* init_sequence.                                                          *)
NewConnection(k) ==
    [in_reliable       |-> LastClientSequence(k) % ChMod,
     out_reliable      |-> LastServerSequence(k) % ChMod,
     init_out_reliable |-> LastServerSequence(k) % ChMod,
     unique_id         |-> FALSE,
     player_controller |-> FALSE,
     current_net_speed |-> 0,
     actor_channels    |-> {}]

(* World::new::<HTGameMode>: a fresh GameSession, no players. *)
NewWorld == [cur_player_count |-> 0, controllers |-> 0]

(* GameSession::approve_login with the options login_options() returns   *)
(* (not a spectator, no splitscreen players).                               *)
AtCapacity(w) == w.cur_player_count >= MaxPlayers
ApproveLogin(w) == ~AtCapacity(w) /\ ~(0 > MaxSplitscreens)

(* Channel::next_out_reliable *)
NextOutReliable(c) == (c.out_reliable + 1) % ChMod

(* send_control_channel_reliable_bunch: the message takes the next       *)
(* reliable sequence and is queued as its own packet.                       *)
SendControl(st, m) ==
    LET seq == NextOutReliable(st.conn)
    IN  [st EXCEPT !.conn.out_reliable = seq,
                   !.out = Append(@, [msg |-> m, seq |-> seq])]

(* World::open_actor_channel_at: create_actor_channel(...).unwrap()      *)
(* panics when the index is busy.                                            *)
OpenActorChannelAt(st, i) ==
    IF st.crashed THEN st
    ELSE IF i \in st.conn.actor_channels THEN [st EXCEPT !.crashed = TRUE]
    ELSE [st EXCEPT !.conn.actor_channels = @ \cup {i}]

OpenActorChannels(st, idxs) == FoldLeft(OpenActorChannelAt, st, idxs)

(* HTGameMode::restart_player, called by post_login: channels for the    *)
(* controller, the pawn, the player state, then the weapon.               *)
RestartPlayer(st) ==
    OpenActorChannels(st, <<3, 4, 5>> \o (IF HasWeapon THEN <<11>> ELSE << >>))

(* Fault model for HTGameMode::login: the capacity check left to         *)
(* pre_login alone.                                                       *)
LoginUnchecked(st) ==
    [ok |-> TRUE,
     st |-> [st EXCEPT !.world.controllers = @ + 1, !.world.cur_player_count = @ + 1]]

(* HTGameMode::login: approve_login again ("Server full." is a            *)
(* LoginError), spawn the controller and its player state, and            *)
(* init_new_player -> register_player counts the player.                  *)
Login(st) ==
    IF ~ApproveLogin(st.world) THEN [ok |-> FALSE, st |-> st]
    ELSE [ok |-> TRUE,
          st |-> [st EXCEPT !.world.controllers = @ + 1, !.world.cur_player_count = @ + 1]]

(* World::spawn_play_actor: login, then post_login. *)
SpawnPlayActor(st) ==
    LET l == Login(st)
    IN  IF l.ok THEN [ok |-> TRUE, st |-> RestartPlayer(l.st)] ELSE l

(* World::notify_control_message *)
NotifyControlMessage(st, m) ==
    CASE m = "Hello"    -> SendControl(st, "Challenge")
      [] m = "Netspeed" -> [st EXCEPT !.conn.current_net_speed = ClientNetSpeed]
      [] m = "Login"    -> IF ApproveLogin(st.world)
                           THEN SendControl([st EXCEPT !.conn.unique_id = TRUE], "Welcome")
                           ELSE st
      [] m = "Join"     ->
            IF st.conn.player_controller \/ ~st.conn.unique_id THEN st
            ELSE LET sp == SpawnPlayActor(st)
                 IN  IF sp.ok THEN OpenActorChannels(sp.st, <<6, 7>>) ELSE sp.st

(* Fault model for the gate: sequence 0 no longer admitted unconditionally. *)
GateNewerOnly(c, b) == b.seq > c.in_reliable

(* The control channel's reliable gate (Channel::received_bunch). *)
ControlGate(c, b) == b.seq > c.in_reliable \/ b.seq = 0

(* One reliable control bunch: Channel::received_bunch's gate and         *)
(* in_reliable, then the message the ControlChannel decoded               *)
(* (control_channel.rs) goes to notify_control_message.                    *)
ReceivedControlBunch(st, b) ==
    IF st.crashed \/ ~ControlGate(st.conn, b) THEN st
    ELSE NotifyControlMessage([st EXCEPT !.conn.in_reliable = b.seq], b.msg)

(* NetConnection::dispatch_packet over the control bunches of a packet. *)
DispatchPacket(st, bs) == FoldLeft(ReceivedControlBunch, st, bs)

-----------------------------------------------------------------------------
(* LogicScopeManager::create_scope for an accepted Response. *)
CreateScope(k) ==
    /\ scope_counter' = scope_counter + 1
    /\ scopes' = scopes \cup {scope_counter + 1}
    /\ session_scope' = scope_counter + 1
    /\ conn' = NewConnection(k)
    /\ world' = NewWorld
    /\ UNCHANGED <<crashed, ctlLog, toClient, acked>>

(* cluster::receive_packet: received_packet (ack, dispatch_packet),      *)
(* world.tick, flush_net.  Every queued control bunch leaves in its own    *)
(* packet.  A panic unwinds the thread before the flush.                    *)
ReceivePacket(p) ==
    LET st == DispatchPacket([conn |-> conn, world |-> world, out |-> << >>,
                              crashed |-> FALSE], p.bunches)
    IN  /\ conn' = st.conn
        /\ world' = st.world
        /\ crashed' = st.crashed
        /\ IF st.crashed
           THEN UNCHANGED <<ctlLog, toClient, acked>>
           ELSE /\ ctlLog' = ctlLog \o st.out
                /\ toClient' = toClient \cup {GamePkt(<<b>>) : b \in ToSet(st.out)}
                /\ acked' = acked \cup {p}
        /\ UNCHANGED <<scope_counter, scopes, session_scope>>

(* cluster_logic_loop: one ClusterInput. *)
ClusterStep ==
    /\ ~crashed
    /\ clusterQ # << >>
    /\ clusterQ' = Tail(clusterQ)
    /\ LET in == Head(clusterQ)
       IN  IF in.kind = "NewConnection" THEN CreateScope(in.cookie)
           ELSE IF session_scope # 0 THEN ReceivePacket(in.pkt)
           ELSE UNCHANGED <<scope_counter, scopes, session_scope, conn, world,
                            crashed, ctlLog, toClient, acked>>
    /\ UNCHANGED <<clientVars, toServer, losses, dups>>

(* UdpServer::on_receive with stateless_connect_handler::on_receive: an  *)
(* InitialPacket gets a Challenge with a fresh cookie, a Response the Ack  *)
(* and a NewConnection; a game datagram goes to the cluster thread.  The   *)
(* datagram stays in flight when the network duplicates it.               *)
UdpReceive ==
    /\ ~crashed
    /\ \E d \in toServer, keep \in BOOLEAN :
        /\ keep => dups < MaxDup /\ (d.kind = "Game" \/ DupHandshake)
        /\ dups' = IF keep THEN dups + 1 ELSE dups
        /\ LET rest == IF keep THEN toServer ELSE toServer \ {d}
           IN  CASE d.kind = "Initial" ->
                      /\ \E k \in Cookies : toClient' = toClient \cup {ChallengeP(k)}
                      /\ toServer' = rest
                      /\ UNCHANGED clusterQ
                 [] d.kind = "Response" ->
                      /\ toClient' = toClient \cup {AckP(d.cookie)}
                      /\ clusterQ' = Append(clusterQ, [kind |-> "NewConnection",
                                                       cookie |-> d.cookie])
                      /\ toServer' = rest
                 [] OTHER ->
                      /\ clusterQ' = Append(clusterQ, [kind |-> "ReceivePacket", pkt |-> d])
                      /\ toServer' = rest
                      /\ UNCHANGED toClient
    /\ UNCHANGED <<scope_counter, scopes, session_scope, conn, world, crashed,
                   ctlLog, clientVars, acked, losses>>

-----------------------------------------------------------------------------
(* The Unreal client. *)
SeqNewer(a, b) == a # b /\ (a - b) % ChMod < ChMod \div 2

ClientSendInitial ==
    /\ cHs = "init"
    /\ Initial \notin toServer
    /\ \A k \in Cookies : ChallengeP(k) \notin toClient
    /\ toServer' = toServer \cup {Initial}
    /\ UNCHANGED <<serverVars, clientVars, toClient, acked, losses, dups>>

ClientResendResponse ==
    /\ cHs = "responded"
    /\ Response(cCookie) \notin toServer
    /\ AckP(cCookie) \notin toClient
    /\ toServer' = toServer \cup {Response(cCookie)}
    /\ UNCHANGED <<serverVars, clientVars, toClient, acked, losses, dups>>

(* A packet is in flight while it is on the wire or queued for the       *)
(* cluster thread.                                                          *)
InFlight(p) ==
    \/ p \in toServer
    \/ \E i \in 1 .. Len(clusterQ) : clusterQ[i] = [kind |-> "ReceivePacket", pkt |-> p]

ClientResendControl ==
    /\ cHs = "connected"
    /\ cLast \notin acked
    /\ ~InFlight(cLast)
    /\ toServer' = toServer \cup {cLast}
    /\ UNCHANGED <<serverVars, clientVars, toClient, acked, losses, dups>>

(* A control packet of consecutive reliable bunches. *)
ControlPacket(first, msgs) ==
    GamePkt([i \in 1 .. Len(msgs) |-> [msg |-> msgs[i], seq |-> (first + i) % ChMod]])

ClientSendControl(first, msgs) ==
    LET pkt == ControlPacket(first, msgs)
    IN  /\ cOutRel' = (first + Len(msgs)) % ChMod
        /\ cLast' = pkt
        /\ toServer' = toServer \cup {pkt}

(* A reliable bunch ahead of the next expected one waits in flight, as    *)
(* in the client's queue of out-of-order reliable bunches.                   *)
Waiting(d) ==
    d.kind = "Game" /\ cHs = "connected"
    /\ SeqNewer(d.bunches[1].seq, cInRel)
    /\ d.bunches[1].seq # (cInRel + 1) % ChMod

ClientReceive ==
    \E d \in toClient, keep \in BOOLEAN :
      /\ ~Waiting(d)
      /\ keep => dups < MaxDup /\ (d.kind = "Game" \/ DupHandshake)
      /\ dups' = IF keep THEN dups + 1 ELSE dups
      /\ toClient' = IF keep THEN toClient ELSE toClient \ {d}
      /\ CASE d.kind = "Challenge" /\ cHs = "init" ->
                /\ cHs' = "responded" /\ cCookie' = d.cookie
                /\ toServer' = toServer \cup {Response(d.cookie)}
                /\ UNCHANGED <<cOutRel, cInRel, cGot, cLast>>
           [] d.kind = "Ack" /\ cHs = "responded" ->
                /\ cHs' = "connected"
                /\ cInRel' = LastServerSequence(cCookie) % ChMod
                /\ ClientSendControl(LastClientSequence(cCookie) % ChMod, <<"Hello">>)
                /\ UNCHANGED <<cCookie, cGot>>
           [] d.kind = "Game" /\ cHs = "connected"
                /\ SeqNewer(d.bunches[1].seq, cInRel) ->
                LET m == d.bunches[1].msg
                IN  /\ cInRel' = d.bunches[1].seq
                    /\ cGot' = cGot \cup {m}
                    /\ IF m \in cGot THEN UNCHANGED <<toServer, cOutRel, cLast>>
                       ELSE IF m = "Challenge" THEN ClientSendControl(cOutRel, <<"Netspeed", "Login">>)
                       ELSE ClientSendControl(cOutRel, <<"Join">>)
                    /\ UNCHANGED <<cHs, cCookie>>
           [] OTHER -> UNCHANGED <<clientVars, toServer>>
      /\ UNCHANGED <<serverVars, acked, losses>>

(* Loss.  The server never resends a reliable bunch (its NAK handling is  *)
(* commented out, packet_notify.rs:109-115), so only the client's         *)
(* datagrams and the handshake replies, which the client's timers cover,  *)
(* are lost.                                                                *)
Lose ==
    /\ losses < MaxLoss
    /\ losses' = losses + 1
    /\ \/ \E d \in toServer : toServer' = toServer \ {d} /\ UNCHANGED toClient
       \/ \E d \in toClient : d.kind # "Game" /\ toClient' = toClient \ {d}
                              /\ UNCHANGED toServer
    /\ UNCHANGED <<serverVars, clientVars, acked, dups>>

-----------------------------------------------------------------------------
Init ==
    /\ clusterQ = << >>
    /\ scope_counter = 0
    /\ scopes = {}
    /\ session_scope = 0
    /\ conn = NewConnection(CHOOSE k \in Cookies : TRUE)
    /\ world = NewWorld
    /\ crashed = FALSE
    /\ ctlLog = << >>
    /\ cHs = "init"
    /\ cCookie = NoCookie
    /\ cOutRel = 0
    /\ cInRel = 0
    /\ cGot = {}
    /\ cLast = NoPkt
    /\ toServer = {}
    /\ toClient = {}
    /\ acked = {NoPkt}
    /\ losses = 0
    /\ dups = 0

Next ==
    \/ UdpReceive
    \/ ClusterStep
    \/ ClientSendInitial
    \/ ClientResendResponse
    \/ ClientResendControl
    \/ ClientReceive
    \/ Lose

Spec == Init /\ [][Next]_vars

(* The UDP task and the cluster thread loop on their inputs; the client's *)
(* resend timers keep firing while it waits and it reads what arrives.    *)
FairSpec ==
    /\ Spec
    /\ WF_vars(UdpReceive) /\ WF_vars(ClusterStep) /\ WF_vars(ClientReceive)
    /\ WF_vars(ClientSendInitial) /\ WF_vars(ClientResendResponse)
    /\ WF_vars(ClientResendControl)

-----------------------------------------------------------------------------
Msgs == {"Hello", "Netspeed", "Login", "Join", "Challenge", "Welcome"}
Bunch == [msg : Msgs, seq : 0 .. ChMod - 1]
IsDatagram(d) ==
    \/ d = Initial
    \/ d.kind \in {"Response", "Challenge", "Ack"} /\ d.cookie \in Cookies
    \/ d.kind = "Game" /\ d.bunches \in Seq(Bunch)

TypeOK ==
    /\ conn.in_reliable \in 0 .. ChMod - 1
    /\ conn.out_reliable \in 0 .. ChMod - 1
    /\ conn.actor_channels \subseteq {3, 4, 5, 6, 7, 11}
    /\ world.cur_player_count \in Nat /\ world.controllers \in Nat
    /\ session_scope \in 0 .. scope_counter /\ scopes \subseteq 1 .. scope_counter
    /\ ctlLog \in Seq(Bunch)
    /\ cHs \in {"init", "responded", "connected"}
    /\ cGot \subseteq {"Challenge", "Welcome"}
    /\ \A d \in toServer \cup toClient : IsDatagram(d)

(* The login stage the server has reached for the session (the refinement *)
(* mapping to LoginProgress): read off the current scope's connection and  *)
(* world.                                                                   *)
LoginStage ==
    IF session_scope = 0 THEN 0
    ELSE IF world.controllers > 0 THEN 4
    ELSE IF conn.unique_id THEN 3
    ELSE IF conn.out_reliable # conn.init_out_reliable THEN 2
    ELSE 1

Progress == INSTANCE LoginProgress WITH stage <- LoginStage

(* Session implements LoginProgress: the server takes the client through   *)
(* connection, NMT_Challenge, NMT_Welcome and the spawned player one stage *)
(* at a time, never loses a stage, and gets there under the client's       *)
(* resends, lost and duplicated datagrams and reliable sequences that wrap *)
(* at 1024 (where the gate of Channel::received_bunch admits 0 always).    *)
LoginRefinesProgress == Progress!Spec

(* A world never spawns more player controllers than GameSession allows   *)
(* (max_players), even when the control channel's gate lets a duplicated  *)
(* NMT_Join through: HTGameMode::login repeats approve_login because       *)
(* connection.player_controller is never set.                               *)
AtMostMaxPlayers == world.controllers <= MaxPlayers

(* The control bunches the server puts on the wire for a session are       *)
(* numbered one after another: the client drops a bunch whose reliable     *)
(* sequence it has already seen (spec 4.5), so a repeated number loses a   *)
(* message.                                                                 *)
ControlSequenceAdvances ==
    \A j \in 2 .. Len(ctlLog) : ctlLog[j].seq = (ctlLog[j - 1].seq + 1) % ChMod
=============================================================================
