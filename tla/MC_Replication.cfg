CONSTANTS
    StaticChains <- MC_StaticChains
    DynamicNames <- MC_DynamicNames
    MapName <- MC_MapName
    ActorGuid = 4
    ArchetypeGuid = 7
    ArchetypeLayout <- MC_ArchetypeLayout
    SubObjectLayouts <- MC_SubObjectLayouts
    ControlsPlayer = 0
    PersistentLevel <- MC_PersistentLevel
    RpcIndices <- MC_RpcIndices
    ChannelIndex = 3
    InitOutReliable = 1020
    MaxDataBits = 128
    Values = {1, 2}
    MaxSets = 2
    MaxRpcs = 1
    IterationOrders <- MC_IterationOrders
    InitInReliable = 1023
    ServerRpcs = {173, 180}
    RpcHandlers <- MC_RpcHandlers
    MaxServerRpcs = 1
    ActorPosition <- MC_ActorPosition

SPECIFICATION FairSpec

\* The connection stops once nothing is left to replicate: tick_network
\* keeps running but sends nothing.
CHECK_DEADLOCK FALSE

INVARIANTS
    TypeOK
    ClientNeverDesyncs
    ExportsAgree
    ClientMirrorsServer
    DataBunchesFit
    ClientRpcsHandledOnce
    ClientSpawnsAtActorPosition

PROPERTIES
    ReplicationConverges
