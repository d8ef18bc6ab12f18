----------------------------- MODULE Replication -----------------------------
(***************************************************************************)
(* One actor channel of a connection, from the server's World to an Unreal *)
(* client: the package-map exports queued when the channel opens, the     *)
(* replication tick that serializes changed objects and queued RPCs, the  *)
(* split of large bunches into a partial group, the reliable numbering,   *)
(* and the bits of every packet.  The client reads the packets back as    *)
(* Unreal does, and calls server RPCs on the actor, which the server      *)
(* receives and hands to their handlers in World::tick_rpc.               *)
(*                                                                         *)
(* Everything on the wire is bit-exact (module BitStream).  A replicated  *)
(* property is a u8; a custom property or an RPC carries one u8 of data.  *)
(* Packets arrive in order and none is lost, either way: the reliable    *)
(* gate under loss and reordering is the subject of ChannelReceive.       *)
(***************************************************************************)
EXTENDS Integers, Sequences, SequencesExt, FiniteSets, TLC, BitStream, Quantized

CONSTANTS
    StaticChains,     \* the path chains register_hierarchy_for_static_objects is called with, in order
    DynamicNames,     \* names of the dynamic GUIDs assigned, in order (<<>> for None)
    MapName,          \* the map name the cache tests paths against
    ActorGuid,        \* the channel's actor, spawned as Dynamic
    ArchetypeGuid,    \* its archetype object
    ArchetypeLayout,  \* the archetype's rep layout
    SubObjectLayouts, \* sub-object GUID -> rep layout
    ControlsPlayer,   \* the NetPlayerIndex the actor controls, or -1
    PersistentLevel,  \* path of the PersistentLevel static object
    RpcIndices,       \* object GUID -> rep indices of its RPCs
    ChannelIndex,     \* the channel's index on the connection
    InitOutReliable,  \* the connection's init_out_reliable
    MaxDataBits,      \* Bunch::MAX_DATA_BITS, scaled down
    Values,           \* u8 values properties and RPC data take
    MaxSets,          \* bound on set_value calls
    MaxRpcs,          \* bound on queued RPCs
    IterationOrders,  \* orders of GUIDs a HashMap of the package map may iterate in
    InitInReliable,   \* the connection's init_in_reliable
    ServerRpcs,       \* rep indices of the server RPCs the client calls on the actor
    RpcHandlers,      \* GUID -> rep index -> RPCs its server handler queues on the object
    MaxServerRpcs,    \* bound on server RPCs the client calls
    ActorPosition     \* the actor's spawn location, in tenths of a unit

\* ActorPosition[k] / PositionDen is the f64 the game mode passes.
PositionDen == 10

ASSUME PackedVectorFits(ActorPosition, PositionDen, 10)

-----------------------------------------------------------------------------
(* FNetworkGUID and NetGUIDCache                                          *)

CreateFromIndex(index, isStatic) == 2 * index + (IF isStatic THEN 1 ELSE 0)

IsDynamic(g) == g > 0 /\ g % 2 = 0
IsValid(g)   == g > 0

\* NetGUIDCache::contains_map: the path holds the map name.
ContainsMap(path) ==
    \E i \in 0..(Len(path) - Len(MapName)) : SubSeq(path, i + 1, i + Len(MapName)) = MapName

\* get_or_assign_net_guid_for_static: a path already in the cache keeps
\* its GUID, any other is assigned the next one.
GetOrAssignStatic(paths, path) ==
    IF \E i \in 1..Len(paths) : paths[i] = path THEN paths ELSE Append(paths, path)

\* World::register_hierarchy_for_static_objects for each chain, in order:
\* the paths given static GUIDs, in the order they were assigned.
StaticPaths == FoldLeft(LAMBDA ps, chain : FoldLeft(GetOrAssignStatic, ps, chain), <<>>, StaticChains)

\* assign_new_net_guid_from_path for StaticPaths[i] (the index starts at 1
\* and is incremented first), assign_new_net_guid_for_dynamic_object for
\* the i-th dynamic object (named or not, always no_load).
StaticGuid(i)  == CreateFromIndex(i + 1, TRUE)
DynamicGuid(i) == CreateFromIndex(i + 1, FALSE)

CacheGuids == {StaticGuid(i) : i \in 1..Len(StaticPaths)} \cup {DynamicGuid(i) : i \in 1..Len(DynamicNames)}

CacheObject(g) ==
    IF IsDynamic(g)
    THEN [path |-> DynamicNames[CHOOSE i \in 1..Len(DynamicNames) : DynamicGuid(i) = g], noLoad |-> TRUE]
    ELSE LET i == CHOOSE i \in 1..Len(StaticPaths) : StaticGuid(i) = g
         IN  [path |-> StaticPaths[i], noLoad |-> ContainsMap(StaticPaths[i])]

\* find_static_guid_by_path_name.
FindStaticGuid(path) == StaticGuid(CHOOSE i \in 1..Len(StaticPaths) : StaticPaths[i] = path)

-----------------------------------------------------------------------------
(* World: the objects spawn_actor creates for a Dynamic actor            *)

\* A rep layout: its handles, its custom (rep index) fields, max_rep_index
\* (1 when the struct declares none), the GUID its on_channel_open
\* exports (0 for the default, which exports nothing), and its
\* PropertyObject handles with the GUID set on them before the spawn (the
\* other handles are u8 fields).
NullLayout == [handles |-> {}, custom |-> {}, maxRepIndex |-> 1, onOpen |-> 0, objects |-> <<>>]

\* spawn_actor(Dynamic): the actor's own object has a NullLayout and the
\* sub-objects plus the archetype; the archetype and each sub-object get
\* their layouts.
Objects == {ActorGuid, ArchetypeGuid} \cup DOMAIN SubObjectLayouts

Layout(g) ==
    IF g = ActorGuid THEN NullLayout
    ELSE IF g = ArchetypeGuid THEN ArchetypeLayout
    ELSE SubObjectLayouts[g]

SubObjects(g) == IF g = ActorGuid THEN DOMAIN SubObjectLayouts \cup {ArchetypeGuid} ELSE {}

\* RepLayout::is_empty: no field has a handle.
IsEmpty(g) == Layout(g).handles = {}

\* The replicated properties: a handle field or a custom (rep index) field.
Props == UNION {{<<g, "handle", h>> : h \in Layout(g).handles} : g \in Objects}
           \cup UNION {{<<g, "custom", i>> : i \in Layout(g).custom} : g \in Objects}

\* The PropertyObject fields, and the GUID spawn_player_controller_common
\* gives each (player_state.set_value(state_guid)).
ObjectProps == UNION {{<<g, "handle", h>> : h \in DOMAIN Layout(g).objects} : g \in Objects}
ObjectValue(p) == Layout(p[1]).objects[p[3]]

\* A field's value and changed flag when the channel opens: a PropertyObject
\* is default (GUID 0) until that set_value, which marks it changed when
\* the GUID differs; the u8 fields keep the value new() gave them.
InitValue(p)   == IF p \in ObjectProps THEN ObjectValue(p) ELSE Min(Values)
InitChanged(p) == p \in ObjectProps /\ ObjectValue(p) # 0

\* The values a field can hold.
FieldValues == Values \cup {ObjectValue(p) : p \in ObjectProps}

\* ClassHierarchy::new and child: the GUIDs of a chain, outermost first.
ChainGuids(chain) == [k \in 1..Len(chain) |-> FindStaticGuid(chain[k])]

\* World::register_hierarchy: each GUID of the chain is inserted as the
\* inner of the one before it; an insert replaces an earlier one.
RegisterHierarchy(h, guids) ==
    FoldLeft(LAMBDA m, k : (guids[k] :> guids[k - 1]) @@ m, h, [k \in 1..(Len(guids) - 1) |-> k + 1])

\* World::class_hierarchy after every register_hierarchy_for_static_objects.
ClassHierarchy == FoldLeft(LAMBDA h, chain : RegisterHierarchy(h, ChainGuids(chain)), <<>>, StaticChains)

\* World::class_hierarchy after spawn_actor: a dynamic sub-object is a
\* child of the actor.
Hierarchy ==
    LET inner == DOMAIN ClassHierarchy \cup {g \in DOMAIN SubObjectLayouts : IsDynamic(g)}
    IN  [g \in inner |-> IF g \in DOMAIN ClassHierarchy THEN ClassHierarchy[g] ELSE ActorGuid]

\* World::export_guid: the GUID, then its outers up the class hierarchy.
RECURSIVE ExportGuid(_)
ExportGuid(g) ==
    <<[guid |-> g, path |-> CacheObject(g).path, noLoad |-> CacheObject(g).noLoad]>>
      \o (IF g \in DOMAIN Hierarchy THEN ExportGuid(Hierarchy[g]) ELSE <<>>)

\* Ascending order stands for the iteration order of a HashSet.
Ascending(S) == SetToSortSeq(S, <)

\* Object::on_channel_open: the chains it exports, in order.  A dynamic
\* actor exports the PersistentLevel, a valid GUID itself; then every
\* sub-object, and the sub-object's own sub-objects with INVALID; last
\* what the layout's own on_channel_open exports (PlayerControllerBase
\* exports its hud).
RECURSIVE ChannelOpenChains(_, _)
ChannelOpenChains(own, g) ==
    LET self == IF IsDynamic(own) THEN <<ExportGuid(FindStaticGuid(PersistentLevel))>>
                ELSE IF IsValid(own) THEN <<ExportGuid(own)>> ELSE <<>>
        subs == Ascending(SubObjects(g))
    IN  self \o FlattenSeq([i \in 1..Len(subs) |->
                  <<ExportGuid(subs[i])>> \o ChannelOpenChains(0, subs[i])])
             \o (IF IsValid(Layout(g).onOpen) THEN <<ExportGuid(Layout(g).onOpen)>> ELSE <<>>)

-----------------------------------------------------------------------------
(* Package map: the pending FNetFieldExportGroup of the channel.  A group *)
(* is a function from GUID to FNetFieldExport.                            *)

\* ActorChannel::export_net_guid: every element of the chain becomes a
\* field whose outer is the next element; only the chain's head is
\* encoded, and the head must be mapped unless it is no_load.  `ex` is the
\* channel's [fields, mbm]; exported_guids is written but never read.
ExportNetGuid(ex, chain) ==
    LET head  == chain[1]
        at(g) == CHOOSE i \in 1..Len(chain) : chain[i].guid = g
        field(i) == [path         |-> chain[i].path,
                     hasPath      |-> chain[i].path # <<>>,
                     noLoad       |-> chain[i].path = <<>> \/ chain[i].noLoad,
                     outer        |-> IF i < Len(chain) THEN chain[i + 1].guid ELSE 0,
                     shouldEncode |-> chain[i].guid = head.guid]
        guids == {chain[i].guid : i \in 1..Len(chain)}
    IN  [fields |-> [g \in guids |-> field(at(g))] @@ ex.fields,
         mbm    |-> IF head.noLoad THEN ex.mbm ELSE ex.mbm \cup {head.guid}]

\* ExportFlags as the byte export writes; export_net_guid never sets the
\* network checksum flag.
Flags(f) == (IF f.hasPath THEN 1 ELSE 0) + (IF f.noLoad THEN 2 ELSE 0)

Encoded(fields) == {g \in DOMAIN fields : fields[g].shouldEncode}

(* Fault model for FNetFieldExport::export: the outer GUID left out (an *)
(* INVALID outer written and its export skipped).                         *)
FieldBitsWithoutOuter(g, fields) ==
    IF ~IsValid(g) THEN <<>>
    ELSE LET f == fields[g]
         IN  Bits(Flags(f), 8)
               \o (IF ~f.hasPath THEN <<>> ELSE WritePackedInt(0) \o WriteString(f.path))

\* FNetFieldExport::export: the flags, and with a path the packed outer,
\* the outer's own export when the group holds it, and the path.
RECURSIVE FieldBits(_, _)
FieldBits(g, fields) ==
    IF ~IsValid(g) THEN <<>>
    ELSE LET f == fields[g]
         IN  Bits(Flags(f), 8)
               \o (IF ~f.hasPath THEN <<>>
                   ELSE WritePackedInt(f.outer)
                          \o (IF IsValid(f.outer) /\ f.outer \in DOMAIN fields
                              THEN FieldBits(f.outer, fields) ELSE <<>>)
                          \o WriteString(f.path))

\* FNetFieldExport::encoded_size_in_bits.
RECURSIVE FieldSize(_, _)
FieldSize(g, fields) ==
    IF ~IsValid(g) THEN 0
    ELSE LET f == fields[g]
         IN  8 + (IF ~f.hasPath THEN 0
                  ELSE PackedIntSizeInBits(f.outer) + (32 + 8 + Len(f.path) * 8)
                         + (IF IsValid(f.outer) /\ f.outer \in DOMAIN fields
                            THEN FieldSize(f.outer, fields) ELSE 0))

\* FNetFieldExportGroup::encoded_size_in_bits.
GroupSize(fields) ==
    1 + 32 + MapThenSumSet(LAMBDA g : PackedIntSizeInBits(g) + FieldSize(g, fields), Encoded(fields))

\* The encoded GUIDs of a group in the map's iteration order `order`.
InOrder(fields, order) == SelectSeq(order, LAMBDA g : g \in Encoded(fields))

\* FNetFieldExportGroup::export.
GroupExport(fields, order) ==
    LET enc == InOrder(fields, order)
    IN  <<0>> \o Bits(Len(enc), 32)
          \o FlattenSeq([i \in 1..Len(enc) |-> WritePackedInt(enc[i]) \o FieldBits(enc[i], fields)])

\* The while loop of split_to_fit: pop_next_encoded_export moves the first
\* encoded field in iteration order while the new group is under max_size
\* and what is left is over it.
RECURSIVE PopToFit(_, _, _, _)
PopToFit(new, self, order, max) ==
    IF GroupSize(new) < max /\ GroupSize(self) > max /\ Encoded(self) # {}
    THEN LET g == Head(InOrder(self, order))
         IN  PopToFit((g :> self[g]) @@ new, Restrict(self, DOMAIN self \ {g}), order, max)
    ELSE [new |-> new, self |-> self]

\* `while let Some(sub_group) = export_group.split_to_fit(max)`: the groups
\* split_to_fit returns until it returns None.  A group that fits is taken
\* whole; otherwise a new group gets every non-encoded field and the
\* popped ones.
RECURSIVE SplitToFit(_, _, _)
SplitToFit(fields, order, max) ==
    IF Encoded(fields) = {} THEN <<>>
    ELSE IF GroupSize(fields) <= max THEN <<fields>>
    ELSE LET r == PopToFit(Restrict(fields, DOMAIN fields \ Encoded(fields)), fields, order, max)
         IN  <<r.new>> \o SplitToFit(r.self, order, max)

\* Bunch::default.
EmptyBunch ==
    [control |-> FALSE, open |-> FALSE, reliable |-> FALSE, exports |-> FALSE,
     mbm |-> FALSE, partial |-> FALSE, partialInitial |-> FALSE, partialFinal |-> FALSE,
     seq |-> 0, dataBits |-> 0, exportBuf |-> <<>>, exportBits |-> 0, data |-> <<>>]

\* make_net_field_export_bunch: add_network_exports writes the group with a
\* termination bit; refresh_data_bits_num(&[]) counts the exports alone.
MakeNetFieldExportBunch(fields, order) ==
    LET buf  == ByteAlign(GroupExport(fields, order) \o <<1>>)
        bits == GetBitsFromTerminatedStream(buf)
    IN  [EmptyBunch EXCEPT !.exports = TRUE, !.exportBuf = buf, !.exportBits = bits,
                           !.dataBits = bits + GetBitsFromTerminatedStream(<<>>)]

-----------------------------------------------------------------------------
(* State                                                                   *)

VARIABLES
    value,        \* Props -> FieldValues: the properties' values
    changed,      \* Props -> BOOLEAN: the properties' changed flags
    rpcQueue,     \* Objects -> Seq([index, arg]): Object::queued_rpcs
    rpcLog,       \* every RPC queued so far, as <<object, index, arg>>
    sets,         \* set_value calls so far
    opened,       \* the channel exists (open_actor_channel_at has run)
    exportFields, \* pending_export_group: GUID -> FNetFieldExport
    mbm,          \* must_be_mapped_guids
    spawnSent,    \* spawn_bunch_sent
    openSent,     \* open_bunch_sent
    initialSent,  \* initial_bunches_sent_for_guids
    outReliable,  \* the channel's out_reliable
    wire,         \* packets sent and not yet read by the client, in order
    cInReliable,  \* client: last reliable sequence received on the channel
    cPartial,     \* client: the partial bunch being merged, or NoPartial
    cCache,       \* client: GUID -> [path, outer] registered from exports
    cSpawned,     \* client: the actor has been spawned from an open bunch
    cValue,       \* client: Props -> FieldValues \cup {NoValue}
    cRpcs,        \* client: RPCs received, as <<object, index, arg>>
    cErrors,      \* client: kinds of failure met while reading
    cPosition,    \* client: the spawned actor's location, as [num, den] records
    cOutReliable, \* client: its out_reliable on the channel
    cCalls,       \* client: the server RPCs it called, in order
    up,           \* packets from the client not yet received, each with the call it carries
    sInReliable,  \* the channel's in_reliable
    handled,      \* the server RPCs whose handler tick_rpc ran, in order
    ticking       \* receive_packet is between tick_rpc and tick_network

server == <<value, changed, rpcQueue, rpcLog, sets, opened, exportFields, mbm,
            spawnSent, openSent, initialSent, outReliable, sInReliable, handled, ticking>>
client == <<cInReliable, cPartial, cCache, cSpawned, cValue, cRpcs, cErrors, cPosition, cOutReliable, cCalls>>
vars   == <<server, wire, up, client>>

-----------------------------------------------------------------------------
(* Serialization of the objects (replication.rs, codegen rep_layout.rs)   *)

HandleProp(g, h) == <<g, "handle", h>>
CustomProp(g, i) == <<g, "custom", i>>

\* rep_layout_changed and custom_properties_changed.
LayoutChanged(g) == \E h \in Layout(g).handles : changed[HandleProp(g, h)]
CustomChanged(g) == \E i \in Layout(g).custom : changed[CustomProp(g, i)]

\* ReplicatedProperty::serialize of a u8 property: write_u8.
SerializeU8(v) == Bits(v, 8)

\* PropertyObject::serialize: write_packed_int of the GUID's value.
SerializePropertyObject(v) == WritePackedInt(v)

\* The bits of a handle field's value.
SerializeField(p) ==
    IF p \in ObjectProps THEN SerializePropertyObject(value[p]) ELSE SerializeU8(value[p])

(* Fault model for serialize_layout_properties: `full` ignored, only    *)
(* the changed handles written.                                           *)
LayoutBitsChangedOnly(g, full) ==
    LET hs == SelectSeq(Ascending(Layout(g).handles), LAMBDA h : changed[HandleProp(g, h)])
    IN  FlattenSeq([k \in 1..Len(hs) |-> WritePackedInt(hs[k]) \o SerializeField(HandleProp(g, hs[k]))])
          \o WritePackedInt(0)

\* serialize_layout_properties: every handle that is sent in full or has
\* changed, as its packed handle and its value, then the null handle.
\* The fields are taken in ascending handle order, the order the layouts
\* declare them in.
LayoutBits(g, full) ==
    LET hs == SelectSeq(Ascending(Layout(g).handles), LAMBDA h : full \/ changed[HandleProp(g, h)])
    IN  FlattenSeq([k \in 1..Len(hs) |-> WritePackedInt(hs[k]) \o SerializeField(HandleProp(g, hs[k]))])
          \o WritePackedInt(0)

\* A u8 serialized on its own stream with a termination bit.
TerminatedU8(v) == ByteAlign(SerializeU8(v) \o <<1>>)

\* An RPC with one u8 argument (rpc_handlers codegen): the has-arguments
\* bit, the argument, the termination bit.
RpcData(v) == ByteAlign(<<1>> \o Bits(v, 8) \o <<1>>)

\* serialize_custom_properties: the fields sent in full or changed.
CustomProps(g, full) ==
    LET is == SelectSeq(Ascending(Layout(g).custom), LAMBDA i : full \/ changed[CustomProp(g, i)])
    IN  [k \in 1..Len(is) |-> [index |-> is[k], data |-> TerminatedU8(value[CustomProp(g, is[k])])]]

\* One custom property or RPC in the replicator payload.
Entry(g, e) ==
    LET size == GetBitsFromTerminatedStream(e.data)
    IN  WriteCompressedInt(e.index, Layout(g).maxRepIndex + 1) \o WritePackedInt(size) \o WriteBits(e.data, size)

(* Fault model for serialize_object: no bStablyNamed bit after a        *)
(* sub-object's GUID.                                                      *)
SerializeObjectUnnamed(g, isActor, full) ==
    LET hasRep  == ~IsEmpty(g) /\ (full \/ LayoutChanged(g))
        rpcs    == [k \in 1..Len(rpcQueue[g]) |-> [index |-> rpcQueue[g][k].index,
                                                   data  |-> RpcData(rpcQueue[g][k].arg)]]
        entries == CustomProps(g, full) \o rpcs
        payload == ByteAlign((IF hasRep THEN <<0>> \o LayoutBits(g, full) ELSE <<>>)
                               \o FlattenSeq([k \in 1..Len(entries) |-> Entry(g, entries[k])])
                               \o <<1>>)
        bits    == GetBitsFromTerminatedStream(payload)
    IN  <<IF hasRep THEN 1 ELSE 0, IF isActor THEN 1 ELSE 0>>
          \o (IF isActor THEN <<>> ELSE WritePackedInt(g))
          \o WritePackedInt(bits) \o WriteBits(payload, bits)

\* serialize_object: the content block header, then the payload size and
\* the payload (the layout, the custom properties, the queued RPCs).
SerializeObject(g, isActor, full) ==
    LET hasRep  == ~IsEmpty(g) /\ (full \/ LayoutChanged(g))
        rpcs    == [k \in 1..Len(rpcQueue[g]) |-> [index |-> rpcQueue[g][k].index,
                                                   data  |-> RpcData(rpcQueue[g][k].arg)]]
        entries == CustomProps(g, full) \o rpcs
        payload == ByteAlign((IF hasRep THEN <<0>> \o LayoutBits(g, full) ELSE <<>>)
                               \o FlattenSeq([k \in 1..Len(entries) |-> Entry(g, entries[k])])
                               \o <<1>>)
        bits    == GetBitsFromTerminatedStream(payload)
    IN  <<IF hasRep THEN 1 ELSE 0, IF isActor THEN 1 ELSE 0>>
          \o (IF isActor THEN <<>> ELSE WritePackedInt(g) \o <<1>>)
          \o WritePackedInt(bits) \o WriteBits(payload, bits)

-----------------------------------------------------------------------------
(* ActorChannel::tick                                                      *)

\* World::any_sub_object_has_changes / any_sub_object_has_queued_rpc over
\* the actor's object tree.
RECURSIVE Tree(_)
Tree(g) == {g} \cup UNION {Tree(s) : s \in SubObjects(g)}

(* Fault model for should_send_bunch: queued RPCs not looked at.        *)
ShouldSendBunchIgnoringRpcs ==
    \/ ~spawnSent
    \/ \E g \in Tree(ActorGuid) : LayoutChanged(g) \/ CustomChanged(g)

\* should_send_bunch.
ShouldSendBunch ==
    \/ ~spawnSent
    \/ \E g \in Tree(ActorGuid) : rpcQueue[g] # <<>>
    \/ \E g \in Tree(ActorGuid) : LayoutChanged(g) \/ CustomChanged(g)

\* write_objects: the objects in depth-first order from the actor, each
\* set iterated in ascending order.
RECURSIVE DepthFirst(_)
DepthFirst(S) ==
    LET gs == Ascending(S)
    IN  FlattenSeq([k \in 1..Len(gs) |-> <<gs[k]>> \o DepthFirst(SubObjects(gs[k]))])

\* The condition under which write_objects writes an object.
IsWritten(g) ==
    /\ ActorGuid # g \/ g = ArchetypeGuid
    /\ ~IsEmpty(g) \/ rpcQueue[g] # <<>> \/ IsDynamic(g)

WrittenObjects == SelectSeq(DepthFirst({ActorGuid}), IsWritten)

WriteObjects ==
    LET ws == WrittenObjects
    IN  FlattenSeq([k \in 1..Len(ws) |-> SerializeObject(ws[k], ws[k] = ArchetypeGuid, ws[k] \notin initialSent)])

\* flush_pending_mapped_guids: a u16 count and the packed GUIDs.
MappedGuidsBits ==
    IF mbm = {} THEN <<>>
    ELSE LET gs == Ascending(mbm)
         IN  Bits(Len(gs), 16) \o FlattenSeq([k \in 1..Len(gs) |-> WritePackedInt(gs[k])])

\* serialize_new_actor: the actor, and for a dynamic actor its archetype,
\* the level GUID 3 and the transform: a location that is not zero as a
\* quantized packed vector at scale 10, and the flags of the rotation
\* (every spawn in the game mode passes FRotator::default(), which
\* should_serialize rejects), the scale and the velocity; then
\* Actor::on_channel_opened writes the index of the player the actor
\* controls.
SerializeNewActor ==
    WritePackedInt(ActorGuid)
      \o (IF IsDynamic(ActorGuid)
          THEN WritePackedInt(ArchetypeGuid) \o WritePackedInt(3)
                 \o (IF IsZero(ActorPosition) THEN <<0>>
                     ELSE <<1, 1>> \o WritePackedVector(ActorPosition, PositionDen, 10))
                 \o <<0, 0, 0>>
          ELSE <<>>)
      \o (IF ControlsPlayer >= 0 THEN Bits(ControlsPlayer, 8) ELSE <<>>)

\* The data of the bunch tick queues, terminated and aligned.
TickData ==
    ByteAlign(MappedGuidsBits \o (IF spawnSent THEN <<>> ELSE SerializeNewActor)
                \o WriteObjects \o <<1>>)

-----------------------------------------------------------------------------
(* remove_queued_bunches and send_raw_bunch                               *)

(* Fault model for split_bunch_data: chunks one byte over MAX_DATA_BITS. *)
SplitBunchDataOversized(data, bits) ==
    IF bits > MaxDataBits
    THEN [k \in 1..((bits + MaxDataBits + 7) \div (MaxDataBits + 8)) |->
            LET size == IF bits - (k - 1) * (MaxDataBits + 8) < MaxDataBits + 8
                        THEN bits - (k - 1) * (MaxDataBits + 8) ELSE MaxDataBits + 8
            IN  [data |-> ReadBits(data, (k - 1) * (MaxDataBits + 8) + 1, size).value, bits |-> size]]
    ELSE <<[data |-> data, bits |-> bits]>>

\* split_bunch_data: chunks of MAX_DATA_BITS read off the data.
SplitBunchData(data, bits) ==
    IF bits > MaxDataBits
    THEN [k \in 1..((bits + MaxDataBits - 1) \div MaxDataBits) |->
            LET size == IF bits - (k - 1) * MaxDataBits < MaxDataBits
                        THEN bits - (k - 1) * MaxDataBits ELSE MaxDataBits
            IN  [data |-> ReadBits(data, (k - 1) * MaxDataBits + 1, size).value, bits |-> size]]
    ELSE <<[data |-> data, bits |-> bits]>>

\* ActorChannel::remove_queued_bunches before prepare_bunch_group: the
\* export bunches of the groups split_to_fit returns, then `pieces`, the
\* bunch tick queued cut by split_bunch_data.
QueuedBunches(groups, order, pieces) ==
    [k \in 1..Len(groups) |-> [b |-> MakeNetFieldExportBunch(groups[k], order), data |-> <<>>]]
      \o [k \in 1..Len(pieces) |->
            [b    |-> [EmptyBunch EXCEPT !.mbm = mbm # {}, !.dataBits = pieces[k].bits],
             data |-> pieces[k].data]]

(* Fault model for next_out_reliable: the `& 1023` dropped.             *)
NextOutReliableUnwrapped(r, n) == r + n

\* Channel::next_out_reliable taken n times: the 10-bit reliable sequence.
NextOutReliable(r, n) == (r + n) % 1024

\* prepare_bunch_group, then Channel::remove_queued_bunches: every bunch
\* is reliable, the group is partial when it has more than one bunch, the
\* first opens the channel until an open bunch has been sent, and each
\* takes the next out_reliable.
PrepareBunchGroup(out) ==
    LET n == Len(out)
    IN  [k \in 1..n |->
          [out[k] EXCEPT
             !.b.reliable       = TRUE,
             !.b.partial        = n > 1,
             !.b.partialInitial = n > 1 /\ k = 1,
             !.b.partialFinal   = n > 1 /\ k = n,
             !.b.control        = @ \/ (~openSent /\ k = 1),
             !.b.open           = @ \/ (~openSent /\ k = 1),
             !.b.seq            = NextOutReliable(outReliable, k)]]

\* NAME_Actor, the channel name of an actor channel.
ActorChannelName == 102

\* Bunch::encode.  The channel is never closed and replication never
\* paused.  bunch_data_bits takes 13 bits (the code unwraps the error of a
\* value that does not fit).
EncodeBunch(b) ==
    <<IF b.control THEN 1 ELSE 0>>
      \o (IF b.control THEN <<IF b.open THEN 1 ELSE 0, 0>> ELSE <<>>)
      \o <<0, IF b.reliable THEN 1 ELSE 0>>
      \o WritePackedInt(ChannelIndex)
      \o <<IF b.exports THEN 1 ELSE 0, IF b.mbm THEN 1 ELSE 0, IF b.partial THEN 1 ELSE 0>>
      \o (IF b.reliable THEN Bits(b.seq, 10) ELSE <<>>)
      \o (IF b.partial THEN <<IF b.partialInitial THEN 1 ELSE 0, 0, IF b.partialFinal THEN 1 ELSE 0>> ELSE <<>>)
      \o (IF b.reliable \/ b.open THEN WriteHardcodedName(ActorChannelName) ELSE <<>>)
      \o Bits(b.dataBits, 13)

\* NetConnection::send_raw_bunch: the header, the exports, the data, a
\* termination bit, aligned.
SendRawBunch(b, data) ==
    ByteAlign(EncodeBunch(b)
                \o (IF b.exports THEN WriteBits(b.exportBuf, b.exportBits) ELSE <<>>)
                \o (IF data # <<>> THEN WriteBits(data, b.dataBits) ELSE <<>>)
                \o <<1>>)

-----------------------------------------------------------------------------
(* Server actions                                                          *)

NoValue == -1

\* No partial bunch is being merged.
NoPartial == [active |-> FALSE, open |-> FALSE, data |-> <<>>]

Init ==
    /\ value        = [p \in Props |-> InitValue(p)]
    /\ changed      = [p \in Props |-> InitChanged(p)]
    /\ rpcQueue     = [g \in Objects |-> <<>>]
    /\ rpcLog       = <<>>
    /\ sets         = 0
    /\ opened       = FALSE
    /\ exportFields = <<>>
    /\ mbm          = {}
    /\ spawnSent    = FALSE
    /\ openSent     = FALSE
    /\ initialSent  = {}
    /\ outReliable  = InitOutReliable
    /\ wire         = <<>>
    /\ cInReliable  = InitOutReliable
    /\ cPartial     = NoPartial
    /\ cCache       = <<>>
    /\ cSpawned     = FALSE
    /\ cValue       = [p \in Props |-> NoValue]
    /\ cRpcs        = <<>>
    /\ cErrors      = {}
    /\ cPosition    = <<>>
    /\ cOutReliable = InitInReliable
    /\ cCalls       = <<>>
    /\ up           = <<>>
    /\ sInReliable  = InitInReliable
    /\ handled      = <<>>
    /\ ticking      = FALSE

\* World::open_actor_channel_at: the channel is created and the actor's
\* Object::on_channel_open queues its exports.
OpenChannel ==
    /\ ~opened /\ ~ticking
    /\ LET ex == FoldLeft(ExportNetGuid, [fields |-> exportFields, mbm |-> mbm],
                          ChannelOpenChains(ActorGuid, ActorGuid))
       IN  /\ exportFields' = ex.fields
           /\ mbm'          = ex.mbm
    /\ opened' = TRUE
    /\ UNCHANGED <<value, changed, rpcQueue, rpcLog, sets, spawnSent, openSent,
                   initialSent, outReliable, wire, client, up, sInReliable, handled, ticking>>

\* set_value on a replicated property: a new value marks it changed.
SetValue(p, v) ==
    /\ ~ticking
    /\ sets < MaxSets
    /\ v # value[p]
    /\ value'   = [value EXCEPT ![p] = v]
    /\ changed' = [changed EXCEPT ![p] = TRUE]
    /\ sets'    = sets + 1
    /\ UNCHANGED <<rpcQueue, rpcLog, opened, exportFields, mbm, spawnSent, openSent,
                   initialSent, outReliable, wire, client, up, sInReliable, handled, ticking>>

\* The RPCs the handlers tick_rpc ran have queued (the client calls
\* server RPCs on its actor only).
Replies == FoldLeft(LAMBDA n, i : n + Len(RpcHandlers[ArchetypeGuid][i]), 0, handled)

\* Object::add_rpc, as call_rpcs! does.  The RPCs server handlers queue
\* are not counted against the bound.
QueueRpc(g, i, v) ==
    /\ ~ticking
    /\ Len(rpcLog) < MaxRpcs + Replies
    /\ rpcQueue' = [rpcQueue EXCEPT ![g] = Append(@, [index |-> i, arg |-> v])]
    /\ rpcLog'   = Append(rpcLog, <<g, i, v>>)
    /\ UNCHANGED <<value, changed, sets, opened, exportFields, mbm, spawnSent, openSent,
                   initialSent, outReliable, wire, client, up, sInReliable, handled, ticking>>

\* RepLayout::acknowledge_changes of each object write_objects wrote:
\* every field's changed flag is cleared.
AcknowledgeChanges(written) == [p \in Props |-> changed[p] /\ p[1] \notin written]

\* World::tick_network for the channel: ActorChannel::tick, then
\* remove_queued_bunches, then send_raw_bunch for each bunch, with the
\* export group's HashMap iterating in `order`.  The result is the new
\* values of the variables the step changes.
TickStep(order) ==
    LET queued  == ShouldSendBunch
        data    == TickData
        pieces  == IF queued THEN SplitBunchData(data, GetBitsFromTerminatedStream(data)) ELSE <<>>
        written == IF queued THEN Range(WrittenObjects) ELSE {}
        out     == PrepareBunchGroup(QueuedBunches(SplitToFit(exportFields, order, MaxDataBits),
                                                   order, pieces))
    IN  [wire        |-> wire \o [k \in 1..Len(out) |-> SendRawBunch(out[k].b, out[k].data)],
         outReliable |-> NextOutReliable(outReliable, Len(out)),
         openSent    |-> openSent \/ Len(out) > 0,
         mbm         |-> IF queued THEN {} ELSE mbm,
         initialSent |-> initialSent \cup written,
         changed     |-> AcknowledgeChanges(written),
         rpcQueue    |-> [g \in Objects |-> IF g \in written THEN <<>> ELSE rpcQueue[g]]]

\* The condition under which a tick writes anything: an open channel with
\* changed state, queued RPCs or queued exports.
TickGuard == opened /\ (ShouldSendBunch \/ DOMAIN exportFields # {})

\* World::tick_network, on its own or as the rest of a receive_packet whose
\* tick_rpc has run.
Tick ==
    /\ TickGuard \/ ticking
    /\ \E order \in IterationOrders : \E t \in {TickStep(order)} :
         /\ wire'         = t.wire
         /\ outReliable'  = t.outReliable
         /\ openSent'     = t.openSent
         /\ mbm'          = t.mbm
         /\ initialSent'  = t.initialSent
         /\ changed'      = t.changed
         /\ rpcQueue'     = t.rpcQueue
         /\ exportFields' = <<>>
         /\ spawnSent'    = TRUE
    /\ ticking' = FALSE
    /\ UNCHANGED <<value, rpcLog, sets, opened, client, up, sInReliable, handled>>

-----------------------------------------------------------------------------
(* The client.  It reads the packets as Unreal does; where the repository *)
(* has a reader for the same format (Bunch::decode, the package map's     *)
(* internal_load_object, the content block and RPC readers of             *)
(* ActorChannel) the client uses it.                                       *)

\* Bunch::decode.  An unreliable partial bunch would take the packet id;
\* the server never sends one.
DecodeBunch(s, pos) ==
    LET control  == BitAt(s, pos) = 1
        open     == control /\ BitAt(s, pos + 1) = 1
        close    == control /\ BitAt(s, pos + 2) = 1
        p1       == (IF control THEN pos + 3 ELSE pos + 1) + (IF close THEN 4 ELSE 0)
        reliable == BitAt(s, p1 + 1) = 1
        ch       == ReadPackedInt(s, p1 + 2)
        p2       == ch.next
        partial  == BitAt(s, p2 + 2) = 1
        p3       == p2 + 3 + (IF reliable THEN 10 ELSE 0)
        p4       == p3 + (IF partial THEN 3 ELSE 0)
        name     == IF reliable \/ open THEN ReadName(s, p4) ELSE [value |-> 0, next |-> p4]
    IN  [value |-> [open           |-> open,
                    reliable       |-> reliable,
                    exports        |-> BitAt(s, p2) = 1,
                    mbm            |-> BitAt(s, p2 + 1) = 1,
                    partial        |-> partial,
                    seq            |-> IF reliable THEN ValueOf(Slice(s, p2 + 3, 10)) ELSE 0,
                    partialInitial |-> partial /\ BitAt(s, p3) = 1,
                    customFinal    |-> partial /\ BitAt(s, p3 + 1) = 1,
                    partialFinal   |-> partial /\ BitAt(s, p3 + 2) = 1,
                    dataBits       |-> ValueOf(Slice(s, name.next, 13))],
         next  |-> name.next + 13]

\* register_net_guid_from_path_client: the first registration stays.
Register(cache, g, path, outer) ==
    IF g \in DOMAIN cache THEN cache ELSE (g :> [path |-> path, outer |-> outer]) @@ cache

\* UPackageMapClient::internal_load_object while an export bunch is read:
\* the GUID, its flags, and with a path its outer (recursively) and the
\* path.  A read past the end leaves `next` beyond the stream.
RECURSIVE InternalLoadObject(_, _, _)
InternalLoadObject(s, pos, cache) ==
    LET g == ReadPackedInt(s, pos)
    IN  IF ~IsValid(g.value) \/ g.next > Len(s) + 1
        THEN [guid |-> g.value, cache |-> cache, next |-> g.next]
        ELSE LET flags == ValueOf(Slice(s, g.next, 8))
             IN  IF flags % 2 = 0
                 THEN [guid |-> g.value, next |-> g.next + 8,
                       cache |-> Register(cache, g.value, <<>>, 0)]
                 ELSE LET outer == InternalLoadObject(s, g.next + 8, cache)
                          str   == ReadString(s, outer.next)
                      IN  [guid  |-> g.value,
                           next  |-> str.next + (IF (flags \div 4) % 2 = 1 THEN 32 ELSE 0),
                           cache |-> IF g.value = 1 THEN outer.cache
                                     ELSE Register(outer.cache, g.value, str.value, outer.guid)]

\* The loop of receive_net_guid_bunch over the exported GUIDs.
RECURSIVE LoadObjects(_, _, _, _)
LoadObjects(s, pos, cache, n) ==
    IF n = 0 \/ pos > Len(s) THEN [cache |-> cache, next |-> pos]
    ELSE LET o == InternalLoadObject(s, pos, cache)
         IN  LoadObjects(s, o.next, o.cache, n - 1)

\* UPackageMapClient::receive_net_guid_bunch.
ReceiveNetGuidBunch(s, pos, cache) ==
    LET r == LoadObjects(s, pos + 33, cache, ValueOf(Slice(s, pos + 1, 32)))
    IN  [r EXCEPT !.next = IF BitAt(s, pos) = 1 THEN Len(s) + 1 ELSE @]

\* A client reading: the values and RPCs so far, the errors met, and the
\* position in the stream being read.
Fail(r, kind) == [r EXCEPT !.err = @ \cup {kind}]

\* The replicated handles of a payload up to the null handle.
RECURSIVE ReadHandles(_, _, _)
ReadHandles(p, g, r) ==
    LET h == ReadPackedInt(p, r.next)
    IN  IF h.next + (IF h.value = 0 THEN 0 ELSE 8) > Len(p) + 1 THEN Fail(r, "parse")
        ELSE IF h.value = 0 THEN [r EXCEPT !.next = h.next]
        ELSE IF h.value \notin Layout(g).handles THEN Fail(r, "unknown")
        ELSE IF h.value \in DOMAIN Layout(g).objects
        THEN LET o == ReadPackedInt(p, h.next)
             IN  IF o.next > Len(p) + 1 THEN Fail(r, "parse")
                 ELSE ReadHandles(p, g, [r EXCEPT !.values[HandleProp(g, h.value)] = o.value,
                                                  !.next = o.next])
        ELSE ReadHandles(p, g, [r EXCEPT !.values[HandleProp(g, h.value)] = ValueOf(Slice(p, h.next, 8)),
                                        !.next = h.next + 8])

\* receive_client_data's loop over the fields of a payload of `end` bits:
\* a custom property takes the u8 its data starts with, an RPC the u8
\* after the has-arguments bit.
RECURSIVE ReadFields(_, _, _, _)
ReadFields(p, g, end, r) ==
    IF r.next > end THEN r
    ELSE LET i    == ReadCompressedInt(p, r.next, Layout(g).maxRepIndex + 1)
             n    == ReadPackedInt(p, i.next)
         IN  IF n.next + n.value > end + 1 THEN Fail(r, "parse")
             ELSE IF i.value \in Layout(g).custom
             THEN ReadFields(p, g, end, [r EXCEPT !.values[CustomProp(g, i.value)] = ValueOf(Slice(p, n.next, 8)),
                                                 !.next = n.next + n.value])
             ELSE IF i.value \in RpcIndices[g]
             THEN ReadFields(p, g, end, [r EXCEPT !.rpcs = Append(@, <<g, i.value, ValueOf(Slice(p, n.next + 1, 8))>>),
                                                 !.next = n.next + n.value])
             ELSE Fail(r, "unknown")

\* The content blocks of a bunch's data up to bit `end`, as
\* read_content_block_header and read_content_block_payload read them,
\* with the bStablyNamed bit a server writes after a sub-object's GUID.
\* A block with the actor bit is the actor's archetype object.
RECURSIVE ReadBlocks(_, _, _, _)
ReadBlocks(s, end, cache, r) ==
    IF r.next > end THEN r
    ELSE LET hasRep  == BitAt(s, r.next) = 1
             isActor == BitAt(s, r.next + 1) = 1
             gp      == IF isActor THEN [value |-> ArchetypeGuid, next |-> r.next + 2]
                        ELSE ReadPackedInt(s, r.next + 2)
             size    == ReadPackedInt(s, IF isActor THEN gp.next ELSE gp.next + 1)
             g       == gp.value
             payload == Slice(s, size.next, size.value)
             start   == [r EXCEPT !.next = IF hasRep THEN 2 ELSE 1]
             a       == IF hasRep THEN ReadHandles(payload, g, start) ELSE start
             b       == IF a.err # r.err THEN a ELSE ReadFields(payload, g, size.value, a)
         IN  IF size.next + size.value > end + 1 THEN Fail(r, "parse")
             ELSE IF g \notin Objects THEN Fail(r, "unknown")
             ELSE IF ~isActor /\ g \notin DOMAIN cache THEN Fail(r, "unmapped")
             ELSE IF b.err # r.err THEN b
             ELSE ReadBlocks(s, end, cache, [b EXCEPT !.next = size.next + size.value])

\* The must-be-mapped GUIDs at the start of a bunch: each must be known.
ReadMustBeMapped(s, cache, r) ==
    LET n  == ValueOf(Slice(s, r.next, 16))
        gs == [k \in 1..n |-> ReadPackedInt(s, r.next + 16 + 8 * (k - 1))]
    IN  IF r.next + 16 + 8 * n > Len(s) + 1 THEN Fail(r, "parse")
        ELSE IF \E k \in 1..n : gs[k].next # r.next + 16 + 8 * k THEN Fail(r, "parse")
        ELSE IF \E k \in 1..n : gs[k].value \notin DOMAIN cache THEN Fail(r, "unmapped")
        ELSE [r EXCEPT !.next = r.next + 16 + 8 * n]

\* The spawn information of the open bunch (SerializeNewActor on the
\* client): the actor, its archetype, which must be known, the level; the
\* location (a packed vector at scale 10 when quantized, three doubles
\* otherwise), the rotation, the scale and the velocity (packed vectors
\* at scale 10 and 1), each after its flag; the controlled player's index.
ReadNewActor(s, cache, r) ==
    LET actor     == ReadPackedInt(s, r.next)
        archetype == ReadPackedInt(s, actor.next)
        level     == ReadPackedInt(s, archetype.next)
        pos       == IF BitAt(s, level.next) = 0
                     THEN [value |-> [k \in 1..3 |-> [num |-> 0, den |-> 1]], next |-> level.next + 1]
                     ELSE IF BitAt(s, level.next + 1) = 1 THEN ReadPackedVector(s, level.next + 2, 10)
                     ELSE [value |-> <<>>, next |-> level.next + 2 + 192]
        rot       == IF BitAt(s, pos.next) = 1 THEN ReadRotator(s, pos.next + 1)
                     ELSE [value |-> <<0, 0, 0>>, next |-> pos.next + 1]
        scale     == IF BitAt(s, rot.next) = 1 THEN ReadPackedVector(s, rot.next + 1, 10)
                     ELSE [value |-> <<>>, next |-> rot.next + 1]
        velocity  == IF BitAt(s, scale.next) = 1 THEN ReadPackedVector(s, scale.next + 1, 1)
                     ELSE [value |-> <<>>, next |-> scale.next + 1]
        next      == velocity.next + (IF ControlsPlayer >= 0 THEN 8 ELSE 0)
    IN  IF next > Len(s) + 1 \/ actor.value # ActorGuid THEN Fail(r, "parse")
        ELSE IF archetype.value \notin DOMAIN cache THEN Fail(r, "unmapped")
        ELSE [r EXCEPT !.next = next, !.position = pos.value]

\* A complete (or merged) bunch with data on the actor channel: the
\* must-be-mapped GUIDs, the spawn information when the actor is not yet
\* spawned, then the content blocks.  Each stage takes the result of the
\* one before as a parameter.
BlocksAfter(s, cache, r0, r2) ==
    IF r2.err # r0.err THEN r2 ELSE ReadBlocks(s, Len(s), cache, r2)

SpawnAfter(bunch, cache, spawned, r0, r1) ==
    BlocksAfter(bunch.data, cache, r0,
                IF spawned \/ r1.err # r0.err THEN r1
                ELSE IF ~bunch.open THEN Fail(r1, "unopened")
                ELSE ReadNewActor(bunch.data, cache, r1))

ProcessBunch(bunch, cache, spawned, r0) ==
    SpawnAfter(bunch, cache, spawned, r0,
               IF bunch.mbm THEN ReadMustBeMapped(bunch.data, cache, r0) ELSE r0)

\* The client's state after a packet it accepted: `r` is what reading the
\* complete bunch `done` gave.
Accepted(b, ex, merge, done, r) ==
    [inReliable |-> b.seq,
     partial    |-> IF b.partial /\ ~b.partialFinal THEN merge ELSE NoPartial,
     cache      |-> ex.cache,
     spawned    |-> cSpawned \/ (done.data # <<>> /\ r.err = cErrors),
     values     |-> r.values, rpcs |-> r.rpcs, err |-> r.err, position |-> r.position]

\* The reliable order, then the merge of a partial bunch (the merged bunch
\* opens if its first piece does and has must-be-mapped GUIDs if its last
\* piece does; a piece but the last must hold whole bytes), and the
\* complete bunch.  `rest` is the data after the exports.
Merged(b, end, ex, rest) ==
    LET inSeq   == b.reliable /\ b.seq = (cInReliable + 1) % 1024
        merge   == IF ~b.partial THEN NoPartial
                   ELSE IF b.partialInitial THEN [active |-> TRUE, open |-> b.open, data |-> rest]
                   ELSE [cPartial EXCEPT !.data = @ \o rest]
        pieceOk == ~b.partial \/ ((b.partialInitial # cPartial.active)
                                  /\ (b.partialFinal \/ Len(rest) % 8 = 0))
        done    == IF ~b.partial THEN [open |-> b.open, mbm |-> b.mbm, data |-> rest]
                   ELSE IF b.partialFinal THEN [open |-> merge.open, mbm |-> b.mbm, data |-> merge.data]
                   ELSE [open |-> FALSE, mbm |-> FALSE, data |-> <<>>]
        r0      == [values |-> cValue, rpcs |-> cRpcs, err |-> cErrors, position |-> cPosition, next |-> 1]
        bad     == IF ~inSeq THEN "sequence" ELSE IF b.customFinal THEN "assert"
                   ELSE IF ex.next > end THEN "parse" ELSE "partial"
    IN  IF ~inSeq \/ b.customFinal \/ ex.next > end \/ ~pieceOk
        THEN [inReliable |-> cInReliable, partial |-> cPartial, cache |-> cCache, spawned |-> cSpawned,
              values |-> cValue, rpcs |-> cRpcs, err |-> cErrors \cup {bad}, position |-> cPosition]
        ELSE Accepted(b, ex, merge, done,
                      IF done.data = <<>> THEN r0 ELSE ProcessBunch(done, ex.cache, cSpawned, r0))

\* The exports of the raw bunch, read at its receipt.
Loaded(pkt, b, end, ex) ==
    Merged(b, end, ex, IF ex.next < end THEN Slice(pkt, ex.next, end - ex.next) ELSE <<>>)

Decoded(pkt, h) ==
    Loaded(pkt, h.value, h.next + h.value.dataBits,
           IF h.value.exports THEN ReceiveNetGuidBunch(pkt, h.next, cCache)
           ELSE [cache |-> cCache, next |-> h.next])

\* What the client makes of packet pkt.
ClientStep(pkt) == Decoded(pkt, DecodeBunch(pkt, 1))

\* The client reads the next packet.  A packet that fails the reliable
\* order, the decode assertion, the exports or the partial merge is
\* dropped with its error.
ClientReceive ==
    /\ wire # <<>>
    /\ \E c \in {ClientStep(Head(wire))} :
         /\ cInReliable' = c.inReliable
         /\ cPartial'    = c.partial
         /\ cCache'      = c.cache
         /\ cSpawned'    = c.spawned
         /\ cValue'      = c.values
         /\ cRpcs'       = c.rpcs
         /\ cErrors'     = c.err
         /\ cPosition'   = c.position
    /\ wire' = Tail(wire)
    /\ UNCHANGED <<server, up, cOutReliable, cCalls>>

-----------------------------------------------------------------------------
(* Server RPCs from the client (ActorChannel::received_bunch,             *)
(* receive_client_data, World::tick_rpc)                                   *)

\* The Unreal client calls server RPC i, without arguments, on the actor:
\* one reliable bunch on the channel holding one content block with the
\* actor bit, whose payload is the RPC's field header and its empty data.
ClientRpcPacket(seq, i) ==
    LET payload == ByteAlign(WriteCompressedInt(i, Layout(ArchetypeGuid).maxRepIndex + 1)
                               \o WritePackedInt(0) \o <<1>>)
        bits    == GetBitsFromTerminatedStream(payload)
        block   == <<0, 1>> \o WritePackedInt(bits) \o WriteBits(payload, bits)
        b       == [control |-> FALSE, open |-> FALSE, reliable |-> TRUE, exports |-> FALSE,
                    mbm |-> FALSE, partial |-> FALSE, seq |-> seq, dataBits |-> Len(block)]
    IN  ByteAlign(EncodeBunch(b) \o block \o <<1>>)

ClientCallRpc(i) ==
    /\ cSpawned
    /\ Len(cCalls) < MaxServerRpcs
    /\ cOutReliable' = (cOutReliable + 1) % 1024
    /\ cCalls'       = Append(cCalls, i)
    /\ up'           = Append(up, [call |-> i, bits |-> ClientRpcPacket(cOutReliable', i)])
    /\ UNCHANGED <<server, wire, cInReliable, cPartial, cCache, cSpawned, cValue, cRpcs, cErrors, cPosition>>

\* receive_client_data: nothing for an object whose layout defines no
\* max_rep_index; else the RPCs of the payload, each a rep index and its
\* data, until a read fails.
NoMaxRepIndex == [rpcs |-> <<>>, next |-> 1, err |-> "NoMaxRepIndex"]

RECURSIVE ReadRpcs(_, _, _, _)
ReadRpcs(p, g, end, r) ==
    IF r.next > end THEN r
    ELSE LET i == ReadCompressedInt(p, r.next, Layout(g).maxRepIndex + 1)
             n == ReadPackedInt(p, i.next)
             d == ReadBits(p, n.next, n.value)
         IN  IF d.next > Len(p) + 1 THEN [r EXCEPT !.err = "Io"]
             ELSE ReadRpcs(p, g, end, [r EXCEPT !.rpcs = Append(@, <<g, i.value, d.value>>),
                                                !.next = d.next])

ReceiveClientData(p, g, size) ==
    IF Layout(g).maxRepIndex = 1 THEN NoMaxRepIndex
    ELSE ReadRpcs(p, g, size, [rpcs |-> <<>>, next |-> 1, err |-> "none"])

\* read_content_block_payload on the server: the header (the actor bit
\* stands for the channel's actor), and for a valid GUID the payload.
ContentBlock(s, pos) ==
    LET gp   == IF BitAt(s, pos + 1) = 1 THEN [value |-> ActorGuid, next |-> pos + 2]
                ELSE ReadPackedInt(s, pos + 2)
        size == ReadPackedInt(s, gp.next)
        pl   == ReadBits(s, size.next, size.value)
    IN  [guid |-> gp.value, hasRep |-> BitAt(s, pos) = 1,
         payload |-> IF IsValid(gp.value) THEN pl.value ELSE <<>>,
         bits    |-> IF IsValid(gp.value) THEN size.value ELSE 0,
         next    |-> IF IsValid(gp.value) THEN pl.next ELSE gp.next]

\* The loop of ActorChannel::received_bunch over the content blocks of
\* `bits` bits: a block with a rep layout, for an unknown object or
\* without max_rep_index is skipped; the actor's RPCs go to its archetype;
\* a failed read ends the loop, and a failed RPC read ends the bunch.  The
\* result is the RPCs queued on incoming_rpc_queue.
RECURSIVE ReceivedBlocks(_, _, _, _)
ReceivedBlocks(s, bits, rpcs, pos) ==
    IF pos >= bits THEN rpcs
    ELSE LET b == ContentBlock(s, pos)
             g == IF b.guid = ActorGuid THEN ArchetypeGuid ELSE b.guid
             c == ReceiveClientData(b.payload, g, b.bits)
         IN  IF b.next > Len(s) + 1 THEN rpcs
             ELSE IF b.hasRep \/ g \notin Objects \/ c.err = "NoMaxRepIndex"
             THEN ReceivedBlocks(s, bits, rpcs, b.next)
             ELSE IF c.err = "Io" THEN rpcs
             ELSE ReceivedBlocks(s, bits, rpcs \o c.rpcs, b.next)

(* Fault model for Channel::received_bunch: the gate without the case  *)
(* of a sequence that wrapped to 0.                                        *)
InReliableAcceptsUnwrapped(seq, in) == seq > in

\* Channel::received_bunch's reliable gate.
InReliableAccepts(seq, in) == seq > in \/ seq = 0

\* dispatch_packet for a packet of one bunch, then received_raw_bunch (a
\* bunch without data or with exports is ignored; the client's RPC
\* bunches are never partial), the gate, and ActorChannel::received_bunch
\* (a bunch with must-be-mapped GUIDs is ignored).  The result is the new
\* in_reliable and the RPCs queued.
DispatchPacket(pkt) ==
    LET h    == DecodeBunch(pkt, 1)
        b    == h.value
        data == ReadBits(pkt, h.next, b.dataBits).value
        ok   == b.reliable /\ b.dataBits > 0 /\ ~b.exports /\ InReliableAccepts(b.seq, sInReliable)
    IN  [inReliable |-> IF ok THEN b.seq ELSE sInReliable,
         rpcs       |-> IF ok /\ ~b.mbm THEN ReceivedBlocks(data, b.dataBits, <<>>, 1) ELSE <<>>]

\* get_handler_func of the object's rep layout.
HasHandler(g, i) == g \in DOMAIN RpcHandlers /\ i \in DOMAIN RpcHandlers[g]

\* One RPC of tick_rpc: its handler, if the object has one, queues its
\* RPCs on the object as call_rpcs! does.
RunRpc(st, e) ==
    IF ~HasHandler(e[1], e[2]) THEN st
    ELSE LET out == RpcHandlers[e[1]][e[2]]
         IN  [queue   |-> [st.queue EXCEPT ![e[1]] = @ \o out],
              log     |-> st.log \o [k \in 1..Len(out) |-> <<e[1], out[k].index, out[k].arg>>],
              handled |-> Append(st.handled, e[2])]

\* cluster::receive_packet for the client's next packet: received_packet
\* dispatches it, and World::tick runs tick_rpc over the RPCs queued; the
\* tick_network that follows is the Tick step, taken before any other
\* server step.
ServerReceive ==
    /\ ~ticking
    /\ up # <<>>
    /\ \E d \in {DispatchPacket(Head(up).bits)} :
         \E st \in {FoldLeft(RunRpc, [queue |-> rpcQueue, log |-> rpcLog, handled |-> handled], d.rpcs)} :
            /\ sInReliable' = d.inReliable
            /\ rpcQueue'    = st.queue
            /\ rpcLog'      = st.log
            /\ handled'     = st.handled
    /\ up'      = Tail(up)
    /\ ticking' = TRUE
    /\ UNCHANGED <<value, changed, sets, opened, exportFields, mbm, spawnSent, openSent,
                   initialSent, outReliable, wire, client>>

Next ==
    \/ OpenChannel
    \/ \E p \in Props \ ObjectProps, v \in Values : SetValue(p, v)
    \/ \E g \in Objects : \E i \in RpcIndices[g], v \in Values : QueueRpc(g, i, v)
    \/ Tick
    \/ ClientReceive
    \/ \E i \in ServerRpcs : ClientCallRpc(i)
    \/ ServerReceive

Spec == Init /\ [][Next]_vars

\* tick_network runs on every pass of the connection's loop, the cluster
\* loop takes every datagram the UDP task hands it, and the client reads
\* every packet that arrives.
\* Weak fairness stated with each action's enabling condition. Every step
\* of these actions changes a variable (opened, the wire, ticking, up), and
\* OpenChannel's fold, TickStep, ClientStep and DispatchPacket are total, so <<A>>_vars is enabled exactly
\* when the guard below holds: each formula is WF_vars(A) itself.
OpenFair    == <>[](~opened)       => []<><<OpenChannel>>_vars
TickFair    == <>[](TickGuard \/ ticking) => []<><<Tick>>_vars
ReceiveFair == <>[](wire # <<>>)   => []<><<ClientReceive>>_vars
ServerFair  == <>[](up # <<>> /\ ~ticking) => []<><<ServerReceive>>_vars

FairSpec == Spec /\ OpenFair /\ TickFair /\ ReceiveFair /\ ServerFair

-----------------------------------------------------------------------------
(* Properties                                                              *)

TypeOK ==
    /\ value \in [Props -> FieldValues]
    /\ changed \in [Props -> BOOLEAN]
    /\ \A g \in Objects : \A k \in 1..Len(rpcQueue[g]) : rpcQueue[g][k].index \in RpcIndices[g]
    /\ sets \in 0..MaxSets /\ Len(rpcLog) <= MaxRpcs + Replies
    /\ sInReliable \in 0..1023 /\ cOutReliable \in 0..1023
    /\ Len(cCalls) \in 0..MaxServerRpcs /\ ticking \in BOOLEAN
    /\ DOMAIN exportFields \subseteq CacheGuids /\ mbm \subseteq CacheGuids
    /\ initialSent \subseteq Objects
    /\ outReliable \in 0..1023 /\ cInReliable \in 0..1023
    /\ \A k \in 1..Len(wire) : Len(wire[k]) % 8 = 0
    /\ cValue \in [Props -> FieldValues \cup {NoValue}]
    /\ cSpawned \in BOOLEAN /\ cPartial.active \in BOOLEAN
    /\ Len(cPosition) \in {0, 3}

\* Nothing is left to send or to read.
Quiescent ==
    /\ opened
    /\ ~ShouldSendBunch
    /\ DOMAIN exportFields = {}
    /\ wire = <<>> /\ up = <<>> /\ ~ticking

\* The RPCs of object g in a log.
RpcsOf(log, g) == SelectSeq(log, LAMBDA e : e[1] = g)

\* The client holds what the server replicated.
Mirrored == cValue = value /\ cRpcs = rpcLog

\* Every packet the server sends decodes on the client: the header, the
\* exports, the reliable order, the partial merge, the must-be-mapped
\* GUIDs, the spawn information and every content block, as written by
\* Bunch::encode, the package map, serialize_new_actor and
\* serialize_object.
ClientNeverDesyncs == cErrors = {}

\* The client spawns the actor where the game mode spawned it: the packed
\* vector of serialize_new_actor (the bit count of the widest component
\* and its sign bit, the two's complement of a negative component, the
\* scale flag), carried in the open bunch through split_bunch_data and
\* the client's partial merge, decodes to the location exactly.
ClientSpawnsAtActorPosition ==
    cSpawned => /\ Len(cPosition) = 3
                /\ \A k \in 1..3 : cPosition[k].num * PositionDen = ActorPosition[k] * cPosition[k].den

\* Every GUID the client registered from the package-map exports has the
\* path the server's NetGUIDCache holds for it and the outer of
\* World::class_hierarchy, whatever order the export group is iterated
\* and split in.
ExportsAgree ==
    \A g \in DOMAIN cCache :
        /\ g \in CacheGuids
        /\ cCache[g].path = CacheObject(g).path
        /\ cCache[g].outer = IF g \in DOMAIN Hierarchy THEN Hierarchy[g] ELSE 0

\* The client receives each object's RPCs in the order call_rpcs! queued
\* them, and once the server has nothing left to send and the client has
\* read every packet, the client's properties and RPCs are the server's.
ClientMirrorsServer ==
    /\ \A g \in Objects : IsPrefix(RpcsOf(cRpcs, g), RpcsOf(rpcLog, g))
    /\ Quiescent => Mirrored

\* No bunch of replicated data in flight carries more than
\* Bunch::MAX_DATA_BITS: split_bunch_data cuts the bunch tick queues into
\* pieces that fit.
DataBunchesFit ==
    \A k \in 1..Len(wire) :
        LET b == DecodeBunch(wire[k], 1).value
        IN  ~b.exports => b.dataBits <= MaxDataBits

\* Replication converges: once the game stops changing properties and
\* queueing RPCs, the channel ticks until the client holds the server's
\* state and nothing is in flight.
ReplicationConverges == <>[](Quiescent /\ Mirrored)

\* Each server RPC the client calls on its actor reaches its handler
\* exactly once (and, for several calls, in call order): the calls
\* tick_rpc has run, followed by those still in flight, are the client's
\* calls that have a handler.
\* It rests on the reliable gate across the wrap of the channel sequence,
\* ActorChannel::received_bunch's block loop and its redirection of the
\* actor to its archetype, and receive_client_data.
ClientRpcsHandledOnce ==
    LET hasHandler(i) == HasHandler(ArchetypeGuid, i)
    IN  handled \o SelectSeq([k \in 1..Len(up) |-> up[k].call], hasHandler)
          = SelectSeq(cCalls, hasHandler)
=============================================================================
