---------------------------- MODULE MC_Replication ----------------------------
(***************************************************************************)
(* One player's actor channel.  The actor is spawned like the player      *)
(* controller of HTGameMode (a dynamic GUID with no name, the class       *)
(* default object as archetype, a hud exported on channel open, player    *)
(* index 0), and has one dynamic sub-object laid out like the             *)
(* AbilitySystemComponent (a named dynamic GUID, max_rep_index 98, a      *)
(* custom property with rep index 7).  The archetype has the net-role     *)
(* handles 5 and 14, the player_state PropertyObject (handle 17, set to  *)
(* the player state's GUID 8, the next dynamic GUID) and the               *)
(* client_set_hud RPC (rep index 53) of PlayerControllerBase.  Its        *)
(* spawn_location (handle 20, three f64 bit patterns) is left out.        *)
(*                                                                         *)
(* Paths are short byte strings: 1 stands for "/Game/...", 2 for the      *)
(* player controller, 3 for the hud, 9 for the map name, 5 for            *)
(* PersistentLevel, 6 for AbilitySystemComponent.  The chains are        *)
(* registered with register_hierarchy_for_static_objects in the order    *)
(* HTGameMode::new and World::init_level register them, which gives the  *)
(* static GUIDs 5, 7 to the player controller package and class, 9, 11   *)
(* to the hud's, and 13, 15, 17 to the map package, the map and           *)
(* PersistentLevel.                                                        *)
(***************************************************************************)
EXTENDS Replication

\* The player controller class, the hud class, and the level, each with its outers.
MC_StaticChains == << << <<1, 2>>, <<2>> >>, << <<1, 3>>, <<3>> >>, << <<1, 9>>, <<9>>, <<5>> >> >>
MC_DynamicNames == << <<>>, <<6>>, <<>> >>
MC_MapName == <<9>>
MC_ArchetypeLayout == [handles |-> {5, 14, 17}, custom |-> {}, maxRepIndex |-> 182, onOpen |-> 11,
                      objects |-> (17 :> 8)]
MC_SubObjectLayouts == 6 :> [handles |-> {18}, custom |-> {7}, maxRepIndex |-> 98, onOpen |-> 0, objects |-> <<>>]
MC_PersistentLevel == <<5>>
\* The HashMap of an export group iterates in an unspecified order: the
\* GUIDs ascending, or descending.
MC_IterationOrders == {<<4, 5, 6, 7, 9, 11, 13, 15, 17>>, <<17, 15, 13, 11, 9, 7, 6, 5, 4>>}
\* HTGameMode::login spawns the player controller at
\* (-79551.5, 158422.4, 4939.1).
MC_ActorPosition == <<-795515, 1584224, 49391>>
MC_RpcIndices == (4 :> {}) @@ (6 :> {}) @@ (7 :> {46, 53})
\* PlayerControllerBase's server RPC 173 (on_server_request_actor_items)
\* queues client_retry_client_restart (46) on the player controller; 180
\* has no handler.
MC_RpcHandlers == 7 :> (173 :> << [index |-> 46, arg |-> 2] >>)
=============================================================================
