------------------------------ MODULE FastArray ------------------------------
(***************************************************************************)
(* FastArraySerializer<T> (lib/engine/src/replication/                     *)
(* fast_array_serializer.rs): an array replicated as a delta of deleted    *)
(* and changed element ids.  push, get_mut and remove are the gameplay     *)
(* operations; Replicate is what ActorChannel::write_object_data does with *)
(* a changed object: serialize, then acknowledge_changes.  The client      *)
(* (Unreal's fast-array delta reader, not in this repository) is left     *)
(* out: it reads changed_count (id, element) entries, so what it makes of  *)
(* a delta is only defined when that count is right, which is what        *)
(* WireCountConsistent asks of serialize.                                  *)
(*                                                                         *)
(* An element's payload is abstracted to a version number that get_mut    *)
(* bumps (the caller mutates the element through the returned reference). *)
(* base_replication_key is never assigned and stays 0; it is left out.    *)
(***************************************************************************)
EXTENDS Integers, FiniteSets, Functions, TLC

CONSTANTS
    MaxPushes,  \* bound: elements pushed
    MaxEdits    \* bound: get_mut calls

VARIABLES
    array_replication_key,
    deleted_ids,
    changed_ids,
    items,       \* element_id -> version of the element's contents
    lastWire,    \* the last delta serialize wrote
    edits        \* get_mut calls so far (bounded)

vars == <<array_replication_key, deleted_ids, changed_ids, items, lastWire,
          edits>>

NoWire == [changed_count |-> 0, deleted |-> {}, elements |-> << >>]

(* Fault model for push: the element takes the key before it is bumped. *)
PushIdBeforeIncrement ==
    /\ array_replication_key < MaxPushes
    /\ array_replication_key' = array_replication_key + 1
    /\ changed_ids' = changed_ids \cup {array_replication_key}
    /\ items' = items @@ (array_replication_key :> 0)
    /\ UNCHANGED <<deleted_ids, lastWire, edits>>

push ==
    /\ array_replication_key < MaxPushes
    /\ array_replication_key' = array_replication_key + 1
    /\ changed_ids' = changed_ids \cup {array_replication_key + 1}
    /\ items' = items @@ ((array_replication_key + 1) :> 0)
    /\ UNCHANGED <<deleted_ids, lastWire, edits>>

(* get_mut on a present element marks it changed; the caller edits it. *)
GetMutFound(id) ==
    /\ changed_ids' = changed_ids \cup {id}
    /\ items' = [items EXCEPT ![id] = @ + 1]

get_mut ==
    \E id \in DOMAIN items :
        /\ edits < MaxEdits
        /\ edits' = edits + 1
        /\ GetMutFound(id)
        /\ UNCHANGED <<array_replication_key, deleted_ids, lastWire>>

remove ==
    \E id \in DOMAIN items :
        /\ items' = [j \in DOMAIN items \ {id} |-> items[j]]
        /\ deleted_ids' = deleted_ids \cup {id}
        /\ UNCHANGED <<array_replication_key, changed_ids, lastWire, edits>>

is_changed == changed_ids # {} \/ deleted_ids # {}

(* serialize: the counts, the deleted ids, then every present element    *)
(* whose id is in changed_ids.                                           *)
Serialize ==
    [changed_count |-> Cardinality(changed_ids),
     deleted       |-> deleted_ids,
     elements      |-> [id \in changed_ids \cap DOMAIN items |-> items[id]]]

(* write_object_data: serialize, then acknowledge_changes. *)
Replicate ==
    /\ is_changed
    /\ lastWire' = Serialize
    /\ changed_ids' = {}
    /\ deleted_ids' = {}
    /\ UNCHANGED <<array_replication_key, items, edits>>

Init ==
    /\ array_replication_key = 0
    /\ deleted_ids = {}
    /\ changed_ids = {}
    /\ items = << >>
    /\ lastWire = NoWire
    /\ edits = 0

Next == push \/ get_mut \/ remove \/ Replicate

Spec == Init /\ [][Next]_vars

-----------------------------------------------------------------------------
Ids == 1 .. MaxPushes

TypeOK ==
    /\ array_replication_key \in 0 .. MaxPushes
    /\ deleted_ids \subseteq Ids /\ changed_ids \subseteq Ids
    /\ DOMAIN items \subseteq Ids
    /\ edits \in 0 .. MaxEdits

(* The changed_count serialize writes equals the number of (id, element) *)
(* entries that follow it, so the client reads exactly the delta (spec   *)
(* 8.5: the stream contains exactly the ids of changed_ids and           *)
(* deleted_ids).                                                         *)
WireCountConsistent ==
    lastWire.changed_count = Cardinality(DOMAIN lastWire.elements)
=============================================================================
