------------------------------- MODULE KeyTable -------------------------------
(***************************************************************************)
(* MessageEncryptionKeyTable: a wmem tree from a key id to a linked list   *)
(* of keys, the newest first.  It lives as long as Wireshark and no key is *)
(* ever removed.                                                           *)
(***************************************************************************)
EXTENDS Integers, Sequences

CONSTANTS KeyIds, Keys, NodeIds

ASSUME NodeIdsAssumption == NodeIds \subseteq Nat /\ 0 \in NodeIds

VARIABLE sKeys   \* key id -> sequence of [dataEncKey, srcNodeId]

Key == [dataEncKey : Keys, srcNodeId : NodeIds]

\* MessageEncryptionKeyTable::FindKeysById
FindKeysById(id) == IF id \in DOMAIN sKeys THEN sKeys[id] ELSE << >>

\* Mutation: keys of different sources are different keys.
IsSameKeyAndSource(k, l) == k.dataEncKey = l.dataEncKey /\ k.srcNodeId = l.srcNodeId

\* MessageEncryptionKey::IsSameKey (every key in use is an AES-128-CCM key)
IsSameKey(k, l) == k.dataEncKey = l.dataEncKey

HasKey(list, k) == \E i \in 1..Len(list) : IsSameKey(list[i], k)

\* Mutation: the new key does not link to the keys there are.
ReplaceKey(id, k) ==
  IF HasKey(FindKeysById(id), k)
    THEN UNCHANGED sKeys
    ELSE sKeys' = [x \in DOMAIN sKeys \cup {id} |-> IF x = id THEN <<k>> ELSE sKeys[x]]

\* Mutation: the tree gets the old head instead of the new key.
InsertOldHead(id, k) ==
  IF HasKey(FindKeysById(id), k)
    THEN UNCHANGED sKeys
    ELSE sKeys' = [x \in DOMAIN sKeys \cup {id} |-> FindKeysById(x)]

AddKey(id, k) ==
  IF HasKey(FindKeysById(id), k)
    THEN UNCHANGED sKeys
    ELSE sKeys' = [x \in DOMAIN sKeys \cup {id} |->
                     IF x = id THEN <<k>> \o FindKeysById(id) ELSE sKeys[x]]

Init == sKeys = [x \in {} |-> << >>]
Next == \E id \in KeyIds : \E k \in Key : AddKey(id, k)
Spec == Init /\ [][Next]_sKeys
-----------------------------------------------------------------------------
(***************************************************************************)
(* The lists are lists of keys, and none is empty.                         *)
(***************************************************************************)
TypeOK ==
  /\ DOMAIN sKeys \subseteq KeyIds
  /\ sKeys \in [DOMAIN sKeys -> Seq(Key) \ {<< >>}]

(***************************************************************************)
(* No two entries under an id have the same key bytes, so AddKey gives a   *)
(* key one source node id and never a second one.                          *)
(***************************************************************************)
NoKeyTwice ==
  \A id \in DOMAIN sKeys : \A i, j \in 1..Len(sKeys[id]) :
    sKeys[id][i].dataEncKey = sKeys[id][j].dataEncKey => i = j

(***************************************************************************)
(* The lists implement the map from key id and key to source node id.      *)
(***************************************************************************)
Holds(list, key) == \E i \in 1..Len(list) : list[i].dataEncKey = key

Filed == {x \in KeyIds \X Keys : Holds(FindKeysById(x[1]), x[2])}

SourceIn(list, key) == list[CHOOSE i \in 1..Len(list) : list[i].dataEncKey = key].srcNodeId

AsMap == [x \in Filed |-> SourceIn(FindKeysById(x[1]), x[2])]

Map == INSTANCE KeyMap WITH keyTable <- AsMap

ImplementsKeyMap == Map!MapSpec
=============================================================================
