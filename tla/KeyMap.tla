-------------------------------- MODULE KeyMap --------------------------------
(***************************************************************************)
(* What the table of message encryption keys promises: for a key id and    *)
(* the bytes of a key it remembers one source node id, the first one it    *)
(* was given (MessageEncryptionKey::IsSameKey does not look at the source),*)
(* for as long as Wireshark runs.  KeyTable shows that the linked lists of *)
(* MessageEncryptionKeyTable implement this.                               *)
(***************************************************************************)
EXTENDS Integers

CONSTANTS
  KeyIds,   \* session ids a key may be filed under
  Keys,     \* the bytes of AES-128 keys
  NodeIds   \* source node ids; 0 is "not known"

VARIABLE keyTable   \* <<key id, key>> -> source node id

AddKey(table, id, key, src) ==
  [x \in DOMAIN table \cup {<<id, key>>} |-> IF x \in DOMAIN table THEN table[x] ELSE src]

MapInit == keyTable = [x \in {} |-> 0]

MapNext == \E id \in KeyIds, key \in Keys, src \in NodeIds :
             keyTable' = AddKey(keyTable, id, key, src)

MapSpec == MapInit /\ [][MapNext]_keyTable
=============================================================================
