---------------------------- MODULE KeyTableProofs ----------------------------
(***************************************************************************)
(* The linked lists of MessageEncryptionKeyTable hold no key twice, and    *)
(* implement the map KeyMap, for any key ids, keys and nodes.              *)
(***************************************************************************)
EXTENDS KeyTable, TLAPS

Distinct(list) ==
  \A i, j \in 1..Len(list) : list[i].dataEncKey = list[j].dataEncKey => i = j

\* What FindKeysById returns is a list of keys, each key once.
LEMMA FoundList ==
  ASSUME TypeOK, NoKeyTwice, NEW id
  PROVE  FindKeysById(id) \in Seq(Key) /\ Distinct(FindKeysById(id))
BY DEF TypeOK, NoKeyTwice, FindKeysById, Distinct

\* Putting a key in front of a list.
LEMMA PrependKey ==
  ASSUME NEW list \in Seq(Key), NEW k \in Key
  PROVE  /\ <<k>> \o list \in Seq(Key)
         /\ Len(<<k>> \o list) = Len(list) + 1
         /\ (<<k>> \o list)[1] = k
         /\ \A i \in 1..Len(list) : (<<k>> \o list)[i + 1] = list[i]
OBVIOUS

LEMMA PrependDistinct ==
  ASSUME NEW list \in Seq(Key), NEW k \in Key, Distinct(list), ~ HasKey(list, k)
  PROVE  Distinct(<<k>> \o list)
<1> DEFINE new == <<k>> \o list
<1>1. /\ Len(list) \in Nat /\ Len(new) = Len(list) + 1 /\ new[1] = k
      /\ \A i \in 2..Len(new) : i - 1 \in 1..Len(list) /\ new[i] = list[i - 1]
  <2>1. \A i \in 2..Len(list) + 1 : i - 1 \in 1..Len(list) /\ (i - 1) + 1 = i
    OBVIOUS
  <2> QED BY <2>1, PrependKey
<1>2. \A i \in 1..Len(list) : list[i].dataEncKey # k.dataEncKey
  BY DEF HasKey, IsSameKey
<1> SUFFICES ASSUME NEW i \in 1..Len(new), NEW j \in 1..Len(new),
                    new[i].dataEncKey = new[j].dataEncKey
             PROVE  i = j
  BY DEF Distinct
<1> HIDE DEF new
<1>3. CASE i = 1 \/ j = 1
  <2>1. i # 1 => i \in 2..Len(new)
    BY <1>1
  <2>2. j # 1 => j \in 2..Len(new)
    BY <1>1
  <2> QED BY <1>1, <1>2, <1>3, <2>1, <2>2
<1>4. CASE i # 1 /\ j # 1
  <2>1. i \in 2..Len(new) /\ j \in 2..Len(new)
    BY <1>1, <1>4
  <2>2. i - 1 = j - 1
    BY <1>1, <2>1 DEF Distinct
  <2> QED BY <2>1, <2>2
<1> QED BY <1>3, <1>4

\* Where a key is found once another key was put in front.
LEMMA PrependHolds ==
  ASSUME NEW list \in Seq(Key), NEW k \in Key, Distinct(list), ~ HasKey(list, k), NEW key
  PROVE  /\ Holds(<<k>> \o list, key) <=> Holds(list, key) \/ key = k.dataEncKey
         /\ SourceIn(<<k>> \o list, k.dataEncKey) = k.srcNodeId
         /\ Holds(list, key) => SourceIn(<<k>> \o list, key) = SourceIn(list, key)
<1> DEFINE new == <<k>> \o list
<1>1. /\ Len(list) \in Nat /\ Len(new) = Len(list) + 1 /\ new[1] = k
      /\ \A i \in 1..Len(list) : i + 1 \in 1..Len(new) /\ new[i + 1] = list[i]
      /\ \A i \in 1..Len(new) : i # 1 => i - 1 \in 1..Len(list) /\ new[i] = list[i - 1]
  <2>1. \A i \in 2..Len(list) + 1 : i - 1 \in 1..Len(list) /\ (i - 1) + 1 = i
    OBVIOUS
  <2> QED BY <2>1, PrependKey
<1>2. Distinct(new)
  BY PrependDistinct
<1> HIDE DEF new
<1>3. Holds(new, key) <=> Holds(list, key) \/ key = k.dataEncKey
  <2>1. 1 \in 1..Len(new)
    BY <1>1
  <2> QED BY <1>1, <2>1 DEF Holds
<1>4. SourceIn(new, k.dataEncKey) = k.srcNodeId
  <2>1. 1 \in 1..Len(new)
    BY <1>1
  <2> QED BY <1>1, <1>2, <2>1 DEF SourceIn, Distinct
<1>5. ASSUME Holds(list, key) PROVE SourceIn(new, key) = SourceIn(list, key)
  <2>1. PICK i \in 1..Len(list) : list[i].dataEncKey = key
    BY <1>5 DEF Holds
  <2>2. SourceIn(list, key) = list[i].srcNodeId
    BY <2>1 DEF SourceIn, Distinct
  <2>3. i + 1 \in 1..Len(new) /\ new[i + 1] = list[i]
    BY <1>1
  <2>4. SourceIn(new, key) = new[i + 1].srcNodeId
    BY <1>2, <2>1, <2>3 DEF SourceIn, Distinct
  <2> QED BY <2>2, <2>3, <2>4
<1> QED BY <1>3, <1>4, <1>5 DEF new
-----------------------------------------------------------------------------
Inv == TypeOK /\ NoKeyTwice

LEMMA InitInv == Init => Inv
BY DEF Init, Inv, TypeOK, NoKeyTwice

LEMMA NextInv == Inv /\ [Next]_sKeys => Inv'
<1> SUFFICES ASSUME Inv, [Next]_sKeys PROVE Inv'
  OBVIOUS
<1>1. CASE UNCHANGED sKeys
  BY <1>1 DEF Inv, TypeOK, NoKeyTwice
<1>2. ASSUME NEW id \in KeyIds, NEW k \in Key, AddKey(id, k), ~ HasKey(FindKeysById(id), k)
      PROVE  Inv'
  <2> DEFINE list == FindKeysById(id)
  <2>1. list \in Seq(Key) /\ Distinct(list)
    BY FoundList DEF Inv
  <2>2. sKeys' = [x \in DOMAIN sKeys \cup {id} |->
                     IF x = id THEN <<k>> \o list ELSE sKeys[x]]
    BY <1>2 DEF AddKey
  <2>3. /\ <<k>> \o list \in Seq(Key) /\ <<k>> \o list # << >>
        /\ Distinct(<<k>> \o list)
    <3> HIDE DEF list
    <3>1. <<k>> \o list \in Seq(Key) /\ Len(<<k>> \o list) = Len(list) + 1 /\ Len(list) \in Nat
      BY <2>1, PrependKey
    <3>2. Distinct(<<k>> \o list)
      BY <2>1, <1>2, PrependDistinct DEF list
    <3> QED BY <3>1, <3>2
  <2> HIDE DEF list
  <2>4. TypeOK'
    BY <2>2, <2>3 DEF Inv, TypeOK
  <2>5. NoKeyTwice'
    BY <2>2, <2>3 DEF Inv, NoKeyTwice, Distinct
  <2> QED BY <2>4, <2>5 DEF Inv
<1>3. Next => UNCHANGED sKeys \/ \E id \in KeyIds : \E k \in Key :
                                   AddKey(id, k) /\ ~ HasKey(FindKeysById(id), k)
  BY DEF Next, AddKey
<1> QED BY <1>1, <1>2, <1>3

(***************************************************************************)
(* The lists of the key table are well formed after any sequence of        *)
(* AddKey calls.                                                           *)
(***************************************************************************)
THEOREM TableTypeCorrect == Spec => []TypeOK
<1>1. Inv => TypeOK
  BY DEF Inv
<1> QED BY <1>1, InitInv, NextInv, PTL DEF Spec

(***************************************************************************)
(* AddKey never files the same key bytes twice under a key id.             *)
(***************************************************************************)
THEOREM NeverTwice == Spec => []NoKeyTwice
<1>1. Inv => NoKeyTwice
  BY DEF Inv
<1> QED BY <1>1, InitInv, NextInv, PTL DEF Spec

\* A step of the lists is a step of the map, or leaves it unchanged.
LEMMA StepImplements == Inv /\ [Next]_sKeys => [Map!MapNext]_AsMap
<1> SUFFICES ASSUME Inv, [Next]_sKeys PROVE [Map!MapNext]_AsMap
  OBVIOUS
<1>1. CASE UNCHANGED sKeys
  BY <1>1 DEF AsMap, Filed, FindKeysById
<1>2. ASSUME NEW id \in KeyIds, NEW k \in Key, AddKey(id, k), ~ HasKey(FindKeysById(id), k)
      PROVE  Map!MapNext
  <2> DEFINE list == FindKeysById(id)
             pair == <<id, k.dataEncKey>>
  <2>1. list \in Seq(Key) /\ Distinct(list)
    BY FoundList DEF Inv
  <2>2. \A x : FindKeysById(x)' = IF x = id THEN <<k>> \o list ELSE FindKeysById(x)
    <3>1. sKeys' = [x \in DOMAIN sKeys \cup {id} |-> IF x = id THEN <<k>> \o list ELSE sKeys[x]]
      BY <1>2 DEF AddKey
    <3> HIDE DEF list
    <3> QED BY <3>1 DEF FindKeysById
  <2>3. \A key : /\ Holds(<<k>> \o list, key) <=> Holds(list, key) \/ key = k.dataEncKey
                 /\ SourceIn(<<k>> \o list, k.dataEncKey) = k.srcNodeId
                 /\ Holds(list, key) => SourceIn(<<k>> \o list, key) = SourceIn(list, key)
    <3> HIDE DEF list
    <3> QED BY <2>1, <1>2, PrependHolds DEF list
  <2>4. k.dataEncKey \in Keys /\ k.srcNodeId \in NodeIds
    BY DEF Key
  <2>5. pair \notin Filed
    BY <1>2 DEF Filed, Holds, HasKey, IsSameKey
  <2>6. Filed' = Filed \cup {pair}
    <3>1. \A x \in KeyIds \X Keys : x \in Filed' <=> x \in Filed \/ x = pair
      <4> TAKE x \in KeyIds \X Keys
      <4>1. x \in Filed' <=> Holds(FindKeysById(x[1])', x[2])
        BY DEF Filed
      <4>2. CASE x[1] = id
        <5>1. x = pair <=> x[2] = k.dataEncKey
          BY <4>2
        <5>2. x \in Filed <=> Holds(list, x[2])
          BY <4>2 DEF Filed
        <5>3. x \in Filed' <=> Holds(<<k>> \o list, x[2])
          BY <4>1, <4>2, <2>2
        <5> QED BY <5>1, <5>2, <5>3, <2>3
      <4>3. CASE x[1] # id
        BY <4>1, <4>3, <2>2 DEF Filed
      <4> QED BY <4>2, <4>3
    <3> QED BY <3>1, <2>4 DEF Filed
  <2>7. AsMap' = [x \in Filed \cup {pair} |-> IF x \in Filed THEN AsMap[x] ELSE k.srcNodeId]
    <3>1. AsMap' = [x \in Filed' |-> SourceIn(FindKeysById(x[1])', x[2])]
      BY DEF AsMap
    <3>2. ASSUME NEW x \in Filed PROVE SourceIn(FindKeysById(x[1])', x[2]) = AsMap[x]
      BY <2>2, <2>3 DEF Filed, AsMap
    <3>3. SourceIn(FindKeysById(pair[1])', pair[2]) = k.srcNodeId
      BY <2>2, <2>3
    <3> QED BY <3>1, <3>2, <3>3, <2>5, <2>6
  <2>8. DOMAIN AsMap = Filed
    BY DEF AsMap
  <2>9. AsMap' = Map!AddKey(AsMap, id, k.dataEncKey, k.srcNodeId)
    BY <2>7, <2>8 DEF Map!AddKey
  <2> QED BY <2>4, <2>9 DEF Map!MapNext
<1>3. Next => UNCHANGED sKeys \/ \E id \in KeyIds : \E k \in Key :
                                   AddKey(id, k) /\ ~ HasKey(FindKeysById(id), k)
  BY DEF Next, AddKey
<1> QED BY <1>1, <1>2, <1>3

(***************************************************************************)
(* MessageEncryptionKeyTable implements KeyMap: it remembers the first     *)
(* source it is given with a key, and forgets nothing.                     *)
(***************************************************************************)
THEOREM ImplementsMap == Spec => ImplementsKeyMap
<1>1. Init => Map!MapInit
  <2> SUFFICES ASSUME Init PROVE AsMap = [x \in {} |-> 0]
    BY DEF Map!MapInit
  <2>1. Filed = {}
    BY DEF Init, Filed, Holds, FindKeysById
  <2> QED BY <2>1 DEF AsMap
<1> QED BY <1>1, InitInv, NextInv, StepImplements, PTL DEF Spec, ImplementsKeyMap, Map!MapSpec
=============================================================================
