--------------------------- MODULE DecryptionProofs ---------------------------
(***************************************************************************)
(* Proofs about Decryption, for any messages, hints, keys and files.       *)
(***************************************************************************)
EXTENDS Decryption, WellFoundedInduction, TLAPS

\* A nonempty set of natural numbers has a first one.
LEMMA FirstExists ==
  ASSUME NEW S, S \subseteq Nat, S # {}
  PROVE  First(S) \in S /\ \A j \in S : First(S) <= j
<1>1. PICK i \in S : \A j \in S : ~ (<<j, i>> \in OpToRel(<, Nat))
  BY NatLessThanWellFounded, WFMin
<1>2. \A j \in S : ~ (j < i)
  BY <1>1 DEF OpToRel
<1>3. \E x \in S : \A j \in S : x <= j
  BY <1>2
<1> QED BY <1>3 DEF First

\* Every entry that PreloadHints makes comes from a hint that names it.
LEMMA PreloadEffect ==
  ASSUME NEW table, NEW hints, Len(hints) \in Nat
  PROVE  /\ DOMAIN table \subseteq DOMAIN PreloadHints(table, hints)
         /\ \A x \in DOMAIN table : PreloadHints(table, hints)[x] = table[x]
         /\ \A x \in DOMAIN PreloadHints(table, hints) \ DOMAIN table :
              \E i \in Named(hints) : /\ x = HintId(hints[i])
                                      /\ PreloadHints(table, hints)[x] = hints[i].srcNodeId
<1> SUFFICES ASSUME NEW x \in DOMAIN PreloadHints(table, hints) \ DOMAIN table
             PROVE  \E i \in Named(hints) : /\ x = HintId(hints[i])
                                            /\ PreloadHints(table, hints)[x] = hints[i].srcNodeId
  BY DEF PreloadHints
<1> DEFINE S == {i \in Named(hints) : HintId(hints[i]) = x}
<1>1. S \subseteq Nat /\ S # {}
  BY DEF PreloadHints, Named
<1>2. First(S) \in S
  BY <1>1, FirstExists
<1>3. PreloadHints(table, hints)[x] = hints[First(S)].srcNodeId
  BY DEF PreloadHints
<1> QED BY <1>2, <1>3
-----------------------------------------------------------------------------
(***************************************************************************)
(* Hints and files.                                                        *)
(***************************************************************************)
HintsFromTexts ==
  /\ hintFile.keys \in Seq(TextHints)
  /\ hintsDSB \in Seq(TextHints)
  /\ \A p \in Paths : files[p].lines \in HintTexts \cup {<< >>}

LEMMA Texts == \A t \in HintTexts \cup {<< >>} : t \in Seq(LineType)
<1>1. HintTexts \subseteq Seq(LineType)
  BY DecryptionAssumption
<1>2. << >> \in Seq(LineType)
  OBVIOUS
<1> QED BY <1>1, <1>2

LEMMA TextLines ==
  ASSUME NEW t \in HintTexts, NEW i \in 1..Len(t)
  PROVE  ParseMatterProxyHintLine(t[i]) \in TextHints
<1> DEFINE H(u) == {ParseMatterProxyHintLine(u[j]) : j \in 1..Len(u)}
<1>1. ParseMatterProxyHintLine(t[i]) \in H(t)
  OBVIOUS
<1>2. H(t) \in {H(u) : u \in HintTexts}
  OBVIOUS
<1> HIDE DEF H
<1>3. ParseMatterProxyHintLine(t[i]) \in UNION {H(u) : u \in HintTexts}
  BY <1>1, <1>2
<1> QED BY <1>3, Zenon DEF TextHints, H

\* Parsing a text gives hints of texts.
LEMMA ParsedHints ==
  ASSUME NEW t \in HintTexts \cup {<< >>}
  PROVE  ParseMatterProxyHintBlob(t) \in Seq(TextHints)
<1>1. t \in Seq(LineType)
  BY Texts
<1>2. Len(t) \in Nat /\ (t = << >> => Len(t) = 0)
  BY <1>1
<1>3. \A i \in 1..Len(t) : ParseMatterProxyHintLine(t[i]) \in TextHints
  <2>1. CASE t \in HintTexts
    BY <2>1, TextLines
  <2>2. CASE t = << >>
    BY <2>2, <1>2
  <2> QED BY <2>1, <2>2
<1> QED BY <1>2, <1>3 DEF ParseMatterProxyHintBlob

\* A line's hint has the type of a hint.
LEMMA LineHintType ==
  ASSUME NEW l \in LineType
  PROVE  ParseMatterProxyHintLine(l) \in HintType
<1>0. 0 \in UInt16
  BY SMT DEF UInt16
<1>1. l.src \in NodeIds \cup {Absent} /\ l.key \in Keys \cup {NoKey} /\ l.session \in Int
  BY DEF LineType
<1>2. 0 \in NodeIds
  BY DecryptionAssumption
<1> DEFINE h == ParseMatterProxyHintLine(l)
<1>3. h.key \in Keys \cup {NoKey} /\ h.hasKeyId \in BOOLEAN /\ h.hasSrcNodeId \in BOOLEAN
  BY <1>1 DEF ParseMatterProxyHintLine
<1>4. h.keyId \in UInt16
  BY <1>1, <1>0 DEF ParseMatterProxyHintLine
<1>5. h.srcNodeId \in NodeIds
  BY <1>1, <1>2 DEF ParseMatterProxyHintLine
<1>6. h = [key |-> h.key, hasKeyId |-> h.hasKeyId, keyId |-> h.keyId,
           hasSrcNodeId |-> h.hasSrcNodeId, srcNodeId |-> h.srcNodeId]
  BY DEF ParseMatterProxyHintLine
<1> HIDE DEF h
<1>7. h \in HintType
  BY <1>3, <1>4, <1>5, <1>6 DEF HintType
<1> QED BY <1>7 DEF h

\* The hints of a text have the type of a hint.
LEMMA TextHintType == TextHints \subseteq HintType
<1>1. \A t \in HintTexts : \A i \in 1..Len(t) : ParseMatterProxyHintLine(t[i]) \in HintType
  <2> TAKE t \in HintTexts
  <2>1. t \in Seq(LineType)
    BY Texts
  <2>2. \A i \in 1..Len(t) : t[i] \in LineType
    BY <2>1
  <2> QED BY <2>2, LineHintType
<1>2. \A h \in TextHints : \E t \in HintTexts : \E i \in 1..Len(t) : h = ParseMatterProxyHintLine(t[i])
  BY Zenon DEF TextHints
<1> QED BY <1>1, <1>2

LEMMA RefreshedHints ==
  ASSUME TypeOK, HintsFromTexts
  PROVE  /\ RefreshMatterProxyHintKeys.keys \in Seq(TextHints)
         /\ RefreshMatterProxyHintKeys.path \in Paths \cup {NoPath}
         /\ RefreshMatterProxyHintKeys.mtime \in 0..MaxTime
         /\ RefreshMatterProxyHintKeys.opened \in BOOLEAN
         /\ RefreshMatterProxyHintKeys =
              [keys |-> RefreshMatterProxyHintKeys.keys, path |-> RefreshMatterProxyHintKeys.path,
               mtime |-> RefreshMatterProxyHintKeys.mtime,
               opened |-> RefreshMatterProxyHintKeys.opened]
<1>0. 0 \in 0..MaxTime /\ << >> \in Seq(TextHints)
  BY DecryptionAssumption
<1>1. CASE RefreshMatterProxyHintKeys = NoHints
  BY <1>0, <1>1 DEF NoHints
<1>t. hintFile = [keys |-> hintFile.keys, path |-> hintFile.path, mtime |-> hintFile.mtime,
                  opened |-> hintFile.opened]
      /\ hintFile.path \in Paths \cup {NoPath} /\ hintFile.mtime \in 0..MaxTime
      /\ hintFile.opened \in BOOLEAN
  BY DEF TypeOK
<1>2. CASE RefreshMatterProxyHintKeys = hintFile
  BY <1>2, <1>t DEF HintsFromTexts
<1>3. CASE prefPath # NoPath /\ RefreshMatterProxyHintKeys = [NoHints EXCEPT !.path = prefPath]
  BY <1>0, <1>3 DEF NoHints, TypeOK
<1>4. CASE prefPath # NoPath /\ RefreshMatterProxyHintKeys = ReadHintFile
  <2>1. prefPath \in Paths /\ files[prefPath].lines \in HintTexts \cup {<< >>}
        /\ files[prefPath].mtime \in 0..MaxTime /\ files[prefPath].openable \in BOOLEAN
    BY <1>4 DEF TypeOK, HintsFromTexts, FileType
  <2>2. ReadHintFile.keys \in Seq(TextHints)
    BY <1>0, <2>1, ParsedHints DEF ReadHintFile
  <2> QED BY <1>4, <2>1, <2>2 DEF ReadHintFile
<1> QED BY <1>1, <1>2, <1>3, <1>4 DEF RefreshMatterProxyHintKeys

\* The table after a refresh: old entries, and entries named by hints.
LEMMA RefreshedEntries ==
  ASSUME TypeOK, HintsFromTexts
  PROVE  /\ DOMAIN keyTable \subseteq DOMAIN RefreshedTable
         /\ \A x \in DOMAIN keyTable : RefreshedTable[x] = keyTable[x]
         /\ \A x \in DOMAIN RefreshedTable \ DOMAIN keyTable :
              \E h \in TextHints : /\ h.hasKeyId /\ h.key # NoKey /\ x = HintId(h)
                                   /\ RefreshedTable[x] = h.srcNodeId
<1> DEFINE hints == RefreshMatterProxyHintKeys.keys
<1>1. hints \in Seq(TextHints)
  BY RefreshedHints
<1>2. CASE RefreshedTable = keyTable
  BY <1>2
<1>3. CASE RefreshedTable = PreloadHints(keyTable, hints)
  <2> HIDE DEF hints
  <2>1. Len(hints) \in Nat /\ \A i \in Named(hints) : hints[i] \in TextHints
                                /\ hints[i].hasKeyId /\ hints[i].key # NoKey
    BY <1>1 DEF Named
  <2>2. /\ DOMAIN keyTable \subseteq DOMAIN PreloadHints(keyTable, hints)
        /\ \A x \in DOMAIN keyTable : PreloadHints(keyTable, hints)[x] = keyTable[x]
        /\ \A x \in DOMAIN PreloadHints(keyTable, hints) \ DOMAIN keyTable :
              \E i \in Named(hints) : /\ x = HintId(hints[i])
                                      /\ PreloadHints(keyTable, hints)[x] = hints[i].srcNodeId
    BY <2>1, PreloadEffect
  <2> QED BY <1>3, <2>1, <2>2
<1> QED BY <1>2, <1>3 DEF RefreshedTable

\* The hints that are tried are hints of texts.
LEMMA TriedHints ==
  ASSUME TypeOK, HintsFromTexts
  PROVE  /\ Len(AllHints) \in Nat
         /\ \A i \in 1..Len(AllHints) : AllHints[i] \in TextHints
<1>1. RefreshMatterProxyHintKeys.keys \in Seq(TextHints) /\ hintsDSB \in Seq(TextHints)
  BY RefreshedHints DEF HintsFromTexts
<1>2. AllHints \in Seq(TextHints)
  BY <1>1 DEF AllHints
<1> QED BY <1>2

-----------------------------------------------------------------------------
(***************************************************************************)
(* What a step does to the key table.                                      *)
(***************************************************************************)
Grows(old, new) ==
  /\ DOMAIN old \subseteq DOMAIN new
  /\ \A x \in DOMAIN old : new[x] = old[x]
  /\ new = [x \in DOMAIN new |-> new[x]]

\* A source with which the key of a decrypted message may be filed.
FiledSource(m, src) ==
  \/ src = m.nonceSrc
  \/ \E h \in TextHints : HintWorks(m, h) /\ src = HintSource(m, h)

\* The reasons for which entry x may come into the table with source src.
FromHint(x, src) ==
  \E h \in TextHints : h.hasKeyId /\ h.key # NoKey /\ x = HintId(h) /\ src = h.srcNodeId

FromTrial(x, src, msgs) ==
  \E m \in msgs : x = EntryOf(m) /\ FiledSource(m, src)

NewEntries(old, new, msgs) ==
  \A x \in DOMAIN new \ DOMAIN old :
    \/ FromHint(x, new[x])
    \/ x \in RecoveredKeys /\ new[x] = 0
    \/ FromTrial(x, new[x], msgs)

LEMMA AddKeyGrows ==
  ASSUME NEW table, NEW id, NEW key, NEW src
  PROVE  Grows(table, AddKey(table, id, key, src))
BY DEF AddKey, Grows

LEMMA PreloadGrows ==
  ASSUME NEW table, NEW hints
  PROVE  Grows(table, PreloadHints(table, hints))
BY DEF PreloadHints, Grows

LEMMA GrowsTwice ==
  ASSUME NEW a, NEW b, NEW c, Grows(a, b), Grows(b, c)
  PROVE  Grows(a, c)
BY DEF Grows

LEMMA RefreshGrows ==
  ASSUME TypeOK, HintsFromTexts, NEW msgs
  PROVE  Grows(keyTable, RefreshedTable) /\ NewEntries(keyTable, RefreshedTable, msgs)
<1>1. Grows(keyTable, keyTable)
  BY DEF TypeOK, Grows
<1>2. Grows(keyTable, RefreshedTable)
  BY <1>1, PreloadGrows DEF RefreshedTable
<1>3. \A x \in DOMAIN RefreshedTable \ DOMAIN keyTable : FromHint(x, RefreshedTable[x])
  BY RefreshedEntries DEF FromHint
<1> QED BY <1>2, <1>3 DEF NewEntries

\* A trial files at most the key of the message that it decrypted.
LEMMA TrialFiles ==
  ASSUME TypeOK, HintsFromTexts, NEW m \in Messages
  PROVE  \/ TableAfter(m) = RefreshedTable
         \/ /\ CanDecrypt(m)
            /\ \E src : /\ FiledSource(m, src)
                        /\ TableAfter(m) = AddKey(RefreshedTable, m.sessionId, m.dataEncKey, src)
<1>1. CASE InTable(RefreshedTable, m)
  BY <1>1 DEF TableAfter
<1>2. CASE ~ InTable(RefreshedTable, m) /\ InUserPrefs(m)
  BY <1>2 DEF TableAfter, CanDecrypt, FiledSource
<1>3. CASE ~ InTable(RefreshedTable, m) /\ ~ InUserPrefs(m) /\ WorkingHints(m) # {}
  <2> DEFINE i == First(WorkingHints(m))
  <2>1. Len(AllHints) \in Nat
    BY TriedHints
  <2>2. WorkingHints(m) \subseteq Nat
    BY <2>1 DEF WorkingHints
  <2>3. i \in WorkingHints(m)
    BY <1>3, <2>2, FirstExists
  <2> HIDE DEF i
  <2>4. AllHints[i] \in TextHints /\ HintWorks(m, AllHints[i])
    BY <2>3, TriedHints DEF WorkingHints
  <2>5. FiledSource(m, HintSource(m, AllHints[i]))
    BY <2>4 DEF FiledSource
  <2>6. TableAfter(m) = AddKey(RefreshedTable, m.sessionId, m.dataEncKey, HintSource(m, AllHints[i]))
    BY <1>3 DEF TableAfter, i
  <2> QED BY <1>3, <2>5, <2>6 DEF CanDecrypt
<1>4. CASE ~ InTable(RefreshedTable, m) /\ ~ InUserPrefs(m) /\ WorkingHints(m) = {}
  BY <1>4 DEF TableAfter
<1> QED BY <1>1, <1>2, <1>3, <1>4

\* After a successful trial the table has an entry for the message.
LEMMA TrialLeavesEntry ==
  ASSUME NEW m, CanDecrypt(m)
  PROVE  InTable(RefreshedTable, m) \/ EntryOf(m) \in DOMAIN TableAfter(m)
<1>1. CASE InTable(RefreshedTable, m)
  BY <1>1
<1>2. ASSUME NEW src, TableAfter(m) = AddKey(RefreshedTable, m.sessionId, m.dataEncKey, src)
      PROVE  EntryOf(m) \in DOMAIN TableAfter(m)
  BY <1>2 DEF AddKey, EntryOf
<1> QED BY <1>1, <1>2 DEF CanDecrypt, TableAfter

LEMMA TableStep ==
  ASSUME TypeOK, HintsFromTexts, [Next]_vars
  PROVE  Grows(keyTable, keyTable') /\ NewEntries(keyTable, keyTable', decrypted')
<1>1. ASSUME NEW m \in Messages, TryDecryptMessage(m)
      PROVE  Grows(keyTable, keyTable') /\ NewEntries(keyTable, keyTable', decrypted')
  <2>1. keyTable' = TableAfter(m) /\ (CanDecrypt(m) => m \in decrypted')
    BY <1>1 DEF TryDecryptMessage
  <2>2. Grows(keyTable, RefreshedTable) /\ NewEntries(keyTable, RefreshedTable, decrypted')
    BY RefreshGrows
  <2>3. CASE TableAfter(m) = RefreshedTable
    BY <2>1, <2>2, <2>3
  <2>4. ASSUME NEW src, CanDecrypt(m), FiledSource(m, src),
               TableAfter(m) = AddKey(RefreshedTable, m.sessionId, m.dataEncKey, src)
        PROVE  Grows(keyTable, keyTable') /\ NewEntries(keyTable, keyTable', decrypted')
    <3>1. Grows(RefreshedTable, keyTable')
      BY <2>1, <2>4, AddKeyGrows
    <3>2. ASSUME NEW x \in DOMAIN keyTable' \ DOMAIN RefreshedTable
          PROVE  FromTrial(x, keyTable'[x], decrypted')
      <4>1. x = EntryOf(m) /\ keyTable'[x] = src
        BY <2>1, <2>4, <3>2 DEF AddKey, EntryOf
      <4> QED BY <2>1, <2>4, <4>1 DEF FromTrial
    <3>3. NewEntries(keyTable, keyTable', decrypted')
      BY <2>2, <3>1, <3>2 DEF NewEntries, Grows
    <3> QED BY <2>2, <3>1, <3>3, GrowsTwice
  <2> QED BY <2>3, <2>4, TrialFiles
<1>2. ASSUME NEW lines \in HintTexts, MatterProxyHintSecretsBlockCallback(lines)
      PROVE  Grows(keyTable, keyTable') /\ NewEntries(keyTable, keyTable', decrypted')
  <2> DEFINE hints == ParseMatterProxyHintBlob(lines)
  <2>1. hints \in Seq(TextHints)
    BY ParsedHints
  <2>2. keyTable' = PreloadHints(keyTable, hints)
    BY <1>2 DEF MatterProxyHintSecretsBlockCallback
  <2> HIDE DEF hints
  <2>3. Len(hints) \in Nat /\ \A i \in Named(hints) : hints[i] \in TextHints
                                /\ hints[i].hasKeyId /\ hints[i].key # NoKey
    BY <2>1 DEF Named
  <2>4. \A x \in DOMAIN keyTable' \ DOMAIN keyTable : FromHint(x, keyTable'[x])
    BY <2>2, <2>3, PreloadEffect DEF FromHint
  <2> QED BY <2>2, <2>4, PreloadGrows DEF NewEntries
<1>3. ASSUME NEW r \in RecoveredKeys, RecoverKey(r[1], r[2])
      PROVE  Grows(keyTable, keyTable') /\ NewEntries(keyTable, keyTable', decrypted')
  <2>1. r = <<r[1], r[2]>>
    <3>1. RecoveredKeys \subseteq KeyIds \X Keys
      BY DecryptionAssumption
    <3> QED BY <3>1
  <2>2. keyTable' = AddKey(keyTable, r[1], r[2], 0)
    BY <1>3 DEF RecoverKey
  <2>3. \A x \in DOMAIN keyTable' \ DOMAIN keyTable : x = r /\ keyTable'[x] = 0
    BY <2>1, <2>2 DEF AddKey
  <2> QED BY <2>2, <2>3, AddKeyGrows DEF NewEntries
<1>4. ASSUME keyTable' = keyTable
      PROVE  Grows(keyTable, keyTable') /\ NewEntries(keyTable, keyTable', decrypted')
  BY <1>4 DEF TypeOK, Grows, NewEntries
<1> QED
  BY <1>1, <1>2, <1>3, <1>4
  DEF Next, vars, EditUserKeys, EditUserNodes, SetHintPath, WriteHintFile, ChangeAccess,
      RemoveHintFile

-----------------------------------------------------------------------------
(***************************************************************************)
(* The types, the hints and the reasons for the entries, which together    *)
(* are inductive.                                                          *)
(***************************************************************************)
IInv == TypeOK /\ HintsFromTexts /\ KeysAreJustified

LEMMA MessagesTyped == \A m \in Messages :
  /\ m.sessionId \in UInt16 /\ m.dataEncKey \in Keys
  /\ m.srcNodeId \in NodeIds /\ m.nonceSrc \in NodeIds /\ m.srcNodeId \in {0, m.nonceSrc}
<1>1. Messages \subseteq MessageType /\ KeyIds \subseteq UInt16
      /\ \A m \in Messages : m.srcNodeId \in {0, m.nonceSrc}
  BY DecryptionAssumption
<1> QED BY <1>1 DEF MessageType

LEMMA InitIInv == Init => IInv
<1> SUFFICES ASSUME Init PROVE IInv
  OBVIOUS
<1>1. keyTable = [x \in {} |-> 0]
  BY DEF Init, MapInit
<1>2. userKeys \subseteq Keys /\ userNodes \subseteq NodeIds
  BY DecryptionAssumption DEF Init
<1>3. << >> \in Seq(HintType) /\ << >> \in Seq(TextHints) /\ 0 \in 0..MaxTime
  BY DecryptionAssumption
<1>4. files \in [Paths -> FileType] /\ \A p \in Paths : files[p].lines = << >>
  BY <1>3 DEF Init, FileType
<1>5. hintFile \in [keys : Seq(HintType), path : Paths \cup {NoPath}, mtime : 0..MaxTime,
                    opened : BOOLEAN]
      /\ hintFile.keys = << >>
  BY <1>3 DEF Init, NoHints
<1>6. HintsFromTexts
  BY <1>3, <1>4, <1>5 DEF HintsFromTexts, Init
<1>7. TypeOK
  BY <1>1, <1>2, <1>3, <1>4, <1>5 DEF TypeOK, Init
<1>8. KeysAreJustified
  BY <1>1 DEF KeysAreJustified
<1> QED BY <1>6, <1>7, <1>8 DEF IInv

LEMMA DecryptedGrows ==
  ASSUME TypeOK, [Next]_vars
  PROVE  decrypted \subseteq decrypted' /\ decrypted' \subseteq Messages
BY DEF TypeOK, Next, vars, TryDecryptMessage, EditUserKeys, EditUserNodes, SetHintPath,
       WriteHintFile, ChangeAccess, RemoveHintFile, MatterProxyHintSecretsBlockCallback, RecoverKey

\* Hints and files stay what the texts say.
LEMMA HintsStep ==
  ASSUME TypeOK, HintsFromTexts, [Next]_vars
  PROVE  HintsFromTexts'
<1>1. hintFile'.keys \in Seq(TextHints)
  <2>1. CASE hintFile' = RefreshMatterProxyHintKeys
    BY <2>1, RefreshedHints
  <2>2. CASE hintFile' = hintFile
    BY <2>2 DEF HintsFromTexts
  <2> QED
    BY <2>1, <2>2
    DEF Next, vars, TryDecryptMessage, EditUserKeys, EditUserNodes, SetHintPath,
        WriteHintFile, ChangeAccess, RemoveHintFile, MatterProxyHintSecretsBlockCallback, RecoverKey
<1>2. hintsDSB' \in Seq(TextHints)
  <2>1. CASE hintsDSB' = hintsDSB
    BY <2>1 DEF HintsFromTexts
  <2>2. ASSUME NEW lines \in HintTexts, hintsDSB' = ParseMatterProxyHintBlob(lines)
        PROVE  hintsDSB' \in Seq(TextHints)
    BY <2>2, ParsedHints
  <2> QED
    BY <2>1, <2>2
    DEF Next, vars, TryDecryptMessage, EditUserKeys, EditUserNodes, SetHintPath,
        WriteHintFile, ChangeAccess, RemoveHintFile, MatterProxyHintSecretsBlockCallback, RecoverKey
<1>3. \A p \in Paths : files'[p].lines \in HintTexts \cup {<< >>}
  <2>1. CASE files' = files
    BY <2>1 DEF HintsFromTexts
  <2>2. ASSUME NEW path \in Paths, NEW lines \in HintTexts, NEW t \in 1..MaxTime,
               NEW openable \in BOOLEAN, WriteHintFile(path, lines, t, openable)
        PROVE  \A p \in Paths : files'[p].lines \in HintTexts \cup {<< >>}
    BY <2>2 DEF WriteHintFile, HintsFromTexts, TypeOK
  <2>3. ASSUME NEW path \in Paths, RemoveHintFile(path)
        PROVE  \A p \in Paths : files'[p].lines \in HintTexts \cup {<< >>}
    <3>1. \A p \in Paths : files[p].lines \in HintTexts \cup {<< >>}
      BY DEF HintsFromTexts
    <3>2. \A p \in Paths : files'[p].lines = files[p].lines
      BY <2>3 DEF RemoveHintFile, TypeOK, FileType
    <3> QED BY <3>1, <3>2
  <2>4. ASSUME NEW path \in Paths, ChangeAccess(path)
        PROVE  \A p \in Paths : files'[p].lines \in HintTexts \cup {<< >>}
    <3>1. \A p \in Paths : files[p].lines \in HintTexts \cup {<< >>}
      BY DEF HintsFromTexts
    <3>2. \A p \in Paths : files'[p].lines = files[p].lines
      BY <2>4 DEF ChangeAccess, TypeOK, FileType
    <3> QED BY <3>1, <3>2
  <2> QED
    BY <2>1, <2>2, <2>3, <2>4
    DEF Next, vars, disk, TryDecryptMessage, EditUserKeys, EditUserNodes, SetHintPath,
        MatterProxyHintSecretsBlockCallback, RecoverKey
<1> QED BY <1>1, <1>2, <1>3 DEF HintsFromTexts

\* The entries of the key table keep their type.
LEMMA TableTyped ==
  ASSUME TypeOK, HintsFromTexts, [Next]_vars
  PROVE  DOMAIN keyTable' \subseteq UInt16 \X Keys /\ keyTable' \in [DOMAIN keyTable' -> NodeIds]
<1>1. Grows(keyTable, keyTable') /\ NewEntries(keyTable, keyTable', decrypted')
  BY TableStep
<1>2. decrypted' \subseteq Messages
  BY DecryptedGrows
<1> DEFINE Good(x, src) == x \in UInt16 \X Keys /\ src \in NodeIds
<1>3. \A x \in DOMAIN keyTable : Good(x, keyTable[x])
  BY DEF TypeOK
<1>4. ASSUME NEW x, NEW src, FromHint(x, src)
      PROVE  Good(x, src)
  <2>1. PICK h \in TextHints : h.key # NoKey /\ x = HintId(h) /\ src = h.srcNodeId
    BY <1>4 DEF FromHint
  <2>2. h \in HintType
    BY TextHintType
  <2>3. h.key \in Keys /\ h.keyId \in UInt16 /\ h.srcNodeId \in NodeIds
    BY <2>1, <2>2 DEF HintType
  <2> QED BY <2>1, <2>3 DEF HintId
<1>5. ASSUME NEW x \in RecoveredKeys
      PROVE  Good(x, 0)
  <2>1. RecoveredKeys \subseteq KeyIds \X Keys /\ KeyIds \subseteq UInt16 /\ 0 \in NodeIds
    BY DecryptionAssumption
  <2> QED BY <2>1
<1>6. ASSUME NEW x, NEW src, FromTrial(x, src, decrypted')
      PROVE  Good(x, src)
  <2>1. PICK m \in Messages : x = EntryOf(m) /\ FiledSource(m, src)
    BY <1>2, <1>6 DEF FromTrial
  <2>2. m.sessionId \in UInt16 /\ m.dataEncKey \in Keys
        /\ m.srcNodeId \in NodeIds /\ m.nonceSrc \in NodeIds
    BY MessagesTyped
  <2>3. \A h \in TextHints : h.srcNodeId \in NodeIds
    BY TextHintType DEF HintType
  <2>4. src \in NodeIds
    BY <2>1, <2>2, <2>3 DEF FiledSource, HintSource
  <2> QED BY <2>1, <2>2, <2>4 DEF EntryOf
<1> HIDE DEF Good
<1>7. \A x \in DOMAIN keyTable' : Good(x, keyTable'[x])
  BY <1>1, <1>3, <1>4, <1>5, <1>6 DEF Grows, NewEntries
<1> QED BY <1>1, <1>7 DEF Grows, Good

LEMMA TypeStep ==
  ASSUME TypeOK, HintsFromTexts, [Next]_vars
  PROVE  TypeOK'
<1>1. DOMAIN keyTable' \subseteq UInt16 \X Keys /\ keyTable' \in [DOMAIN keyTable' -> NodeIds]
  BY TableTyped
<1>2. decrypted' \subseteq Messages
  BY DecryptedGrows
<1>3. userKeys' \subseteq Keys /\ userNodes' \subseteq NodeIds /\ prefPath' \in Paths \cup {NoPath}
  <2>1. \A s \in UserKeySets : s \subseteq Keys
    BY DecryptionAssumption
  <2>2. \A s \in UserNodeSets : s \subseteq NodeIds
    BY DecryptionAssumption
  <2> QED
    BY <2>1, <2>2
    DEF TypeOK, Next, vars, prefs, TryDecryptMessage, EditUserKeys, EditUserNodes, SetHintPath,
        WriteHintFile, ChangeAccess, RemoveHintFile, MatterProxyHintSecretsBlockCallback, RecoverKey
<1>4. Seq(TextHints) \subseteq Seq(HintType)
  BY TextHintType
<1>5. hintsDSB' \in Seq(HintType)
  BY <1>4, HintsStep DEF HintsFromTexts
<1>6. hintFile' \in [keys : Seq(HintType), path : Paths \cup {NoPath}, mtime : 0..MaxTime,
                     opened : BOOLEAN]
  <2>1. CASE hintFile' = RefreshMatterProxyHintKeys
    BY <1>4, <2>1, RefreshedHints
  <2>2. CASE hintFile' = hintFile
    BY <2>2 DEF TypeOK
  <2> QED
    BY <2>1, <2>2
    DEF Next, vars, TryDecryptMessage, EditUserKeys, EditUserNodes, SetHintPath,
        WriteHintFile, ChangeAccess, RemoveHintFile, MatterProxyHintSecretsBlockCallback, RecoverKey
<1>7. files' \in [Paths -> FileType] /\ clock' \in Nat
  <2>1. CASE files' = files /\ clock' = clock
    BY <2>1 DEF TypeOK
  <2>2. ASSUME NEW path \in Paths, NEW lines \in HintTexts, NEW t \in 1..MaxTime,
               NEW openable \in BOOLEAN, WriteHintFile(path, lines, t, openable)
        PROVE  files' \in [Paths -> FileType] /\ clock' \in Nat
    <3>1. MaxTime \in Nat
      BY DecryptionAssumption
    <3>2. [exists |-> TRUE, openable |-> openable, mtime |-> t, lines |-> lines] \in FileType
      BY <3>1 DEF FileType
    <3> QED BY <3>2, <2>2 DEF WriteHintFile, TypeOK
  <2>3. ASSUME NEW path \in Paths, RemoveHintFile(path)
        PROVE  files' \in [Paths -> FileType] /\ clock' \in Nat
    BY <2>3 DEF RemoveHintFile, TypeOK, FileType
  <2>4. ASSUME NEW path \in Paths, ChangeAccess(path)
        PROVE  files' \in [Paths -> FileType] /\ clock' \in Nat
    BY <2>4 DEF ChangeAccess, TypeOK, FileType
  <2> QED
    BY <2>1, <2>2, <2>3, <2>4
    DEF Next, vars, disk, TryDecryptMessage, EditUserKeys, EditUserNodes, SetHintPath,
        MatterProxyHintSecretsBlockCallback, RecoverKey
<1> QED BY <1>1, <1>2, <1>3, <1>5, <1>6, <1>7 DEF TypeOK

LEMMA JustifiedStep ==
  ASSUME IInv, [Next]_vars
  PROVE  KeysAreJustified'
<1>1. Grows(keyTable, keyTable') /\ NewEntries(keyTable, keyTable', decrypted')
  BY TableStep DEF IInv
<1>2. decrypted \subseteq decrypted'
  BY DecryptedGrows DEF IInv
<1>3. \A x \in DOMAIN keyTable' \ DOMAIN keyTable :
        \/ \E h \in TextHints : h.hasKeyId /\ HintId(h) = x
        \/ x \in RecoveredKeys
        \/ \E m \in decrypted' : EntryOf(m) = x
  BY <1>1 DEF NewEntries, FromHint, FromTrial
<1> QED BY <1>2, <1>3 DEF IInv, KeysAreJustified

\* The types, the origin of the hints and the reasons for the entries of the
\* key table hold together in every state that TryDecryptMessage can reach.
THEOREM Invariance == Spec => []IInv
<1>1. IInv /\ [Next]_vars => IInv'
  BY TypeStep, HintsStep, JustifiedStep DEF IInv
<1> QED BY <1>1, InitIInv, PTL DEF Spec

\* Every variable of the decryption state has its type, in particular an
\* entry of the key table has a 16-bit id, a parsed key and one source.
THEOREM DecryptionTypeCorrect == Spec => []TypeOK
<1>1. IInv => TypeOK
  BY DEF IInv
<1> QED BY <1>1, Invariance, PTL

\* No failed trial of TryDecryptMessage leaves a key in the key table.
THEOREM OnlyJustifiedKeys == Spec => []KeysAreJustified
<1>1. IInv => KeysAreJustified
  BY DEF IInv
<1> QED BY <1>1, Invariance, PTL

-----------------------------------------------------------------------------
(***************************************************************************)
(* Stability: every message that was decrypted has an entry, and what the  *)
(* source of an entry may be is known.                                     *)
(***************************************************************************)
EntriesSupplied == \A x \in DOMAIN keyTable : Supplies(x, keyTable[x])

DecryptedHaveEntries == \A m \in decrypted : EntryOf(m) \in DOMAIN keyTable

LEMMA EntriesSuppliedStep ==
  ASSUME IInv, EntriesSupplied, [Next]_vars
  PROVE  EntriesSupplied'
<1>1. Grows(keyTable, keyTable') /\ NewEntries(keyTable, keyTable', decrypted')
  BY TableStep DEF IInv
<1>2. decrypted \subseteq decrypted'
  BY DecryptedGrows DEF IInv
<1> SUFFICES ASSUME NEW x \in DOMAIN keyTable'
             PROVE  Supplies(x, keyTable[x])'
  BY DEF EntriesSupplied
<1>3. CASE x \in DOMAIN keyTable
  <2>1. keyTable'[x] = keyTable[x] /\ Supplies(x, keyTable[x])
    BY <1>1, <1>3 DEF Grows, EntriesSupplied
  <2> QED BY <1>2, <2>1 DEF Supplies
<1>4. CASE x \notin DOMAIN keyTable
  <2>1. \/ FromHint(x, keyTable'[x])
        \/ x \in RecoveredKeys /\ keyTable'[x] = 0
        \/ FromTrial(x, keyTable'[x], decrypted')
    BY <1>1, <1>4 DEF NewEntries
  <2> QED BY <2>1 DEF FromHint, FromTrial, FiledSource, Supplies
<1> QED BY <1>3, <1>4

LEMMA HaveEntriesStep ==
  ASSUME IInv, DecryptedHaveEntries, [Next]_vars
  PROVE  DecryptedHaveEntries'
<1>1. Grows(keyTable, keyTable')
  BY TableStep DEF IInv
<1>2. CASE decrypted' = decrypted
  BY <1>1, <1>2 DEF DecryptedHaveEntries, Grows
<1>3. ASSUME NEW m \in Messages, TryDecryptMessage(m), CanDecrypt(m)
      PROVE  DecryptedHaveEntries'
  <2>1. keyTable' = TableAfter(m) /\ decrypted' = decrypted \cup {m}
    BY <1>3 DEF TryDecryptMessage
  <2>2. EntryOf(m) \in DOMAIN keyTable'
    <3>1. CASE InTable(RefreshedTable, m)
      <4>1. PICK x \in DOMAIN RefreshedTable : x[1] = m.sessionId /\ x[2] = m.dataEncKey
        BY <3>1 DEF InTable, Decrypts
      <4>2. TableAfter(m) = RefreshedTable
        BY <3>1 DEF TableAfter
      <4>3. x \in UInt16 \X Keys
        BY <2>1, <4>2, TableTyped DEF IInv
      <4> QED BY <2>1, <4>1, <4>2, <4>3 DEF EntryOf
    <3> QED BY <1>3, <2>1, <3>1, TrialLeavesEntry
  <2> QED BY <1>1, <2>1, <2>2 DEF DecryptedHaveEntries, Grows
<1> QED
  BY <1>2, <1>3
  DEF Next, vars, TryDecryptMessage, EditUserKeys, EditUserNodes, SetHintPath,
      WriteHintFile, ChangeAccess, RemoveHintFile, MatterProxyHintSecretsBlockCallback, RecoverKey

\* Once TryDecryptMessage has decrypted a message, the key table alone is
\* enough to decrypt it again, whatever happens to preferences and hints; only
\* where the header omits the source, and AddKey was first given the key with
\* another source by recovery, a hint or another message, is it not.
THEOREM DecryptionStays == Spec => []DecryptionIsStable
<1> DEFINE SInv == IInv /\ EntriesSupplied /\ DecryptedHaveEntries
<1>1. Init => SInv
  <2> SUFFICES ASSUME Init PROVE SInv
    OBVIOUS
  <2>1. DOMAIN keyTable = {} /\ decrypted = {}
    BY DEF Init, MapInit
  <2> QED BY <2>1, InitIInv DEF EntriesSupplied, DecryptedHaveEntries
<1>2. SInv /\ [Next]_vars => SInv'
  <2> SUFFICES ASSUME SInv, [Next]_vars PROVE SInv'
    OBVIOUS
  <2>1. IInv'
    BY TypeStep, HintsStep, JustifiedStep DEF IInv
  <2> QED BY <2>1, EntriesSuppliedStep, HaveEntriesStep
<1>3. SInv => DecryptionIsStable
  <2> SUFFICES ASSUME SInv, NEW m \in decrypted
               PROVE  InTable(keyTable, m) \/ FiledWithOtherSource(m)
    BY DEF DecryptionIsStable
  <2> DEFINE x == EntryOf(m)
  <2>1. m \in Messages /\ x \in DOMAIN keyTable
    BY DEF IInv, TypeOK, DecryptedHaveEntries
  <2>2. Supplies(x, keyTable[x])
    BY <2>1 DEF EntriesSupplied
  <2>3. x[1] = m.sessionId /\ x[2] = m.dataEncKey
    BY DEF EntryOf
  <2>4. CASE TableSource(m, keyTable[x]) = m.nonceSrc
    BY <2>1, <2>3, <2>4 DEF InTable, Decrypts
  <2>5. CASE TableSource(m, keyTable[x]) # m.nonceSrc
    <3>1. m.srcNodeId = 0 /\ keyTable[x] # m.nonceSrc
      BY <2>1, <2>5, MessagesTyped DEF TableSource
    <3> QED BY <2>1, <2>2, <3>1 DEF FiledWithOtherSource
  <2> QED BY <2>4, <2>5
<1> HIDE DEF SInv
<1> QED BY <1>1, <1>2, <1>3, PTL DEF Spec

-----------------------------------------------------------------------------
(***************************************************************************)
(* The copy of the hint file.  A copy is never newer than the file, and    *)
(* one as old as the file is what the file says, or empty if fopen failed. *)
(***************************************************************************)
KeysIn(f, opened) == IF opened THEN ParseMatterProxyHintBlob(f.lines) ELSE << >>

FileTimes ==
  \A p \in Paths : files[p].mtime <= clock /\ (files[p].exists => files[p].mtime > 0)

CopyTimes ==
  hintFile.path \in Paths =>
    /\ hintFile.mtime <= files[hintFile.path].mtime
    /\ hintFile.mtime # 0 /\ hintFile.mtime = files[hintFile.path].mtime =>
         hintFile.keys = KeysIn(files[hintFile.path], hintFile.opened)

CacheInv == FileTimes /\ CopyTimes /\ clock > 0

LEMMA RefreshKeepsCache ==
  ASSUME TypeOK, CacheInv, hintFile' = RefreshMatterProxyHintKeys, UNCHANGED disk
  PROVE  CacheInv'
<1>1. FileTimes' /\ clock' > 0
  BY DEF CacheInv, FileTimes, disk
<1>2. files' = files /\ NoPath \notin Paths /\ prefPath \in Paths \cup {NoPath}
  BY DecryptionAssumption DEF disk, TypeOK
<1>3. \A p \in Paths : files[p].mtime \in Nat
  BY DecryptionAssumption DEF TypeOK, FileType
<1>4. CASE hintFile' = NoHints
  BY <1>1, <1>2, <1>4 DEF NoHints, CacheInv, CopyTimes
<1>5. CASE prefPath # NoPath /\ hintFile' = [NoHints EXCEPT !.path = prefPath]
  <2>1. hintFile'.path = prefPath /\ hintFile'.mtime = 0
    BY <1>5 DEF NoHints
  <2> QED BY <1>1, <1>2, <1>3, <1>5, <2>1 DEF CacheInv, CopyTimes
<1>6. CASE hintFile' = hintFile
  BY <1>1, <1>2, <1>6 DEF CacheInv, CopyTimes
<1>7. CASE prefPath # NoPath /\ hintFile' = ReadHintFile
  <2>1. hintFile'.path = prefPath /\ hintFile'.mtime = files[prefPath].mtime
        /\ hintFile'.keys = KeysIn(files[prefPath], hintFile'.opened)
    BY <1>7 DEF ReadHintFile, KeysIn
  <2> QED BY <1>1, <1>2, <1>3, <1>7, <2>1 DEF CacheInv, CopyTimes
<1> QED BY <1>4, <1>5, <1>6, <1>7 DEF RefreshMatterProxyHintKeys

LEMMA WriteKeepsCache ==
  ASSUME TypeOK, CacheInv, SameTick = FALSE, NEW path \in Paths, NEW lines \in HintTexts,
         NEW t \in 1..MaxTime, NEW openable \in BOOLEAN, WriteHintFile(path, lines, t, openable)
  PROVE  CacheInv'
<1>1. \A p \in Paths : files[p].mtime \in Nat
  BY DecryptionAssumption DEF TypeOK, FileType
<1>2. t >= clock /\ t # files[path].mtime /\ clock' = t /\ hintFile' = hintFile /\ clock \in Nat /\ t \in Nat
  BY DecryptionAssumption DEF WriteHintFile, TypeOK
<1>3. files'[path].mtime = t /\ \A p \in Paths \ {path} : files'[p] = files[p]
  BY DEF WriteHintFile, TypeOK
<1>4. FileTimes' /\ clock' > 0
  BY <1>1, <1>2, <1>3 DEF CacheInv, FileTimes
<1>5. t > files[path].mtime
  BY <1>1, <1>2 DEF CacheInv, FileTimes
<1>6. hintFile.mtime \in Nat
  BY DecryptionAssumption DEF TypeOK
<1>7. CASE hintFile.path = path
  BY <1>1, <1>2, <1>3, <1>4, <1>5, <1>6, <1>7 DEF CacheInv, CopyTimes
<1>8. CASE hintFile.path # path
  BY <1>2, <1>3, <1>4, <1>8 DEF CacheInv, CopyTimes
<1> QED BY <1>7, <1>8

LEMMA AccessKeepsCache ==
  ASSUME TypeOK, CacheInv, NEW path \in Paths, RemoveHintFile(path) \/ ChangeAccess(path)
  PROVE  CacheInv'
<1>1. clock' = clock /\ hintFile' = hintFile
  BY DEF RemoveHintFile, ChangeAccess
<1>2. \A p \in Paths :
        /\ files'[p].mtime = files[p].mtime /\ files'[p].lines = files[p].lines
        /\ files'[p].exists => files[p].exists
  <2>1. CASE RemoveHintFile(path)
    BY <2>1 DEF RemoveHintFile, TypeOK, FileType
  <2>2. CASE ChangeAccess(path)
    BY <2>2 DEF ChangeAccess, TypeOK, FileType
  <2> QED BY <2>1, <2>2
<1>3. \A p \in Paths : KeysIn(files'[p], hintFile'.opened) = KeysIn(files[p], hintFile.opened)
  BY <1>1, <1>2 DEF KeysIn
<1>4. FileTimes' /\ clock' > 0
  BY <1>1, <1>2 DEF CacheInv, FileTimes
<1>5. CopyTimes'
  BY <1>1, <1>2, <1>3 DEF CacheInv, CopyTimes
<1> QED BY <1>4, <1>5 DEF CacheInv

LEMMA CacheStep ==
  ASSUME TypeOK, CacheInv, SameTick = FALSE, [Next]_vars
  PROVE  CacheInv'
<1>1. CASE UNCHANGED <<files, clock, hintFile>>
  BY <1>1 DEF CacheInv, FileTimes, CopyTimes
<1> QED
  BY <1>1, RefreshKeepsCache, WriteKeepsCache, AccessKeepsCache
  DEF Next, vars, disk, TryDecryptMessage, EditUserKeys, EditUserNodes, SetHintPath,
      MatterProxyHintSecretsBlockCallback, RecoverKey

\* If no file is written twice within one tick of its modification time, the
\* file hints that a dissection uses are always what the hint file says, though
\* RefreshMatterProxyHintKeys mostly keeps a copy; they are empty instead when
\* fopen failed at the one time this version of the file was read.
THEOREM HintCopyIsCurrent ==
  ASSUME SameTick = FALSE
  PROVE  Spec => []CachedHintsAreCurrent
<1>1. Init => CacheInv
  BY DecryptionAssumption DEF Init, CacheInv, FileTimes, CopyTimes, NoHints
<1>2. IInv /\ CacheInv /\ [Next]_vars => CacheInv'
  BY CacheStep DEF IInv
<1>3. IInv /\ CacheInv => CachedHintsAreCurrent
  <2> SUFFICES ASSUME IInv, CacheInv PROVE CachedHintsAreCurrent
    OBVIOUS
  <2>1. CASE prefPath = NoPath \/ ~ files[prefPath].exists
    BY <2>1 DEF CachedHintsAreCurrent, RefreshMatterProxyHintKeys, NoHints
  <2>2. CASE prefPath # NoPath /\ files[prefPath].exists /\ ~ IsCached
    BY <2>2 DEF CachedHintsAreCurrent, RefreshMatterProxyHintKeys, ReadHintFile
  <2>3. CASE prefPath # NoPath /\ files[prefPath].exists /\ IsCached
    <3>1. prefPath \in Paths /\ hintFile.path = prefPath /\ hintFile.mtime = files[prefPath].mtime
      BY <2>3 DEF IInv, TypeOK, IsCached
    <3>2. files[prefPath].mtime > 0 /\ files[prefPath].mtime \in Nat
      BY <2>3, <3>1, DecryptionAssumption DEF CacheInv, FileTimes, IInv, TypeOK, FileType
    <3>3. hintFile.keys = KeysIn(files[prefPath], hintFile.opened)
      BY <3>1, <3>2 DEF CacheInv, CopyTimes
    <3> QED BY <2>3, <3>3 DEF CachedHintsAreCurrent, RefreshMatterProxyHintKeys, KeysIn
  <2> QED BY <2>1, <2>2, <2>3
<1> QED BY <1>1, <1>2, <1>3, Invariance, PTL DEF Spec
=============================================================================
