------------------------------ MODULE Decryption ------------------------------
(***************************************************************************)
(* TryDecryptMessage and the four sources of keys it draws on: the table   *)
(* of keys (KeyMap), the user's preferences, the key hint file and the key *)
(* hints in the secrets blocks of a capture.                               *)
(*                                                                         *)
(* AES-CCM is ideal: a trial succeeds exactly when the key is the one the  *)
(* message was encrypted with and the nonce is built from its true source  *)
(* node id.  At most one pair can therefore succeed, and the order of the  *)
(* trials matters only for the source that the key table remembers.        *)
(***************************************************************************)
EXTENDS MatterSession, KeyMap, Sequences

CONSTANTS
  Messages,        \* encrypted messages, records of MessageType
  HintTexts,       \* hint files and secrets blocks, sequences of lines
  RecoveredKeys,   \* <<key id, key>> that CASE recovery may find
  UserKeySets,     \* what the user may enter as keys
  UserNodeSets,    \* what the user may enter as node ids
  Paths,           \* names of hint files
  MaxTime,         \* bound on modification times
  SameTick         \* may a file be written twice within one clock tick?

NoKey  == "no key"     \* a line without 16 bytes of key
NoPath == "no path"
Absent == -1           \* a field that is missing or does not parse

UInt16 == 0..65535

\* srcNodeId is 0 when the header has none; nonceSrc is the sender's own.
MessageType == [sessionType : 0..3, sessionId : KeyIds, srcNodeId : NodeIds,
                dataEncKey : Keys, nonceSrc : NodeIds]

LineType == [key : Keys \cup {NoKey}, session : Int, src : NodeIds \cup {Absent}]

ASSUME DecryptionAssumption ==
  /\ KeyIds \subseteq UInt16 /\ NodeIds \subseteq Nat /\ 0 \in NodeIds
  /\ NoKey \notin Keys /\ NoPath \notin Paths
  /\ Messages \subseteq MessageType
  /\ \A m \in Messages : MessageIsEncrypted(m) /\ m.srcNodeId \in {0, m.nonceSrc}
  /\ HintTexts \subseteq Seq(LineType)
  /\ RecoveredKeys \subseteq KeyIds \X Keys
  /\ UserKeySets \subseteq SUBSET Keys /\ UserNodeSets \subseteq SUBSET NodeIds
  /\ MaxTime \in Nat /\ SameTick \in BOOLEAN

VARIABLES
  userKeys,    \* the keys in UserEncryptionKeyPrefs
  userNodes,   \* the node ids in UserNodeIdPrefs
  files,       \* path -> what is there: [exists, openable, mtime, lines]
  clock,       \* the time of the last write to a file
  prefPath,    \* pref_MatterProxyKeyHintFile
  hintFile,    \* sMatterProxyHintKeysFromFile, ...Path and ...MTime; and history:
               \* opened, whether fopen succeeded when the keys were read
  hintsDSB,    \* sMatterProxyHintKeysFromDSB
  decrypted    \* the messages that have been decrypted at least once

prefs == <<userKeys, userNodes, prefPath>>
disk  == <<files, clock>>
vars  == <<keyTable, userKeys, userNodes, files, clock, prefPath, hintFile, hintsDSB, decrypted>>
-----------------------------------------------------------------------------
(***************************************************************************)
(* Key hints.  A line that is no hint is kept as one that matches nothing. *)
(***************************************************************************)
\* Mutation: a session number is not checked against the width of an id.
ParseAnySession(l) ==
  [key          |-> l.key,
   hasKeyId     |-> l.session # Absent,
   keyId        |-> IF l.session # Absent THEN l.session ELSE 0,
   hasSrcNodeId |-> l.src # Absent,
   srcNodeId    |-> IF l.src # Absent THEN l.src ELSE 0]

ParseMatterProxyHintLine(l) ==
  [key          |-> l.key,
   hasKeyId     |-> l.session \in UInt16,
   keyId        |-> IF l.session \in UInt16 THEN l.session ELSE 0,
   hasSrcNodeId |-> l.src # Absent,
   srcNodeId    |-> IF l.src # Absent THEN l.src ELSE 0]

ParseMatterProxyHintBlob(lines) ==
  [i \in 1..Len(lines) |-> ParseMatterProxyHintLine(lines[i])]

First(S) == CHOOSE i \in S : \A j \in S : i <= j

(***************************************************************************)
(* PreloadHintKeyBySessionId on every hint of a list: hints that name a    *)
(* session go into the key table, in order, unless their key is there.     *)
(***************************************************************************)
Named(hints) == {i \in 1..Len(hints) : hints[i].hasKeyId /\ hints[i].key # NoKey}
HintId(h)    == <<h.keyId, h.key>>

PreloadHints(table, hints) ==
  [x \in DOMAIN table \cup {HintId(hints[i]) : i \in Named(hints)} |->
     IF x \in DOMAIN table THEN table[x]
     ELSE hints[First({i \in Named(hints) : HintId(hints[i]) = x})].srcNodeId]

(***************************************************************************)
(* RefreshMatterProxyHintKeys: the hint file is read again when its path   *)
(* or its modification time changed; one that cannot be opened counts as   *)
(* read, and as empty; keys it once named stay in the key table.           *)
(***************************************************************************)
NoHints == [keys |-> << >>, path |-> NoPath, mtime |-> 0, opened |-> FALSE]

IsCached == hintFile.path = prefPath /\ hintFile.mtime = files[prefPath].mtime

ReadHintFile ==
  [keys   |-> IF files[prefPath].openable
                THEN ParseMatterProxyHintBlob(files[prefPath].lines) ELSE << >>,
   path   |-> prefPath,
   mtime  |-> files[prefPath].mtime,
   opened |-> files[prefPath].openable]

\* Mutation: the path is not compared.
RefreshByTimeOnly ==
  IF prefPath = NoPath THEN NoHints
  ELSE IF ~ files[prefPath].exists THEN [NoHints EXCEPT !.path = prefPath]
  ELSE IF hintFile.mtime = files[prefPath].mtime THEN hintFile
  ELSE ReadHintFile

RefreshMatterProxyHintKeys ==
  IF prefPath = NoPath THEN NoHints
  ELSE IF ~ files[prefPath].exists THEN [NoHints EXCEPT !.path = prefPath]
  ELSE IF IsCached THEN hintFile
  ELSE ReadHintFile

RefreshedTable ==
  IF RefreshMatterProxyHintKeys = hintFile
    THEN keyTable ELSE PreloadHints(keyTable, RefreshMatterProxyHintKeys.keys)
-----------------------------------------------------------------------------
(***************************************************************************)
(* The trials.                                                             *)
(***************************************************************************)
\* TryDecryptMessage_AES128CCM
Decrypts(m, key, src) == key = m.dataEncKey /\ src = m.nonceSrc

\* A key's source stands in for one that the header does not have.
TableSource(m, src) == IF src # 0 /\ m.srcNodeId = 0 THEN src ELSE m.srcNodeId

InTable(table, m) ==
  \E x \in DOMAIN table : /\ x[1] = m.sessionId
                          /\ Decrypts(m, x[2], TableSource(m, table[x]))

InUserPrefs(m) ==
  \E key \in userKeys :
    \/ Decrypts(m, key, m.srcNodeId)
    \/ m.srcNodeId = 0 /\ \E src \in userNodes : Decrypts(m, key, src)

HintWorks(m, h) ==
  /\ h.hasKeyId => h.keyId = m.sessionId
  /\ \/ Decrypts(m, h.key, m.srcNodeId)
     \/ m.srcNodeId = 0 /\ h.hasSrcNodeId /\ Decrypts(m, h.key, h.srcNodeId)

\* The hints of the file come before those of the secrets blocks.
AllHints == RefreshMatterProxyHintKeys.keys \o hintsDSB

WorkingHints(m) == {i \in 1..Len(AllHints) : HintWorks(m, AllHints[i])}

\* The source that is remembered with a key a hint supplied.
HintSource(m, h) == IF h.hasSrcNodeId THEN h.srcNodeId ELSE m.srcNodeId

\* TryDecryptMessage succeeds.
CanDecrypt(m) == InTable(RefreshedTable, m) \/ InUserPrefs(m) \/ WorkingHints(m) # {}

\* Mutation: the key is filed without the source that decrypted the message.
TableKeepingNoSource(m) ==
  IF InTable(RefreshedTable, m) THEN RefreshedTable
  ELSE IF CanDecrypt(m) THEN AddKey(RefreshedTable, m.sessionId, m.dataEncKey, 0)
  ELSE RefreshedTable

\* Mutation: the first of the user's keys is filed before it is tried.
TableOfUserKeys(m) ==
  IF InTable(RefreshedTable, m) \/ userKeys = {} THEN RefreshedTable
  ELSE AddKey(RefreshedTable, m.sessionId, CHOOSE key \in userKeys : TRUE, m.srcNodeId)

\* The key table after the message was tried.
TableAfter(m) ==
  IF InTable(RefreshedTable, m) THEN RefreshedTable
  ELSE IF InUserPrefs(m)
    THEN AddKey(RefreshedTable, m.sessionId, m.dataEncKey, m.nonceSrc)
  ELSE IF WorkingHints(m) # {}
    THEN AddKey(RefreshedTable, m.sessionId, m.dataEncKey,
                HintSource(m, AllHints[First(WorkingHints(m))]))
  ELSE RefreshedTable

\* Wireshark dissects an encrypted message.
TryDecryptMessage(m) ==
  /\ hintFile' = RefreshMatterProxyHintKeys
  /\ keyTable' = TableAfter(m)
  /\ decrypted' = IF CanDecrypt(m) THEN decrypted \cup {m} ELSE decrypted
  /\ UNCHANGED <<prefs, disk, hintsDSB>>
-----------------------------------------------------------------------------
(***************************************************************************)
(* The environment: the user edits preferences and hint files, and         *)
(* Wireshark hands over the secrets blocks of a capture.                   *)
(***************************************************************************)
EditUserKeys(keys) ==
  /\ userKeys' = keys
  /\ UNCHANGED <<keyTable, userNodes, disk, prefPath, hintFile, hintsDSB, decrypted>>

EditUserNodes(nodes) ==
  /\ userNodes' = nodes
  /\ UNCHANGED <<keyTable, userKeys, disk, prefPath, hintFile, hintsDSB, decrypted>>

SetHintPath(path) ==
  /\ prefPath' = path
  /\ UNCHANGED <<keyTable, userKeys, userNodes, disk, hintFile, hintsDSB, decrypted>>

\* A write gives the file the time it is; SameTick says whether that may be
\* the time the file already had.
WriteHintFile(path, lines, t, openable) ==
  /\ t \in {clock, clock + 1} /\ t <= MaxTime
  /\ t = files[path].mtime => SameTick
  /\ clock' = t
  /\ files' = [files EXCEPT ![path] =
                 [exists |-> TRUE, openable |-> openable, mtime |-> t, lines |-> lines]]
  /\ UNCHANGED <<keyTable, prefs, hintFile, hintsDSB, decrypted>>

\* A file becomes readable or unreadable as it is, by its permissions or by an
\* error of the file system that passes.
ChangeAccess(path) ==
  /\ files[path].exists
  /\ files' = [files EXCEPT ![path].openable = ~ @]
  /\ UNCHANGED <<keyTable, prefs, clock, hintFile, hintsDSB, decrypted>>

RemoveHintFile(path) ==
  /\ files[path].exists
  /\ files' = [files EXCEPT ![path].exists = FALSE]
  /\ UNCHANGED <<keyTable, prefs, clock, hintFile, hintsDSB, decrypted>>

\* The hints of a secrets block replace those of the block before it.
MatterProxyHintSecretsBlockCallback(lines) ==
  /\ hintsDSB' = ParseMatterProxyHintBlob(lines)
  /\ keyTable' = PreloadHints(keyTable, hintsDSB')
  /\ UNCHANGED <<prefs, disk, hintFile, decrypted>>

\* DeriveCASESessionKey files a recovered key without a source.
RecoverKey(id, key) ==
  /\ keyTable' = AddKey(keyTable, id, key, 0)
  /\ UNCHANGED <<prefs, disk, hintFile, hintsDSB, decrypted>>

Init ==
  /\ MapInit
  /\ userKeys \in UserKeySets /\ userNodes \in UserNodeSets
  /\ files = [p \in Paths |-> [exists |-> FALSE, openable |-> FALSE, mtime |-> 0, lines |-> << >>]]
  /\ clock = 1
  /\ prefPath \in Paths \cup {NoPath}
  /\ hintFile = NoHints
  /\ hintsDSB = << >>
  /\ decrypted = {}

Next ==
  \/ \E m \in Messages : TryDecryptMessage(m)
  \/ \E keys \in UserKeySets : EditUserKeys(keys)
  \/ \E nodes \in UserNodeSets : EditUserNodes(nodes)
  \/ \E path \in Paths \cup {NoPath} : SetHintPath(path)
  \/ \E path \in Paths, lines \in HintTexts, t \in 1..MaxTime, openable \in BOOLEAN :
       WriteHintFile(path, lines, t, openable)
  \/ \E path \in Paths : ChangeAccess(path)
  \/ \E path \in Paths : RemoveHintFile(path)
  \/ \E lines \in HintTexts : MatterProxyHintSecretsBlockCallback(lines)
  \/ \E x \in RecoveredKeys : RecoverKey(x[1], x[2])

Spec == Init /\ [][Next]_vars
-----------------------------------------------------------------------------
(***************************************************************************)
(* Properties.                                                             *)
(***************************************************************************)
HintType == [key : Keys \cup {NoKey}, hasKeyId : BOOLEAN, keyId : UInt16,
             hasSrcNodeId : BOOLEAN, srcNodeId : NodeIds]

FileType == [exists : BOOLEAN, openable : BOOLEAN, mtime : 0..MaxTime, lines : HintTexts \cup {<< >>}]

\* Every variable has its type.
TypeOK ==
  /\ DOMAIN keyTable \subseteq UInt16 \X Keys
  /\ keyTable \in [DOMAIN keyTable -> NodeIds]
  /\ userKeys \subseteq Keys /\ userNodes \subseteq NodeIds
  /\ files \in [Paths -> FileType]
  /\ clock \in Nat
  /\ prefPath \in Paths \cup {NoPath}
  /\ hintFile \in [keys : Seq(HintType), path : Paths \cup {NoPath}, mtime : 0..MaxTime,
                   opened : BOOLEAN]
  /\ hintsDSB \in Seq(HintType)
  /\ decrypted \subseteq Messages

TextHints == UNION {{ParseMatterProxyHintLine(t[i]) : i \in 1..Len(t)} : t \in HintTexts}

\* The entry of the key table that would decrypt m.
EntryOf(m) == <<m.sessionId, m.dataEncKey>>

\* Who may have filed entry x with source src: recovery, a hint that names the
\* session, or a message that was decrypted by the user's keys or by a hint.
Supplies(x, src) ==
  \/ x \in RecoveredKeys /\ src = 0
  \/ \E h \in TextHints : h.hasKeyId /\ HintId(h) = x /\ src = h.srcNodeId
  \/ \E n \in decrypted : EntryOf(n) = x /\ src = n.nonceSrc
  \/ \E n \in decrypted, h \in TextHints :
       EntryOf(n) = x /\ HintWorks(n, h) /\ src = HintSource(n, h)

\* The key of m is in the table with a source that is not m's, and m's header
\* has none: AddKey kept what it was given first.
FiledWithOtherSource(m) ==
  /\ m.srcNodeId = 0
  /\ EntryOf(m) \in DOMAIN keyTable
  /\ keyTable[EntryOf(m)] # m.nonceSrc
  /\ Supplies(EntryOf(m), keyTable[EntryOf(m)])

(***************************************************************************)
(* A message that was decrypted once can be decrypted from the key table   *)
(* alone ever after, whatever becomes of the preferences, files and blocks *)
(* its key came from ("copy it to the main encryption key table"), with    *)
(* one exception, a weakness of the code: if the header omits the source,  *)
(* and recovery, a hint or another message filed the key with a source     *)
(* that is not the message's (recovery and a hint without one file 0),     *)
(* AddKey drops the source that decrypted it.                              *)
(***************************************************************************)
DecryptionIsStable ==
  \A m \in decrypted : InTable(keyTable, m) \/ FiledWithOtherSource(m)

(***************************************************************************)
(* The key table learns nothing from failed trials: an entry was named by  *)
(* a hint, recovered from a handshake, or decrypted a message of its id.   *)
(***************************************************************************)
KeysAreJustified ==
  \A x \in DOMAIN keyTable :
    \/ \E h \in TextHints : h.hasKeyId /\ HintId(h) = x
    \/ x \in RecoveredKeys
    \/ \E m \in decrypted : EntryOf(m) = x

(***************************************************************************)
(* The file hints that a dissection uses, the copy that                    *)
(* RefreshMatterProxyHintKeys keeps or the one it makes, are what the file *)
(* of the preference says at that time, if writes to a file never share a  *)
(* tick.  They are empty without a file, and when fopen failed at the one  *)
(* time this version of the file was read: the code does not try again,    *)
(* though the file may have become readable since.                         *)
(***************************************************************************)
CachedHintsAreCurrent ==
  RefreshMatterProxyHintKeys.keys =
    IF prefPath # NoPath /\ files[prefPath].exists /\ RefreshMatterProxyHintKeys.opened
      THEN ParseMatterProxyHintBlob(files[prefPath].lines)
      ELSE << >>
=============================================================================
