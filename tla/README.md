# TLA+ models of matter-dissector

matter-dissector is a Wireshark plugin: Wireshark hands it UDP datagrams, TCP
segments and requests of its user interface, and the plugin parses, decrypts,
tracks and displays Matter messages. This directory models the parts of the
plugin that keep state or take decisions, checks them with TLC and proves
their main invariants with TLAPS. All line numbers are those of the files in
the repository; `PROJECT.json` maps each definition to the lines it stands for.

    tlasany M.tla                        parse a module
    tlc -workers 2 -config X.cfg M       check run X of module M
    tlapm M.tla                          check the proofs of module M

## 1. Inventory of the system

All code runs in Wireshark's single dissection thread. What makes it hard is
not threads but *order*: Wireshark dissects every frame once in capture order
and then any frame again, in any order and any number of times; keys,
preferences, hint files and secrets blocks change between two dissections; and
pieces of state die at different times (packet, file, process).

| component | state (lifetime) | operations | what makes it correct |
|---|---|---|---|
| Message tracker (`MatterMessageTracker.cpp`) | a record per frame, six message id tables, one exchange table (file) | create a record, find retransmissions, counter reuse, acked messages, start of exchange | each record is on its two lists once; acks point forward to the earliest ack; what is shown as earlier is earlier |
| Message dissector (`packet-matter.cpp`) | none between messages | parse header, decrypt, parse exchange header, run the tracker, call the protocol dissector | a readable message always has a record; an unreadable one never |
| TCP framing (`packet-matter.cpp:854-865`, Wireshark's `tcp_dissect_pdus`) | place in a buffer, what is waited for (Wireshark) | length of a message, next message, ask for another segment | each message is handed over once, whole |
| Key table (`MessageEncryptionKey.cpp`) | session id -> keys (process) | add, find | no key twice under an id, none lost |
| User keys and node ids (`UserEncryptionKeyPrefs.cpp`, `UserNodeIdPrefs.cpp`) | tables of preferences (process, edited by the user) | check, copy, update, free | a key in use is a valid key |
| Key hints (`packet-matter.cpp:143-362`) | two hint lists: file, secrets blocks (process) | parse, refresh on change of the file, preload, secrets callback | every current hint is tried |
| Decryption (`packet-matter.cpp:388-496`, `packet-matter-decrypt.cpp`) | none | try keys x node ids, AES-CCM | a message is decrypted only under its key and source, and whenever these are at hand |
| CASE key recovery (`packet-matter-security.cpp`) | CASE exchange record (file), key table | begin request, begin response, key confirmation, recover | a recovered key belongs to this handshake |
| TLV reader (`MatterTLVReader.cpp`) | read point, element, type of container (message) | next, enter, exit, skip, verify, get | elements come in order, exit lands behind the container |
| TLV display (`TLVDissector.cpp`) | stack of entered containers, extent, last item (packet) | next, enter, exit, add items | enter and exit nest; extents are elements |
| Interaction model (`packet-matter-im.cpp`) | calls under way, containers entered, ids of the path of a block (message); `imSubscription` of a record | one dissector per opcode and per block; subscription filter | it keeps its place among containers whatever fails; an element is shown once, and none silently not; a field is named by its own path; messages of a subscription are found |
| Secure channel (`packet-matter-common.cpp`) | calls under way, containers entered (message) | PASE, CASE sigma, status report, ack | as above; associates acks with subscriptions |
| User directed commissioning (`packet-matter-udc.cpp`) | calls under way, containers entered (message) | identification declaration | as above |
| Legacy security, echo dissectors | the CASE record | one dissector per opcode | |
| Names and strings (`MatterNames.cpp`, `ErrorStr.cpp`, `im_name_tables.inc`, headers) | constant tables | lookup | |
| HKDF and AES-CCM (`HKDF.c`, `packet-matter-decrypt.cpp`) | none | derive, decrypt | ideal functions where used |
| Tools, tests, docs | | generators, test vectors | not modelled |

Interactions: `DissectMatter` calls the decryption, then the tracker, then a
protocol dissector through Wireshark's dissector table. The protocol dissectors
reach back into the tracker's record (`imSubscription`, `caseExchangeRec`) and
walk its exchange list (`prevByExchange`). CASE recovery adds to the key table
that the decryption reads for later frames. Protocol dissectors of TLV payloads
call the TLV display, which is a TLV reader.

## 2. Modules

### The tracker: `MatterSession`, `MatterMessage`, `MessageTracker`

`MatterSession` has the constants of session ids and types that decide whether
a message is encrypted. `MatterMessage` has what the tracker reads of a message
and the two keys it is filed under (message id key, exchange key), with the
masks the code applies. A capture is a sequence of frames, a frame a sequence of
messages, of which only TCP frames have more than one.

`MessageTracker` is the tracker and `DissectMatter`, which drives it:

| action | code |
|---|---|
| `FirstPass` | Wireshark dissects the next frame for the first time |
| `Redissect(f)` | Wireshark dissects a frame again, to show or to filter it |
| `NextPDU` | one run of `DissectMatter` for the next message of the current frame: record, start of exchange, retransmissions, reuse, acks, association of subscriptions |
| `LearnKey(s)` | a key of a session becomes known (a preference, a hint, recovery) |
| `RescanFile`, `OpenFile(c)` | the file scope ends, and with it records and tables |

A record is named by its frame, as in the code, where it is attached to the
frame's data. The linked lists are sequences.

### Keys: `KeyMap`, `KeyTable`, `Decryption`

`KeyTable` is the code's table, a list of keys per session id that grows at its
head. `KeyMap` is what the rest of the plugin relies on, a map from (id, key) to
the source node id of the first `AddKey`; `KeyTable` implements it, with the
lists read as such a map, and the modules that use keys extend `KeyMap`.

`Decryption` is `TryDecryptMessage` over the key table, the user's keys and node
ids, the hint file and the hints of secrets blocks. A dissection of a message is
one action, with the refresh of the hint file's copy, the preloading of hints
and the keys it files. The user's edits, the file being written, removed, or made
readable or unreadable as it is, and CASE recovery are actions of their own, since
they fall between dissections. The copy of the hint file has the code's keys, path
and time, and as history `opened`, whether `fopen` succeeded when they were read:
the code records path and time in either case.
AES-CCM is ideal: a trial succeeds exactly with the key and source node id that
the message was encrypted with. Hint lines keep what parsing yields: a key or
none, an integer that may not fit a session id, a node id or none.

### CASE recovery: `CASERecovery`

Begin request, begin response and key confirmation meet in a CASE exchange
record, found by walking back in the list of the exchange. The model keeps the
guards of the code: the offsets at which a message is cut short (`complete`),
the supported configurations and curves, and the length of a public key, which
is that of its curve. A session key is the term of what HKDF is given, so two
handshakes have one key only if they agree on all of it. It extends `KeyMap`,
where recovered keys are filed.

### TLV: `TLVDocument`, `TLVReader`, `TLVCursor`, `TLVDissector`

`TLVDocument` says what an encoding means without a reader: tokens, extents,
members of containers, well-formedness, and a document as the first n bytes of
an encoding. `TLVReader` has the operations of the reader on a document as
functions that return a reader and an error, `Then` being `SuccessOrExit`. The
loop of `SkipToEndOfContainer` is the turns that `SkipTurn` takes; every turn but
the last reads a byte, so as many turns as there are bytes left, and one, end it.
`TLVDissector` is the state machine of the display over it: any calls a message
dissector may make in any order, given that it gives up at an error other than
the end of a container, which it leaves. `AddGenericTLVItem` calls itself for the
members of a container, and `AddListItem` calls it; such a call is one step up to
the first member and one step, `ShowMember`, for each turn of the loops over
members, with the call in `task` and the depth of its calls of itself in
`within`. `AddTypedItem` refuses an integer for a field
of no integer type of its sign (`TLVDissector.cpp:155`, `:172`); the caller's field is
there as `fits`. `TLVCursor` is the abstract
specification, a cursor over the tree of elements that goes to the next member,
enters, leaves from anywhere, and may fail only on a broken encoding or on a
request that cannot be met, an integer for a field of another type among them. `TLVDissector` implements it; the cursor's frames
are computed from the read point and the stack of extents.

### TCP: `TCPStream`, `MessageStream`, `TCPFraming`

`TCPStream` is a stream as the positions where its messages end and where it is
cut into segments. `TCPFraming` is the loop of `tcp_dissect_pdus` with the
length that `GetMatterTCPMessageLength` answers, and the reassembly around it:

| action | code |
|---|---|
| `Segment` | a segment is captured |
| `Rest`, `Reassemble` | Wireshark makes a buffer of a segment, or of a message that was waited for |
| `AskForSegment` | too little is left for a length field |
| `DissectPDU` | a message is given to `DissectMatter`, or waited for if its end is missing |

The length is read at the start of the buffer, as in the code, whatever offset
it is asked for. It is that of the message that begins there, or, where none
does, any of `Lengths`. `MessageStream` is what the plugin relies on, messages
that are delivered whole and in order, up to the first segment that has messages
of different sizes, where nothing is promised; `TCPFraming` implements it.

### Messages: `TLVMessage`, `DissectorRules`, the modules of rules, `MessageDissector`

`TLVMessage` is a payload that is whole and well formed, as tokens with the place
where each element ends and the container that it is in; what is not is the
subject of the TLV modules above. `DissectorRules` are the few things that a
message dissector does with an element: show it as a typed field, generically, as
a text or under a name, show a path, enter it with another dissector, refuse it;
and what the caller does if this fails. `IMRules`, `SecureChannelRules`, `UDCRules`
and `EmbeddedRules` have one operator per dissector that says which of these it
does with an element. `EmbeddedRules` are those of certificates, attestation and
NOCSR elements, which are encoded in byte strings of commands: each has a
`TLVDissector` of its own and its caller ignores how it went
(`packet-matter-im.cpp:2483`), so it is a message of its own in the model.

`MessageDissector` runs these rules on the state that the calls share:

| state | code |
|---|---|
| `at`, `elem`, `open` | the `TLVDissector`: what is read next, what it is on, the containers it entered |
| `frames` | the C++ calls under way, with the locals that outlive an element (the ids of the path) and what the caller does on an error |
| `lines` | the items of the tree |
| `status` | `failing` while an error is returned from call to call |

| action | code |
|---|---|
| `Begin` | the checks of a dissector before its loop |
| `NextElement` | one turn of a loop that shows or refuses an element, or fails at it |
| `EnterElement` | one that calls another dissector for what is in it |
| `EndContainer` | `END_OF_TLV`: the container is left and the call returns |
| `ReturnError` | a call that failed returns to its caller, which fails too or shows the element it is on |

A failed call does not leave the containers it entered, so `frames` and `open`
come apart, as they do in the code. One dissector, `AddCommandDataIB`, has added
its item when it finds that it cannot enter the element (`FailsToEnter`). `MatterSchema` says which messages Matter
defines, read from the comments on the tags and, for declarations, from the types
of the fields that are registered; only properties use it. It has no certificates,
since the comments of `MatterSecurity.h` describe those of an earlier format.
`ConformingMessages` has what the schema is used for: the four contents that Matter
defines and the dissectors do not show (events, lists of writes, a path without an
element, fields of a command before its ids), and `ConformingShown`, that every
other message that Matter defines is dissected to its end.

### MC modules

`MCMessageTracker`, `MCDecryption`, `MCCASERecovery`, `MCTLVDissector`,
`MCTCPFraming` and `MCMessageDissector` give the constants of their runs;
`MCTrackerClaims` and `MCDecryptionClaims` have the runs that expect a violation.
`KeyTable` is small enough to be run as it is.

## 3. Runs

Two runs assume fairness. A message is dissected in one call, so the dissector's
next step is weakly fair, and `Returns` says that the call returns. What has been
captured is dissected by Wireshark in one go, so `DissectSegment` is weakly fair
and `Segment` is not, as a capture may end at any time; `AllDissected` says that a
message that was captured is then dissected. All other properties are safety
properties: the rest of the plugin waits for nothing, and what Wireshark dissects
again, if ever, is up to its user.

| run | bounds | what it shows |
|---|---|---|
| `tracker_in_order` | all captures of 3 frames drawn from 7, one of them a TCP frame with two messages; keys known from the start or never | records are complete and in frame order; a record is on its lists once; `ackedByMsgRec` is the earliest ack; frames that are shown as earlier are earlier; redissection only adds |
| `tracker_late_keys` | all captures of 5 frames drawn from 3; a key may become known at any time | what is left of this when records are made out of frame order: acks are later frames that ack, numbers of retransmissions, exchange filters are contiguous |
| `key_table` | 2 ids, 3 keys, 2 sources | lists implement the map, no key twice |
| `decryption` | messages of two sessions with and without a source in the header, three texts for the hint files and secrets blocks, one of them with a key without a source, a recovered key, two sets of user keys, two hint files (interchangeable, so TLC uses the symmetry) that are written, removed or change access, times to 2 | what was decrypted stays decryptable, unless its header omits the source and its key was filed first with another; failed trials leave no key; the copy of the hint file is what the file says, or empty if `fopen` failed when that version was read |
| `case_recovery` | captures of up to 4 messages of 8, over 2 exchanges | recovered keys are those of one handshake; every handshake that can be recovered is; redissection does nothing; the key table only grows |
| `tlv_dissector` | up to 10 calls; 10 encodings up to three containers deep, each cut off at every byte, and all sequences of at most 4 tokens of 8; the first stack holds one container | implements `TLVCursor`; extents are whole elements; the last item is that of the element; an element is shown with all in it |
| `tcp_framing` | streams of up to 3 messages of 3 or 4 bytes with every way to cut them into segments; a field read where no message begins is 0 or 3 | implements `MessageStream`; no byte is passed over or given twice; all that was captured is dissected |
| `messages` | nearly 4000 encodings of all 19 kinds of message, of declarations for commissioning and of the three kinds of embedded encodings: 33 bases, one or two of a kind, and each of them with one element dropped, retagged, replaced, doubled or put into a block of its own | the containers entered are those around the element; items come in order and none twice; nothing is passed over without an error; calls keep their place; fields are named by the path of their block; what conforms is dissected to its end but for the four cases of `ConformingMessages`; every call returns |

Why the bounds are enough: a list needs three records for a middle one, which is
where an unlink or a wrong end shows, and an ack needs a message, an earlier ack
and a later one. Three keys give a list a head, a middle and an end. A stale
hint copy needs two texts and two times. A handshake mixed from two needs two
requests and a response between them, with one message to spare. Container types
are forgotten at the second level of nesting and matter at the first element
behind it, which six tokens reach; the stack doubles from one to four. A message
of 3 bytes has a length field of 2 and one byte, so cuts fall into a field, behind
it and between messages; two sizes tell a right length from that of another
message. A dissector has no memory of an element but a path's ids, whether a call
failed and where, and one element out of place in a base reaches each of these; a
block in a block is what makes a call fail half way and its caller go on.

The tracker's runs give messages header version 2, for which
`FindAckedMessages` does its work (see `claim_acks`).

Three of these behaviours are in the models without a property that would notice
them going wrong in another way, and `PROJECT.json` says so at the hazard: a caller
that goes on in the middle of a block in a block (`KeepsPlace` leaves these out), the
lists of writes and the events (`ConformingShown` leaves them out), and segments with
messages of different sizes (`FramesMessages` promises nothing from there).

Four runs check what the documentation says and find it violated:

| run | the documentation | the code |
|---|---|---|
| `claim_acks` | README.md:19, acknowledgements are identified | only for header versions above 1, while Matter has 0 (`MatterMessageTracker.cpp:132`) |
| `claim_subscription` | README.md:289, the subscription filter | `imSubscription` is copied but never set (`packet-matter-im.cpp:3586`) |
| `claim_counter_reuse` | `MatterMessageTracker.cpp:217`, the correct table of message ids | all unicast messages land in the table of unencrypted ones, without their session id (`:327`) |
| `claim_recovered` | README.md:57, the entire session is decrypted | the recovered key has source node id 0, and headers of the session omit theirs (`packet-matter-security.cpp:254`) |

Other behaviours that the models have and no run singles out: with late keys a
retransmission may be shown as one of a later frame; two writes of the hint file
within a second leave a stale copy; an encoding cut off between two elements is reported as
`END_OF_TLV` where the comments of `Next` and `ExitContainer` promise
`TLV_UNDERRUN`; `AddGenericTLVItem` empties a text buffer that was never
allocated if it is given an empty byte string to show without a tag, which
`TLVCursor` counts as a failure it may have.

Of keys:

- `IsSameKey` ignores the source and `AddKey` keeps the entry that is there
  (`MessageEncryptionKey.cpp:39-42`). If recovery, or a hint without a source, filed
  a key with source 0 first, a message without a source in its header that a key and
  a node id of the user's decrypt is not remembered with its source, and becomes
  unreadable when the preference goes, against the comment at `packet-matter.cpp:440`.
  `DecryptionIsStable` states this exception, `FiledWithOtherSource`.
- A hint file that could not be opened is not tried again until its time changes, as
  path and time are recorded although `fopen` failed (`packet-matter.cpp:327`,
  `:332-346`). One that becomes readable as it is stays read as empty.

Of messages and framing:

- The second message of a TCP segment is not filed under its own exchange, since
  a record belongs to a frame (`MatterMessageTracker.cpp:52`, README.md:18).
- The length of every message in a segment is that of the first
  (`packet-matter.cpp:856`), so framing is right up to the first segment with
  messages of different sizes.
- `DissectIMWriteRequest` and `DissectIMWriteResponse` call
  `AddGenericTLVItem` after they have shown a list (`packet-matter-im.cpp:3299`),
  on no element: what follows the list is never shown (README.md:36).
- `AddNamedStructItem` reads the ids of an event from its path and has left the
  path when it shows it (`packet-matter-im.cpp:483`): no event of a report is
  shown (README.md:38 and :47).
- A path without an element, which stands for everything, is an error.
- Fields of a command that come before its path, or whose path lacks ids, are
  added to a field of type `FT_NONE`, at which Wireshark throws.
- When a block in a block fails half way, its caller goes on in the middle of it
  (`packet-matter-im.cpp:621`), since the containers it entered are not left.
- `AddTypedItem` refuses an integer whose field is no integer type of its sign
  (`TLVDissector.cpp:155`, `:172`), so the message is shown up to there.
- `AddCommandDataIB` adds the item of a command before it enters it
  (`packet-matter-im.cpp:2648`), so an element that cannot be entered has one.
- A certificate whose issuer is not a path, or whose extensions are not, is shown
  up to there, and nothing says that there was an error (`packet-matter-im.cpp:2483`).
- The dissectors of the secure channel return their error code as the number of
  bytes dissected (`packet-matter.cpp:842`).

## 4. Proofs

TLAPS proves the following for every value of the constants that the modules'
assumptions admit. `SMT` and `Zenon` prove the steps, `LS4` the temporal ones.

| module | proved | inductive invariant |
|---|---|---|
| `MessageTrackerProofs`, records | `TypeCorrect`, `FiledOnceAlways`, `AckPointersRight`, `FrameOrder`, `RecordsComplete` | `IInv`: types, each record filed once, and that no record has a subscription, without which the association could write any; acks need only a later record that acks; order needs `OrderInv`, that what the pass has swept has its records and these have a readable message |
| `MessageTrackerProofs`, display | `EarliestAckShown`, `ExchangeFilterContiguous`, `EarlierFramesShown`, `RetransmissionsCounted`, `HistoryGrows` | the same, with `AckBound`, that every ack dissected so far in a later frame bounds the pointer from above; `AckPointersRight` bounds it from below. The filter needs that the start is the same from any position between it and the frame (`SameStartPosition`), the numbers that a copy's number is how many copies are before it on a list without doubles, an injection into as many numbers as there are copies |
| `KeyTableProofs` | `TableTypeCorrect`, `NeverTwice`, `ImplementsMap` | `Inv`: types and no key twice, which makes the map well defined |
| `DecryptionProofs` | `DecryptionTypeCorrect`, `OnlyJustifiedKeys`, `DecryptionStays`, `HintCopyIsCurrent` | `IInv`: types, hints in memory come from a text, keys are justified; for stability `DecryptedHaveEntries`, that what was decrypted has an entry, and `EntriesSupplied`, who may have filed an entry with its source; for the copy `CacheInv`, that no file or copy is of the future, and that a copy as old as its file has the file's keys, or none if it was not `opened` |
| `CASERecoveryProofs` | `CASETypeCorrect`, `OnlySessionKeys`, `WellKnownSessionsRecovered`, `RedissectionIdle`, `RecoveryImplementsKeyMap` | `IInv`: the properties themselves with `Attached`, that every passed frame is attached to the record of the nearest request before it, and `RecordsOfRequests`, that a record says what its request and response say |
| `TCPFramingProofs` | `TypeCorrect`, `NothingLost`, `FramingImplemented` | `IInv`: types and `PdusAdjoin`, with `NeedBeyond`, that what is waited for lies behind the buffer, `NoCut`, that no segment ended between the buffer and what is waited for, and `Framed`, that up to the first segment with messages of different sizes the place in the buffer is where a message begins, and the length read for it is its own |
| `TCPFramingProofs`, progress | `CapturedIsDelivered`, `EveryTurnAdvances` | the same. What is waited for is the end of the next message, or the second byte of its length field, so no message that was captured is waited for; `LeftToDo`, the bytes not dissected and twice those not in the buffer, and one for a turn that finds that it has to wait, decreases |
| `MessageDissectorProofs`, place | `TypeCorrect`, `ContainersAreAround`, `NothingShownTwice`, `NothingLost`, `PlaceKept` | `IInv`: types; `OpenIsAround`; `Shown`, which adds to the two properties where items end (`ShownBefore`), and that all before an element at which a call failed is shown (`PassedBefore`); `Placed`, which adds to `KeepsPlace` that no failure is made up for where no block is in a block (`NoneIsMadeUpFor`, `CallsMatch`); `CommandsFail`, that nothing is made up for between a command and the message, so that the item that a command adds before it fails is the last |
| `MessageDissectorProofs`, paths | `FieldsNamedByOwnPath` | `PathInv`: the same, with `PathsRemembered`, that a call with the ids of a path has that path behind it in its own block (`Remembering`), that the block has shown no field of its own yet under a field's name, and that a call for commands was made by a request or a response as the message has it (`Directed`). What the rules pass on is `Fits` |
| `MessageDissectorProofs`, conforming | `ConformingAreShown`, `ConformingValuesShown` | `ConformingInv`: `IInv` and, of a message that conforms and has none of the four contents, `ReadsOn`: it is running or done at its end, each call is for a container of the shape that its dissector reads (`IsFor`), and one for a command has ids once the path was read (`KnowsCommand`) |
| `MessageDissectorProofs`, progress | `EveryStepAdvances` | `IInv`, for which every step decreases `Measure`, twice the tokens not read and the calls under way |
| `TLVReaderProofs` | lemmas on the reader and on documents, which the next row rests on | none: of every operation, which token the reader has passed before it (`Passed`) and after it. `SkipLoop` is the rule for the loop, that what holds of the first state and is kept by `SkipTurn` holds of the last |
| `TLVDissectorProofs` | `TypeCorrect`, `ExtentsCorrect`, `ItemStaysWithElement`, `ElementsShownWhole`, `Refinement` | `Inv`: a dissector that has not failed is `Running`: its reader has passed a token in the innermost container on its stack, not deeper and not behind its end (`IsIn`), each entry of the stack stands for a container in the one below it (`Stands`), and the extent and item are of one element; at the end of a container it is `Ended`, which only `ExitContainer` may find. `ShownInv` adds that a call that is showing members has shown the lines of its element up to the token that was passed. For the refinement, which the next paragraph is about, `ListInv`: what `AddListItem` is showing is a list |

`Refinement` proves that `TLVDissector` implements `TLVCursor`. `Frames` gives the
cursor case by case (`CursorIs`), `BehindIs` relates the members that are behind it
to the token that `Next` goes on with: in any document there is none before that
token, in a well formed one it is the next member or the end of the container
(`NextIsMember`). One lemma for each call then finds its disjunct of the cursor's next
step. The turns of a loop over members stutter, except for the last. A call that
fails needs a reason that `TLVCursor` knows: the lemmas on well formed documents at
the end of `TLVReaderProofs` show that there neither skipping nor leaving fails, and
`GenericFails` that showing does only on no element or on an empty byte string, and
in a container only as an element of a list, as what is deeper is indented and no
container that is whole ends with the buffer (`BytesInContainer`).

`ConformingAreShown` takes the schema and the rules together. `Shapes` gives an
element its shape from that of the element around it, so its table is defined by
itself; `ShapesExist` shows that there is such a table, by the least number of
tokens for which there would be none, and `ShapesUnfold` that each entry is what the
schema says. For each dissector a lemma then compares its rule with the schema, row by
row: an element that the schema allows and that is not one of the four contents is
shown, or entered by the dissector of its shape, and never refused or added in a field
of another type (`Suits`). Messages with one of the four contents are left out; the
list of behaviours in section 3 says what becomes of them.

Assumptions beyond the constants' types, each stated in its theorem:

- `FrameOrder`, `RecordsComplete`, `EarliestAckShown`, `EarlierFramesShown`: no key
  is learnt late (`LateSessions = {}`). With late keys all four are false, as a
  later key makes an earlier frame readable and its record comes last.
- `HintCopyIsCurrent`: no file is written twice in one tick (`SameTick`), since
  the code compares modification times in whole seconds.
- `RecoveryImplementsKeyMap`: the constants of the map hold what recovery files.
- `DocumentsAssumption`: documents are what a buffer holds of an encoding, with
  the tables that `Document` computes of it; any sequence of tokens is an encoding.
- `StreamsAreStreams`: the ends of messages and the cuts of a stream are in order,
  a message is longer than its length field, and a cut is at the end.
- `MessagesAreMessages`: payloads are whole and well formed, with the tags that
  the reader accepts where they are, and known kinds.
- In `CASERecovery` a frame holds one unencrypted message, so that its exchange's
  list is in frame order, which `FrameOrder` proves; hashes and HKDF are injective.

Only model-checked: liveness (`Returns`, `AllDissected`), as the prover has no rule
for fairness. What is proved of it is the safety part. A dissection cannot go on
forever, as every step decreases a number (`EveryStepAdvances`,
`EveryTurnAdvances`), and where the framing stops nothing that was captured is
held back (`CapturedIsDelivered`). That it does not stop earlier, in a state
where no step is enabled, is what the runs show.

## 5. Not modelled

- The dissectors of `StatusReport`, `StandaloneAck`, `PakeError` and ICD check-in,
  of echo, of the line of text before a declaration for commissioning, and of the
  legacy protocols: they add the fields of a message in a fixed order and keep
  nothing but what `CASERecovery` has.
- What OpenSSL decodes: X.509 certificates and requests, CMS envelopes, and the
  certification declaration in them, whose dissector passes over elements without
  a context tag (`packet-matter-im.cpp:2195`).
- Bytes of headers, AES-CCM, HKDF and elliptic curves: pure functions, covered
  by the vectors of `tests/` or ideal where a model needs them.
- Names, error strings, generated tables, wording and layout of items.
- Wireshark's handling of preference tables; a dissection sees the entries.
- Failures of memory allocation, and strings of 2^32 bytes and more.

## 6. Plan

1. Tracker, keys, CASE recovery, TLV reader and display. *Done, with proofs.*
2. `TCPFraming`: where a message begins and ends in a segment. *Done, with proofs.*
3. Message dissectors of the interaction model, the secure channel and user
   directed commissioning, and of embedded encodings. *Done, with proofs.*
4. Composition of tracker, decryption and CASE recovery over one capture: keys
   that are recovered in one frame decrypt later ones, and records follow.
5. Proofs: that the record lists in memory (next and prev pointers) implement
   the sequences.
