# A verification project for smpp-smsc

TLA+ models, TLC runs and TLAPS proofs for the SMPP server runtime in
`internal/smsc`. Source files are named without that prefix below; line numbers
refer to them.

## 1. The system

One process accepts TCP connections from SMPP clients (ESMEs). Every connection
is a session with goroutines of its own; a manager keeps the sessions; an
application supplies the handlers and sends messages and delivery reports of its
own accord.

| component | state | operations | goroutines |
| --- | --- | --- | --- |
| `Server` (server.go) | listener, context, wait group | `Start`, `acceptLoop`, `handleConnection`, `SendDeliverSM*`, `SendDeliveryReport`, `SendSegmentedDeliverSM`, `Shutdown` | accept loop; one per connection being set up; the application's |
| `Session` (session.go) | connection, reader and writer buffers, `pduQueue`, `PendingRequests`, `replaceSubmitLast`, sequence number, `Bound`, activity clock, enquire_link count | `start` (reader), `outgoingHandler` (writer), `enqueuePDU`, one handler per PDU, `cleanupPendingRequests`, `Stop` | reader, writer, cleaner of pending requests, cleaner of segments; `Stop` on whichever calls it |
| `SegmentsManager` (segments.go) | 256 locked shards of buckets | `AddSegment`, `cleanup`, `Stop` | called by the reader; its cleanup routine; `Stop` |
| `SessController` (session_manager.go), `SessionCache` (session_cache.go) | session cache (access expiry, size), `sessionIDs`, `messageIDCache` (write expiry, size) | `InitializeSession`, `DeleteSession`, lookups, register and unregister of message ids, the inactivity sweep, `Shutdown` | the sweep; the cache's own goroutines and its deletion callback |
| policy and parameter types (types.go) | none | `RegisteredDeliveryFlags`, `SubmitSmParams`, ... | |
| text, TLV and UDH conversions (utils.go), receipt text (delivery_report.go) | none | pure functions | |
| configuration, container, logger, ids, demonstration server | settings | | |

How they meet:

- The **reader** hands parts of long messages to the `SegmentsManager`; the
  cleanup routine and `Stop` work on the same shards.
- The **reader** stores a pending request and registers a route when a submit
  asked for a receipt; **application goroutines** look it up, send the receipt and
  delete it; the **cleaner**, a superseding submit and `Stop` delete it as well.
  Each access to a map is atomic, no two of them are.
- The **sweep** looks every session up (which renews its cache entry), queues
  enquire_links and drops sessions; the **cache** expires and evicts entries and
  its callback stops the session; the **reader** notes activity and resets counts.
- Reader, application and sweep put PDUs on the session's queue; the **writer**
  drains it in batches. The answer to replace_sm goes around queue and writer.

What is hard here is what happens between two atomic accesses: the reader is
never stopped from outside (it looks at the context once per PDU), and every other
goroutine works on the same maps meanwhile. The list of such places, line by line,
is under `hazards` in PROJECT.json, each with the properties that speak about it.

What makes each component correct:

- reassembly: a message is delivered once, whole, under the id its parts were
  answered with, asking for a receipt if any part did; nothing waits for ever;
- receipts: only to the session that asked, only for the outcomes asked for, once,
  never for a superseded message; entries and routes go away together and in time;
- sessions: active ones stay, silent ones are found out and dropped after their
  retries, whatever leaves the cache is stopped and forgotten;
- session loops: what is queued is written in order and once, an answer finds its
  entry, nobody waits for ever, `Stop` ends both loops;
- server: shutdown leaves nothing behind, and a connection accepted late does no
  harm;
- long texts: what is reported as sent is what a receiver puts together; what a client
  submitted in parts is read as it numbered them.

## 2. The plan

Modules, in order of what matters most; those marked * are written.

1. `Segments`*, with the abstract `Reassembly`* it implements; `SegmentsProofs`*,
   `SegmentsRefinement`*.
2. `Receipts`* (handleSubmitSM, SendDeliveryReport, the routes); `ReceiptsProofs`*.
3. `SessionManager`* (cache, sweep, enquire_link, activity); `SessionManagerProofs`*.
4. `SessionLink`* (reader, queue, writer, Stop), with the abstract `Outbox`*;
   `SessionLinkProofs`*, `SessionLinkRefinement`*.
5. `Server`* (Start, the accept loop, the set-up of a connection, Shutdown against sweep,
   cache and readers); `ServerProofs`*.
6. `Texts`* (the functions a text goes through) and `LongText`* (texts on their way in
   parts, outwards and inwards); `LongTextProofs`*.
7. Composition: `Receipts` over `SessionLink`'s queue, so that "sent" can be
   followed to the wire.

The proofs cover what the runs check of safety, for every value of the constants; section 5
says with which assumptions.

## 3. The modules

Every module begins with a comment that says what it models. Names follow the
source. `map` in PROJECT.json ties each definition to the lines it stands for.
Definitions called `Mut...` are wrong variants, each placed before the definition
it would replace: a dropped guard, a lost update, a swapped order. None is used by a
specification. They are there to show that every property can fail: with the
variant in place of the definition, TLC finds the property violated.

### Segments, Reassembly

The reader calls `AddSegment`, which is `AddPart` or `AddRejected` (the section under
the shard's lock, 126-184, and the completeness test on the private copy) and
`FinishComplete` (the second section, 191-194, and the call of the submit handler).
Between them the bucket is complete, unlocked and still in the map. The cleanup
routine is `BeginSweep`, one `SweepShard` per shard, `EndSweep`; `Session.Stop` is
`Stop` and one `ClearShard` per shard; `Tick` lets time pass. `CheckContext`,
`ReadOther` and `ReadFails` are the reader's loop.

A message is a route, a 16-bit reference, a number of parts and the parts that ask
for a receipt. A bucket is named by the route and the reference's low byte
(`GroupOf`), as parseSubmitSM and fillSegmentGroupID do. The md5 and the FNV hash
are taken to be injective and any function, respectively. Texts are left out: a part
is its message and its index, so that `delivered` tells which parts of which message
came together.

`Reassembly` is the promise: buckets that gather parts under an id never used before,
are handed over whole in one step and may be dropped. It knows no locks, shards,
clocks or goroutines. `ImplementsReassembly` maps its buckets to `Gathered`: a bucket in
the map, or the private copy of one that is complete until it is handed over, whatever
the sweep or `Stop` does to the original.

### Receipts

One reader per session and any number of reporting goroutines over
`PendingRequests` (`pending`), `messageIDCache` (`route`) and `replaceSubmitLast`
(`last`). `Submit` to `FinishSubmit` is handleSubmitSM, each access to a shared map a
step; `ReplaceLoad` to `ReplaceForget` is tryReplacePreviousSubmit with
RemovePendingRequestByMessageID inside. `BeginReport` to `RemoveUnroute` is
SendDeliveryReport. `ExpirePending` is the hourly cleaner, `LoseRoute` the route
cache's TTL and size, `LookupStaleRoute` GetSessionByMessageID, `Stop...` the Range at
the end of Session.Stop, which may visit or miss what is stored meanwhile.

A session is bound as a receiver from the start until its Stop. Reports are made for
ids a submit handler has been given, to the session it was given them by.
`submits`, `known`, `replaced` and `receipts` are history: no guard of the
code's actions reads them, except that a report needs a `known` id and looks up the
session on record for it.

### SessionManager

Time is counted in periods of the sweep's ticker. `cached` and `age` are the cache;
`Expire`, `Evict` and `CallbackStops`, which stops a session that has left, are its own
doing (otter's rules, as session_cache.go configures them), `Touched` the renewal by
every lookup.
`BeginSweep` to `EndSweep` is processInactiveSessions with checkSessionInactivity and
sendEnquireLinkReq; the wait for room in a full queue (`blocked`) is the only place
where a sweep takes time. A reader's PDUs are sorted by what they change: a bind, an
unbind, an answer to enquire_link, any other. `old` is the set of sessions inactive
with respect to the sweep's `now` that have not been heard of since and are still to be
judged. `silent` and `stalled`, the sessions whose full queue the sweep under way has
waited for, are history. `Mute` bounds the model: clients in it connect and send nothing.

### SessionLink, Outbox

`SendDeliverSM(a)` of each sender, the reader's loop, the writer's loop and `Stop`.
enqueuePDU is three actions: the look at the context, the offer, the timeout. The
writer is `TakePDU`, `EndDrain` (drainOutgoingPDUBatch), `CheckOpen`, then `Fill` or
`FillDirectly`, then `WriterFlushes`. bufio's Flush is two steps, the write to the
connection and the reset of the buffer, because the reader's Flush after a
replace_sm runs beside it without the mutex: that is a data race in the code, and
the model lets the steps of the two interleave. A write may fail at any time after
any part of it; bufio keeps the error. Everything else a PDU contains is left out.
`Outbox` is the promise: what was accepted leaves in order, written once or lost. Its line is
`Waiting`, what the buffer, the batch and the queue still hold of what was accepted.

The peer answers only deliver_sm it has been sent.

### Server

`main` names the last thing the main goroutine has done: Start, then the steps of
Shutdown one by one, since between any two of them accept loop, set-ups, readers, cache
and sweep go on. The accept loop is `CheckContext`, `Accept` or `AcceptFails`, `Handle`;
the goroutine of a connection is `GiveUp` or `MakeSession`, then InitializeSession in its
two stores, `CacheSession` and `IndexSession`, then the session's reader; between the two, and
before the reader, the cache may remove it already, and `CallbackStops` stop it, some time
after `CacheRemoves`, `Drop` or the flush. `CacheGone` is
InitializeSession after SessionCache.Close has set its pointer to nil: the process ends
(`crashed`). The sweep is `BeginSweep`, a `Visit` per id, a `Judge` per session with the
wait for room in its queue (`QueueWaitEnds`), and DeleteSession in its two steps, `Drop`
and `Unindex`.

The module composes the shutdown of `SessController` with the life of a session, and
takes from the other modules what it does not repeat: when a sweep drops a session and
when the cache does is `SessionManager`'s, so either may happen here at any time; Stop
is one step, `SessionLink` has its parts. The pointer is read and set without a lock;
that a read sees either value is the interleaving of the two steps.

### Texts, LongText

`Texts` has pure operators: EncodeMessage, DecodeMessage, splitTextIntoSegments,
ParseUDH, the header part of parseSubmitSM, calcSegments. A character is its kind, for
these functions tell apart only whether it is in the basic GSM7 table and with which sort
of septet, in its extension table, in Latin-1, in Cyrillic, above U+2000, or takes two
UTF-16 units. A text is a
number of letters followed by a number of characters of one kind. Headers are kept octet
by octet, since that they are read back as written is what matters about them.

DecodeMessage guesses whether GSM7 is UCS2 after all from octets up to 0x1F in even places,
so kinds differ in that as well: the dollar, the vowels and the Greek letters stand for the
basic characters with small septets (the first at its ASCII octet in Latin-1 too, the second
at another, the third not in Latin-1); the caret is the extension character with two small
septets, the euro the one above U+2000. `Beginnings` counts how many fall in even places.

`LongText` lets any number of texts travel at the same time. A call of
SendSegmentedDeliverSM is `BeginSend`, a `SendPart` for each part, or `PartFails` at any
of them. A client's text is `BeginSubmit`, in one of the seven ways a client may send it
(alone or in parts; in short_message or message_payload; numbered by either form of the
header, in the message or in the payload, or by the three sar parameters), and a
`ReadPart` for each part. What Segments does with parts is left to that module.

## 4. The runs

Passing runs (states and times of a small machine with two workers):

| run | instance | shows |
| --- | --- | --- |
| segments | 4 messages, 2 of them in one bucket with different totals, 1 with too many parts; 2 shards; 3 ids | buckets stay coherent, ids unique, messages whole and delivered once; buckets drain; `Reassembly` is implemented; 0.3 million states |
| receipts | 1 session, 1 reporter, 2 submits under one key, octets 0 and 2 | receipts obey the policy, superseded messages stay silent, bookkeeping takes away no route of a pending entry, entries that ask for a receipt drain; 0.6 million states |
| session_manager | 2 sessions, one of them mute, cache of 1, TTL and queue timeout of 3 periods, 2 retries | an entry expires only in a sweep held up by full queues for that long; a session is dropped only if silent; inactivity is resolved; 0.3 million states |
| session_link | 2 senders, 1 request, queue and batches of 2 | order and multiplicity on the wire; answers find their entries; 0.5 million states |
| session_link_live | 1 sender, 2 requests of any kind, queue of 1 | every enqueue returns; Stop ends both loops |
| server | 2 connections, any number of accept errors | Shutdown returns and leaves nobody waiting; no sweep meets the closed cache; late sessions serve nothing and end; accept errors do not go on unnoticed; whatever leaves the cache is stopped; 0.1 million states |
| texts | 2 texts out of 18, 2 references, a limit of 200 characters | the parts of a text are put together whole, beside the parts of another; the count returned is the count queued; parts are read as numbered, and in which codings and mixtures as written; 1.8 million states |

Runs that find a violation, each of a statement the repository makes (the quotations
are under `findings` in PROJECT.json):

| run | what the code does |
| --- | --- |
| segments_mixing | messages with references equal in the low byte are joined (segments.go:128) |
| receipts_twice | two concurrent reports of a message send two receipts (server.go:434-483) |
| session_manager_expiry | in a sweep that two full queues hold up, an active session expires (session_manager.go:228): with the default proportions of TTL, inactivity and queue timeout, 5:1:3 |
| session_manager_dead | a session that stopped itself stays in the cache for ever, renewed by every sweep (session_manager.go:220) |
| session_link_replace | a batch is written twice (session.go:1007) |

### Also met while modelling

The models contain these behaviours, as the code does; no run states a property about
them, and the hazards of PROJECT.json carry the lines.

- A sweep judges a bucket by its part of the lowest index, not by its oldest
  (segments.go:248-256; `First`, `Expired`).
- A segmented message of which only an earlier part asked for a receipt is stored with
  the octet of its last part, which asks for none, and the TTL exempts octet 0
  (session.go:800-806, 1087). `Submit` lets the octet and the wish differ;
  `PendingDrains` speaks of octets that ask.
- A report made before the submit handler has returned finds no entry, and one made
  between the store and the registration leaves a route without an entry
  (session.go:832-846).
- An id the cache has evicted or expired stays in sessionIDs (session_cache.go:28-32,
  session_manager.go:220-221).
- The writer may end with the answer to an accepted unbind on the queue (session.go:540).
- The break at session.go:1075 leaves the select and not the loop, so the cleaner of
  pending requests outlives Stop.
- A connection whose set-up is overtaken by Shutdown stores its session through a cache
  pointer that is nil by then, which ends the process (session_cache.go:43-45, 61;
  `CacheGone`). Every liveness property of `server` allows for it.
- One error of Accept, however transient, ends the demonstration server: the loop goes on,
  but main takes the error from the channel and shuts down (server.go:181-185,
  cmd/server/main.go:225-235).
- GetCompleteMessage looks for the coding in `seg.Encoding`, which parseSubmitSM never
  sets (segments.go:213): a text in several parts is decoded as GSM7, or as UCS2 if its
  octets look like it, although types.go:102 calls the field the decoded text. Latin-1,
  Cyrillic and UCS2 above U+2000 come out wrong (`AnnouncedFor`; the condition of
  `SubmitsRead`).
- DecodeMessage is not the inverse of EncodeMessage, with which utils.go:73 says it is
  aligned: a GSM7 text of an even number of septets, more than half of whose pairs begin
  with one up to 0x1F, is taken for UCS2 (utils.go:108, 154-166; `GuessUCS2`). Such are
  `éééé`, `$$$$` and most texts of brackets or Greek capitals, in one part or in several. `SubmitsRead`
  says it cannot happen to a text with a quarter of such septets or less.
- A GSM7 text that begins é@¥ or ùòè begins with the octets of a header, and loses six or
  seven characters when it is decoded (utils.go:96-104; not among the kinds of `Texts`).
- README.md:219 says `sub` reflects the submitted segment count. It is counted anew from
  the decoded text (session.go:801, 1019-1046): for Latin-1 and Cyrillic in UTF-8 octets,
  in several parts filled otherwise than to the limit differently, and modulo 256.
- Parts longer than 248 octets are cut without an error (server.go:585): extension
  characters in a coding the caller chose, and emoji. Most characters between U+0080 and
  U+009F are taken for Latin-1 and then refused by the encoder (server.go:608, utils.go:81; not
  among the kinds of `Texts`).
- A DefaultMaxSegsCount above 17085 lets the number of parts exceed its octet; the proof
  of `TextsArrive` assumes it does not.
- With both a short_message and a message_payload, Text is decoded from the former
  (session.go:717) although types.go:100 says it is ignored.
- The limiter that config.go:38 calls shared across all sessions is created for every
  connection (server.go:225), and SetGlobalRateLimiter affects later connections only.

### Why these bounds

- *Segments.* The races are between the reader and one other goroutine over one
  bucket; one bucket shared by two messages, one beside it in another shard, three
  parts, and ids enough for a completion and a repetition show every case. `MaxId`
  bounds parts sent; `MaxAge` 1 lets a part be fresh, at the limit and past it.
- *Receipts.* Octet 2 asks for the receipt of a failure and for none of a success, octet 0
  for none at all; the proofs cover every octet. One session, since no action touches two; a second submit to
  supersede the first; one reporter beside reader, cleaner and Stop. A second
  reporter is what `receipts_twice` adds, and `AtMostOneReceipt` is checked with one
  because with two it fails. The proofs cover any number.
- *SessionManager.* `idle` and `age` are counted up to the limit that is compared with. The
  defaults are, in periods of 10 s, a TTL of 15, an inactivity timeout of 3 and a queue
  timeout of 9. `session_manager_dead` has one session and these. `session_manager_expiry`
  has two and 5:1:3, the same with periods of 30 s, and finds its violation at 15:3:9 too,
  where it takes 17 million states.
  `session_manager` has 3:1:3, so that one full queue is enough for an expiry: the smallest
  instance in which entries expire during a sweep, as they do by default with two full
  queues. Its second session is there to be evicted, to evict, and to be swept; that it says nothing
  keeps liveness within reach. The safety properties have also been checked with two
  sessions that talk, and the theorems cover any number, at any limits.
- *SessionLink.* Batches of two from a queue of two and three PDUs in all show order
  within and across batches. `sequence` starts anywhere, so that it comes around.
- *Server.* Two connections let one be served while the other is set up, accepted or
  waiting; Shutdown runs once. Errors of Accept are not counted. The cache may remove a
  session at any time, so that every order of store, index, start, sweep and removal occurs.
- *LongText.* Two texts, since parts are mixed in pairs. Texts lie at the limits of one
  part, one above, and at the limit of characters, in every kind and in mixtures; texts of
  small septets have a quarter of them, and more; the
  references differ in the high byte only, so that their low bytes meet. The real limits
  are used (160, 153, 140, 134, 70, 67; 200 characters).

Deadlock is checked in every run. A finished instance of `Segments`, `SessionLink`,
`Server` or `LongText` stutters (`Finished`); in the other modules something can always
happen.

### Fairness

Only what the code or the Go runtime guarantees: a runnable goroutine runs (weak
fairness of its next step), tickers tick, and the waits the code bounds end. Reads
are not fair, except that a read on a closed connection fails; a peer need send
nothing. In `Receipts` the application's handler returns, the cleaner goes
through all entries, and the TTL gets strong fairness, since calls may be in progress now
and then but no call lasts as long as 74 hours. In `SessionManager` expired entries are removed by the cache in
time, as its documentation promises. In `Server` a read ends by its deadline and a wait for
room by its timeout; Accept returns when somebody has dialled or the listener is closed, but
need never fail of itself, or the server would have to end in every behaviour; main receives an
error that waits; the cache runs its callbacks until it is closed; and the
sweep's select, which picks at random among channels that are ready, ends the sweep some
day once it is told to (strong fairness). Nobody need dial, send a signal, or let the
ticker tick. `LongText` states no fairness: it has no liveness property. Properties of safety do not depend on any of it.

## 5. The proofs

Every safety invariant, every action property and both refinements that a passing run
checks are proved, for every value of the constants that the modules' assumptions allow. Seven
of the theorems assume more, and each says what keeps the property from holding without it:

| theorem | assumes | otherwise |
| --- | --- | --- |
| `UnlikeStayApart` | no two messages of the peer have route, low byte of the reference and total in common | run segments_mixing |
| `OneReporterSendsOnce` | one goroutine makes delivery reports | run receipts_twice |
| `Refinement`, `OnceWithoutReplace` of SessionLinkRefinement | the peer sends no replace_sm | run session_link_replace |
| `ExpiryNeedsFullQueues` | the cache's TTL is longer than a period of the ticker (`1 < CacheTtl`) | an entry expires between two sweeps |
| `TextsArrive`, `SubmitsAreRead` | at most 17085 characters; at most 255 parts | a number of parts beyond its octet |

*Segments.* The properties of `SegmentsProofs` are not inductive: that a delivered id is not
delivered again depends on ids being fresh, on no bucket carrying a delivered id and on the
private copy being the bucket it was taken from, so far as that is still there. `IInv` adds
these facts (`IdsGenerated`, `DeliveredIdsGone`, `RequestsKept`, `CopySound`). Its
preservation has a lemma per kind of step: those that leave the buckets alone, those that
remove some (`SweepShard`, `ClearShard`, `FinishComplete`), `Tick`, and `AddPart`. For
`StopLeavesAtMostOne`, `StopSound` says that a bucket in a shard that Stop has passed is one
the reader made after its look at the context, and the reader makes one at most. For
`NoMixing`, which the code does not keep, `OnlyAlikeMix` says what it keeps: parts
delivered together agree in route, low byte and total (`HeadersKept`).

`SegmentsRefinement` maps every step: `AddPart` gathers a part or opens a bucket,
`FinishComplete` hands over the copy, the sweeps and Stop drop buckets, several at a time,
and all else stutters. A bucket opened anew must start from nothing, so that an absent one
keeps no request for a receipt (`NothingInherited`).

*Receipts.* `ReceiptsProofs` covers any number of sessions, reporters, keys and submits. The
argument follows the octet: what a reader works on is on record (`ReaderSound`), an entry has
the octet on record (`EntriesSound`), a report past the policy was asked for
(`ReportsSound`); and a superseded id is in no map (`ReplacedGone`), so a report begun later
cannot get past its load. There the lemmas are per part of the invariant, each over all
actions. `RoutesOutliveEntries` needs that an entry is stored once (`StoredOnce`): who is
about to remove a route has removed the entry before (`UnroutedGone`), and nobody can have
put it back. On the same fact rests that one reporter sends one receipt: when it comes
back for a second report of a message, the entry is gone (`SentGone`).

*SessionManager.* The retry counter is at most one ahead of the enquire_links left unanswered
(`CountedOnce`), whatever the reader resets between the sweep's verdict and its count; hence
`DroppedOnlyIfSilent`. That expiry takes full queues is a matter of amounts. Every cached
session is in the index the sweep goes through (`Indexed`), and the sweep waits for each
queue once, for QueueTimeout at most (`StalledOnce`, `Judging`), so that the time a sweep has
taken is bounded by what it has waited for so far (`Waited`). Its lookups have renewed every
entry when it begins to wait, so an entry is no older than that, and between two sweeps no
older than a period more (`Renewed`). An entry that reaches its TTL thus has a sweep behind it
that has waited that long. With the defaults, 90 s against 150 s, one full queue cannot do it
and two can: session_manager_expiry shows that they do, to a session that is active. It
is also why the session of session_manager_dead, which stopped itself, never leaves the cache:
without full queues, nothing does.

*SessionLink.* `SessionLinkProofs` covers any number of senders, requests, limits and
sequence numbers. The entry must be there for the whole way: `EntriesMade` says so of every
deliver_sm that is being queued, queued, in a batch, in the buffer or on the wire
(`InFlight`), until it is answered or Stop has ended. That each place holds what it should
rests on where reader, senders and writer are (`ReaderSound`, `SendersSound`, `BatchSound`,
`FlushesSound`). A sender stands for one call, and by
`SequenceAssumption` there are no more of them than sequence numbers (2^31 - 1 in the
code): the counter comes around, but a number is not given out again.

`SessionLinkRefinement` maps the offer to `Accept`, and to `Depart` whatever takes PDUs from
the front of the line: a write of any length, an error, a flush, a writer that ends. The
writer's steps in between move PDUs from queue to batch to buffer and leave the line as it
is. `WrittenOnce` follows from all PDUs in the line and on the wire being different
(`RowSound`), which a new one joins because its sender, or its request, has not been
there before (`Settled`, `SequencesSound`).

*Server.* `ServerProofs` covers any set of connections. What the sweep holds are sessions that
have been indexed (`SweepHoldsIndexed`), and these never go back to the set-up, so none of them
enters the cache while DeleteSession is between its two steps; and main's place tells which
goroutines have ended before it (`SweepEndsFirst`, `AcceptEndsFirst`).

*LongText.* `LongTextProofs` covers any texts, any references of 16 bits and any limit. Under
the theorems are facts about the functions: the pieces of splitTextIntoSegments lie end to end
from the first character to the last (`PartsPartition`), a header is read back as it was
written, with its short and its long form (`HeaderReadBack`, `ShortReadBack`), and in the
coding chosen for it a piece without characters of two units is not cut (`PieceKept`). The
invariant says that every part on the wire is the one its call would make now, and that
these are the ones its count names (`WireKnown`). For `SubmitsRead`, that every part
read of a client's text has its number and total as the client wrote them, in each of the
seven ways to write them (`NumbersRead`, `ReadPartKnown`); that no more pairs of octets begin
small than there are small septets, wherever they fall (`PairsAmongSmalls`), so that a text
with a quarter of them at most is not taken for UCS2 (`TextFound`); and that counting
characters from such a text gives the number of parts sent (`PartsCounted`).

TLC has checked each of the inductive invariants on the instances above as well: the `IInv`
of `Segments`, `Receipts` and `SessionLink`, which are defined at the end of these modules,
and those that stand with their proofs.

Only model-checked are the liveness properties, since liveness under fairness is beyond the
prover: `PartialsDrain`, `PendingDrains`, `RemovedIsStopped`, `InactiveIsResolved`,
`EnqueueReturns`, `StopEndsLoops`, `ShutdownReturned`, `EverySessionEnds` and
`EveryConnectionServed`.

## 6. Not modelled

- Which limiter a session gets: a choice without a state of its own, and the rates are the
  library's. TCP options. SetHandler and SetGlobalRateLimiter.
- The tables of alphabets, packed GSM7, ParseTLV and the rest of the receipt's text: pure
  functions with unit tests of their own and no state. Configuration setters, container,
  logger.
- Submits whose header has several concatenation elements, or sar parameters beside a
  header in the payload; texts of more than two kinds of characters, and those that begin with
  the octets of a header; the grave accent, the section sign, typographic quotes, line ends and
  controls; what the library's
  GSM7 encoder makes of a character outside its tables.
- query_sm: its handler reads nothing of the session and its answer takes the way of
  every other.
- That a segmented submit has the id of its first part: in `Receipts` ids number the submits in
  the order in which they are complete, and nothing but that order is read off them. Pending
  entries keyed by sequence number (server.go:405) are in `SessionLink`, not among those of
  `Receipts`.
- Binding types other than receiver in `Receipts`; several binds of one session.
- Bytes on the connection: a deadline that passes inside a PDU, and the decoder.
- UpdateSession, DeletePodSessions, GetReceivers, the lookups by pod and application:
  nothing in the program calls them.
