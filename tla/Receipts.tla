------------------------------ MODULE Receipts ------------------------------
(***************************************************************************)
(* Delivery-receipt bookkeeping: what ties a submitted message to the      *)
(* delivery report the application sends for it later.                     *)
(*                                                                         *)
(* A session's reader generates an id, drops the message it replaces, runs *)
(* the application's submit handler and only then stores the pending       *)
(* request and registers the route (session.go handleSubmitSM).  The       *)
(* application's own goroutines call SendDeliveryReport (server.go) for    *)
(* any id a handler has been given.  Meanwhile the hourly cleaner drops    *)
(* pending requests past their TTL, the route cache expires or evicts      *)
(* entries, and a session may be evicted and stopped.  All of them share   *)
(* two maps, PendingRequests of the session and messageIDCache of the      *)
(* manager, and each access is a step of its own: nothing holds a lock     *)
(* over two of them.                                                       *)
(*                                                                         *)
(* Message texts, addresses and segment counts are left out; a submit is   *)
(* its registered_delivery octet, whether a receipt is wanted, its         *)
(* replacement key and its replace_if_present flag.                        *)
(***************************************************************************)
EXTENDS Integers, FiniteSets

CONSTANTS
    Sessions,
    Reporters,    \* application goroutines calling SendDeliveryReport
    Octets,       \* registered_delivery octets that occur
    SubmitKeys,   \* replacement keys (service type, addresses, default message id)
    None,         \* no session, no message
    MaxId         \* bound: messages submitted in a behaviour

ASSUME OctetsAssumption == Octets \subseteq 0 .. 255
ASSUME MaxIdAssumption == MaxId \in Nat
ASSUME NoneAssumption == None \notin Sessions /\ None \notin 1 .. MaxId

Ids == 1 .. MaxId

VARIABLES
    nextId,     \* next id of the server-wide generator
    reader,     \* the submit each session's reader is working on, and how far it is
    pending,    \* PendingRequests: the message ids stored, each with its octet
    route,      \* messageIDCache: the session of each id, or None
    last,       \* replaceSubmitLast: per session and key
    cached,     \* sessions the session cache holds
    stop,       \* Session.Stop: "no", "cancelled", "ranging", "done"
    toVisit,    \* keys that were there when Stop's Range began
    visiting,   \* key whose route the Range has dropped but not the entry, or None
    job,        \* what each reporter is doing
    aged,       \* pending requests older than PendingRequestTtl
    submits,    \* history: what was submitted under each id
    known,      \* history: ids a submit handler has been given
    replaced,   \* history: ids superseded by a later submit
    receipts    \* history: receipts put on a session's queue

maps        == <<pending, route, last>>
sessionVars == <<cached, stop, toVisit, visiting>>
history     == <<submits, known, replaced, receipts>>
vars == <<nextId, reader, job, aged, maps, sessionVars, history>>

-----------------------------------------------------------------------------
(* registered_delivery (types.go). *)

ReceiptType(rd) == rd % 4
RequiresDeliveryReceipt(rd) == ReceiptType(rd) # 0

MutSendAlways(rd, success) == RequiresDeliveryReceipt(rd)
ShouldSendDeliveryReceipt(rd, success) ==
    \/ ReceiptType(rd) = 1
    \/ ReceiptType(rd) = 2 /\ ~success
    \/ ReceiptType(rd) = 3 /\ success

-----------------------------------------------------------------------------
(* The data. *)

NoSubmit == [pc |-> "read", id |-> 0, rd |-> 0, wanted |-> FALSE, key |-> None,
             replace |-> FALSE, ok |-> FALSE]
NoJob == [pc |-> "idle", id |-> 0, session |-> None, success |-> FALSE, late |-> FALSE]

Waiting(s) == DOMAIN pending[s]
Bound(s) == stop[s] \in {"no", "cancelled"}
CtxDone(s) == stop[s] # "no"

\* The session that submitted an id.
Owner(id) == submits[id].session

Put(s, id, rd) == [pending EXCEPT ![s] =
                      [i \in Waiting(s) \union {id} |->
                          IF i = id THEN rd ELSE pending[s][i]]]
Without(s, id) == [pending EXCEPT ![s] = [i \in Waiting(s) \ {id} |-> pending[s][i]]]

Goto(s, pc) == [reader EXCEPT ![s].pc = pc]
Step(r, pc) == [job EXCEPT ![r].pc = pc]

-----------------------------------------------------------------------------
(* The reader: one submit_sm after the other. *)

MutContinue(s) == "read"
\* start's loop head, after a PDU has been dealt with.
NextRead(s) == IF CtxDone(s) THEN "exited" ELSE "read"

MutSupersedeAny(s, key, replace) == IF replace THEN "load" ELSE "handle"
\* Only a submit with replace_if_present, and only if one was recorded, supersedes.
FirstStep(s, key, replace) ==
    IF replace /\ last[s][key] # None THEN "load" ELSE "handle"

\* A plain submit wants a receipt when its octet says so; a segmented one when
\* any of its parts did, whereas rd is the octet of the part that completed it.  Ids
\* number the submits as they are complete; the code's id of a segmented one is that of
\* its first part, and only ever compared for equality.
Submit(s, rd, wanted, key, replace) ==
    /\ reader[s].pc = "read"
    /\ nextId \in Ids
    /\ RequiresDeliveryReceipt(rd) => wanted
    /\ reader' = [reader EXCEPT ![s] =
                    [pc |-> FirstStep(s, key, replace),
                     id |-> nextId, rd |-> rd, wanted |-> wanted, key |-> key,
                     replace |-> replace, ok |-> FALSE]]
    /\ nextId' = nextId + 1
    /\ submits' = [submits EXCEPT ![nextId] =
                     [session |-> s, rd |-> rd, wanted |-> wanted, key |-> key,
                      ok |-> FALSE]]
    /\ UNCHANGED <<maps, sessionVars, job, aged, known, replaced, receipts>>

\* A submit that never gets as far as its handler (a part of a message still
\* incomplete, a bad concatenation header, a text that cannot be decoded): all it
\* takes is an id.
SubmitHeld(s) ==
    /\ reader[s].pc = "read"
    /\ nextId \in Ids
    /\ nextId' = nextId + 1
    /\ reader' = Goto(s, NextRead(s))
    /\ UNCHANGED <<maps, sessionVars, job, aged, history>>

\* tryReplacePreviousSubmit: RemovePendingRequestByMessageID looks the old id up,
\* deletes it, drops its route; then the old id is forgotten.
Old(s) == last[s][reader[s].key]

MutForgetOnly(s) == "forget"
AfterReplaceLoad(s) == IF Old(s) \in Waiting(s) THEN "delete" ELSE "forget"

ReplaceLoad(s) ==
    /\ reader[s].pc = "load"
    /\ reader' = Goto(s, AfterReplaceLoad(s))
    /\ UNCHANGED <<nextId, maps, sessionVars, job, aged, history>>

ReplaceDelete(s) ==
    /\ reader[s].pc = "delete"
    /\ pending' = Without(s, Old(s))
    /\ reader' = Goto(s, "unroute")
    /\ UNCHANGED <<nextId, route, last, sessionVars, job, aged, history>>

ReplaceUnroute(s) ==
    /\ reader[s].pc = "unroute"
    /\ route' = [route EXCEPT ![Old(s)] = None]
    /\ reader' = Goto(s, "forget")
    /\ UNCHANGED <<nextId, pending, last, sessionVars, job, aged, history>>

ReplaceForget(s) ==
    /\ reader[s].pc = "forget"
    /\ last' = [last EXCEPT ![s][reader[s].key] = None]
    /\ replaced' = replaced \union {Old(s)}
    /\ reader' = Goto(s, "handle")
    /\ UNCHANGED <<nextId, pending, route, sessionVars, job, aged, submits, known,
                   receipts>>

\* The handler is called with the id: the application may report from now on.
EnterHandler(s) ==
    /\ reader[s].pc = "handle"
    /\ known' = known \union {reader[s].id}
    /\ reader' = Goto(s, "handling")
    /\ UNCHANGED <<nextId, maps, sessionVars, job, aged, submits, replaced, receipts>>

\* It returns a status; the pending request is stored whatever the status is.
LeaveHandler(s, ok) ==
    /\ reader[s].pc = "handling"
    /\ reader' = [reader EXCEPT ![s] =
          [@ EXCEPT !.ok = ok, !.pc = IF reader[s].wanted THEN "store" ELSE "finish"]]
    /\ submits' = [submits EXCEPT ![reader[s].id].ok = ok]
    /\ UNCHANGED <<nextId, maps, sessionVars, job, aged, known, replaced, receipts>>

StorePending(s) ==
    /\ reader[s].pc = "store"
    /\ pending' = Put(s, reader[s].id, reader[s].rd)
    /\ reader' = Goto(s, "register")
    /\ UNCHANGED <<nextId, route, last, sessionVars, job, aged, submits, known,
                   replaced, receipts>>

RegisterRoute(s) ==
    /\ reader[s].pc = "register"
    /\ route' = [route EXCEPT ![reader[s].id] = s]
    /\ reader' = Goto(s, "finish")
    /\ UNCHANGED <<nextId, pending, last, sessionVars, job, aged, history>>

MutRecord(s) == [last EXCEPT ![s][reader[s].key] = reader[s].id]
\* recordReplaceableSubmit: an accepted submit is the next to be replaced.
Recorded(s) == IF reader[s].ok THEN [last EXCEPT ![s][reader[s].key] = reader[s].id]
                               ELSE last

FinishSubmit(s) ==
    /\ reader[s].pc = "finish"
    /\ last' = Recorded(s)
    /\ reader' = [reader EXCEPT ![s] = [NoSubmit EXCEPT !.pc = NextRead(s)]]
    /\ UNCHANGED <<nextId, pending, route, sessionVars, job, aged, history>>

\* A reader that finds its session stopped, its connection closed or at EOF leaves.
ReaderExits(s) ==
    /\ reader[s].pc = "read"
    /\ CtxDone(s)
    /\ reader' = Goto(s, "exited")
    /\ UNCHANGED <<nextId, maps, sessionVars, job, aged, history>>

-----------------------------------------------------------------------------
(* SendDeliveryReport, for the session the submit handler was called with. *)

\* A session that is gone or unbound: SKIPPED_SESSION_CLOSED, nothing changes.
BeginReport(r, id, success) ==
    /\ job[r].pc = "idle"
    /\ id \in known
    /\ Owner(id) \in cached /\ Bound(Owner(id))
    /\ job' = [job EXCEPT ![r] = [pc |-> "load", id |-> id, session |-> Owner(id),
                                  success |-> success, late |-> id \in replaced]]
    /\ UNCHANGED <<nextId, reader, maps, sessionVars, aged, history>>

\* The pending request is read once; the policy decides between sending and dropping.
AfterLoad(j) ==
    IF j.id \notin Waiting(j.session) THEN "idle"
    ELSE IF ShouldSendDeliveryReceipt(pending[j.session][j.id], j.success)
           THEN "send" ELSE "remove"

Enter(r, pc) == [job EXCEPT ![r] = IF pc = "idle" THEN NoJob ELSE [job[r] EXCEPT !.pc = pc]]

LoadPending(r) ==
    /\ job[r].pc = "load"
    /\ job' = Enter(r, AfterLoad(job[r]))
    /\ UNCHANGED <<nextId, reader, maps, sessionVars, aged, history>>

\* SendDeliverSMWithParams and enqueuePDU look the session, its binding and its
\* context up again.
CheckSend(r) ==
    /\ job[r].pc = "send"
    /\ job[r].session \in cached /\ stop[job[r].session] = "no"
    /\ job' = Step(r, "queue")
    /\ UNCHANGED <<nextId, reader, maps, sessionVars, aged, history>>

\* The receipt is on the session's queue, whatever has become of the session.
SendReceipt(r) ==
    LET j == job[r] IN
    /\ j.pc = "queue"
    /\ receipts' = receipts \union
          {[id |-> j.id, session |-> j.session, success |-> j.success, late |-> j.late,
            nth |-> 1 + Cardinality({x \in receipts : x.id = j.id})]}
    /\ job' = Step(r, "remove")
    /\ UNCHANGED <<nextId, reader, maps, sessionVars, aged, submits, known, replaced>>

\* Session closed, context done or queue full: the call fails, the entry stays.
SendFails(r) ==
    /\ job[r].pc \in {"send", "queue"}
    /\ job' = Enter(r, "idle")
    /\ UNCHANGED <<nextId, reader, maps, sessionVars, aged, history>>

\* RemovePendingRequestByMessageID: look up, delete, unregister.
MutRemoveNothing(j) == "idle"
MutRouteOnly(j) == "unroute"
AfterRemoveLoad(j) == IF j.id \in Waiting(j.session) THEN "delete" ELSE "idle"

RemoveLoad(r) ==
    /\ job[r].pc = "remove"
    /\ job' = Enter(r, AfterRemoveLoad(job[r]))
    /\ UNCHANGED <<nextId, reader, maps, sessionVars, aged, history>>

RemoveDelete(r) ==
    /\ job[r].pc = "delete"
    /\ pending' = Without(job[r].session, job[r].id)
    /\ job' = Step(r, "unroute")
    /\ UNCHANGED <<nextId, reader, route, last, sessionVars, aged, history>>

RemoveUnroute(r) ==
    /\ job[r].pc = "unroute"
    /\ route' = [route EXCEPT ![job[r].id] = None]
    /\ job' = Enter(r, "idle")
    /\ UNCHANGED <<nextId, reader, pending, last, sessionVars, aged, history>>

-----------------------------------------------------------------------------
(* Time and the caches. *)

\* PendingRequestTtl passes: 74 hours, during which no call is in progress all the
\* time, and which every route's TTL of 30 minutes has passed too.
TtlPasses ==
    /\ \A s \in Sessions : reader[s].pc \in {"read", "exited"}
    /\ \A r \in Reporters : job[r].pc = "idle"
    /\ aged' = UNION {Waiting(s) : s \in Sessions}
    /\ route' = [id \in Ids |-> None]
    /\ UNCHANGED <<nextId, reader, pending, last, sessionVars, job, history>>

MutExpiresFinal(rd) == rd = 1
\* The cleaner takes an entry for one that asks for a receipt by its whole octet.
Expires(rd) == rd > 0

\* cleanupPendingRequests: the entry goes, its route stays.
ExpirePending(s, id) ==
    /\ Bound(s)
    /\ id \in Waiting(s) \cap aged
    /\ Expires(pending[s][id])
    /\ pending' = Without(s, id)
    /\ UNCHANGED <<nextId, reader, route, last, sessionVars, job, aged, history>>

\* The route's write TTL (30 minutes) passes, or the cache is over its size.
LoseRoute(id) ==
    /\ route[id] # None
    /\ route' = [route EXCEPT ![id] = None]
    /\ UNCHANGED <<nextId, reader, pending, last, sessionVars, job, aged, history>>

\* GetSessionByMessageID drops a route to a session the cache no longer holds.
LookupStaleRoute(id) ==
    /\ route[id] # None
    /\ route[id] \notin cached
    /\ route' = [route EXCEPT ![id] = None]
    /\ UNCHANGED <<nextId, reader, pending, last, sessionVars, job, aged, history>>

-----------------------------------------------------------------------------
(* The end of a session. *)

\* DeleteSession, expiry or eviction; the deletion callback calls Stop.
EvictSession(s) ==
    /\ s \in cached
    /\ cached' = cached \ {s}
    /\ UNCHANGED <<nextId, reader, maps, stop, toVisit, visiting, job, aged, history>>

\* Stop cancels the context first; it is called by the reader on EOF as well.
StopCancels(s) ==
    /\ stop[s] = "no"
    /\ stop' = [stop EXCEPT ![s] = "cancelled"]
    /\ UNCHANGED <<nextId, reader, maps, cached, toVisit, visiting, job, aged, history>>

\* Bound becomes false and the Range over PendingRequests begins.
StopUnbinds(s) ==
    /\ stop[s] = "cancelled"
    /\ stop' = [stop EXCEPT ![s] = "ranging"]
    /\ toVisit' = [toVisit EXCEPT ![s] = Waiting(s)]
    /\ UNCHANGED <<nextId, reader, maps, cached, visiting, job, aged, history>>

\* The Range drops the route of an entry, then the entry.  An entry stored
\* meanwhile may be visited or missed.
StopUnroutes(s, id) ==
    /\ stop[s] = "ranging"
    /\ visiting[s] = None
    /\ id \in Waiting(s)
    /\ route' = [route EXCEPT ![id] = None]
    /\ visiting' = [visiting EXCEPT ![s] = id]
    /\ UNCHANGED <<nextId, reader, pending, last, cached, stop, toVisit, job, aged,
                   history>>

StopDeletes(s) ==
    /\ visiting[s] # None
    /\ pending' = Without(s, visiting[s])
    /\ visiting' = [visiting EXCEPT ![s] = None]
    /\ UNCHANGED <<nextId, reader, route, last, cached, stop, toVisit, job, aged,
                   history>>

StopEnds(s) ==
    /\ stop[s] = "ranging"
    /\ visiting[s] = None
    /\ toVisit[s] \cap Waiting(s) = {}
    /\ stop' = [stop EXCEPT ![s] = "done"]
    /\ toVisit' = [toVisit EXCEPT ![s] = {}]
    /\ UNCHANGED <<nextId, reader, maps, cached, visiting, job, aged, history>>

-----------------------------------------------------------------------------

Init ==
    /\ nextId = 1
    /\ reader = [s \in Sessions |-> NoSubmit]
    /\ pending = [s \in Sessions |-> [i \in {} |-> 0]]
    /\ route = [id \in Ids |-> None]
    /\ last = [s \in Sessions |-> [k \in SubmitKeys |-> None]]
    /\ cached = Sessions
    /\ stop = [s \in Sessions |-> "no"]
    /\ toVisit = [s \in Sessions |-> {}]
    /\ visiting = [s \in Sessions |-> None]
    /\ job = [r \in Reporters |-> NoJob]
    /\ aged = {}
    /\ submits = [id \in Ids |-> [session |-> None, rd |-> 0, wanted |-> FALSE,
                                  key |-> None, ok |-> FALSE]]
    /\ known = {}
    /\ replaced = {}
    /\ receipts = {}

HandleSubmit(s) ==
    \/ ReplaceLoad(s) \/ ReplaceDelete(s) \/ ReplaceUnroute(s) \/ ReplaceForget(s)
    \/ EnterHandler(s)
    \/ \E ok \in BOOLEAN : LeaveHandler(s, ok)
    \/ StorePending(s) \/ RegisterRoute(s) \/ FinishSubmit(s)

Report(r) == \/ LoadPending(r)
             \/ CheckSend(r) \/ SendReceipt(r) \/ SendFails(r)
             \/ RemoveLoad(r) \/ RemoveDelete(r) \/ RemoveUnroute(r)

StopSession(s) == \/ StopUnbinds(s)
                  \/ \E id \in Ids : StopUnroutes(s, id)
                  \/ StopDeletes(s)
                  \/ StopEnds(s)

Next ==
    \/ \E s \in Sessions :
          \/ \E rd \in Octets, wanted \in BOOLEAN, k \in SubmitKeys, replace \in BOOLEAN :
                Submit(s, rd, wanted, k, replace)
          \/ SubmitHeld(s)
          \/ HandleSubmit(s)
          \/ ReaderExits(s)
          \/ EvictSession(s)
          \/ StopCancels(s)
          \/ StopSession(s)
          \/ \E id \in Ids : ExpirePending(s, id)
    \/ \E r \in Reporters :
          \/ \E id \in Ids, success \in BOOLEAN : BeginReport(r, id, success)
          \/ Report(r)
    \/ TtlPasses
    \/ \E id \in Ids : LoseRoute(id) \/ LookupStaleRoute(id)

\* Calls run to their end and the application's handler returns; time passes, and
\* since no call lasts as long as the TTL, it passes between calls; the cleaner's
\* ticker fires; a session the cache has dropped is stopped, and its Stop goes on.
Fairness ==
    /\ \A s \in Sessions : WF_vars(HandleSubmit(s)) /\ WF_vars(StopSession(s))
    /\ \A s \in Sessions : WF_vars(s \notin cached /\ StopCancels(s))
    /\ \A r \in Reporters : WF_vars(Report(r))
    /\ SF_vars(TtlPasses)
    /\ \A s \in Sessions : \A id \in Ids : WF_vars(ExpirePending(s, id))

Spec == Init /\ [][Next]_vars /\ Fairness

-----------------------------------------------------------------------------
(* Properties. *)

Work == [pc : {"read", "load", "delete", "unroute", "forget", "handle", "handling",
               "store", "register", "finish", "exited"},
         id : 0 .. MaxId, rd : Octets \union {0}, wanted : BOOLEAN,
         key : SubmitKeys \union {None}, replace : BOOLEAN, ok : BOOLEAN]
Job == [pc : {"idle", "load", "send", "queue", "remove", "delete", "unroute"},
        id : 0 .. MaxId, session : Sessions \union {None},
        success : BOOLEAN, late : BOOLEAN]
Submitted == [session : Sessions \union {None}, rd : Octets \union {0}, wanted : BOOLEAN,
              key : SubmitKeys \union {None}, ok : BOOLEAN]
Entries == UNION {[S -> Octets] : S \in SUBSET Ids}

\* Types.
TypeOK ==
    /\ nextId \in 1 .. MaxId + 1
    /\ reader \in [Sessions -> Work]
    /\ pending \in [Sessions -> Entries]
    /\ route \in [Ids -> Sessions \union {None}]
    /\ last \in [Sessions -> [SubmitKeys -> Ids \union {None}]]
    /\ cached \subseteq Sessions
    /\ stop \in [Sessions -> {"no", "cancelled", "ranging", "done"}]
    /\ toVisit \in [Sessions -> SUBSET Ids]
    /\ visiting \in [Sessions -> Ids \union {None}]
    /\ job \in [Reporters -> Job]
    /\ aged \subseteq Ids
    /\ submits \in [Ids -> Submitted]
    /\ known \subseteq Ids /\ replaced \subseteq Ids
    /\ receipts \subseteq [id : Ids, session : Sessions, success : BOOLEAN,
                           late : BOOLEAN, nth : Nat]

\* A receipt goes to the session that submitted the message, which asked for one,
\* and for an outcome its registered_delivery asks about (README:199-204, 214):
\* although the octet is read when the report begins and the entry can be
\* removed, expired or re-read by others before the receipt is queued.
ReceiptsObeyPolicy ==
    \A x \in receipts :
        /\ x.session = Owner(x.id)
        /\ submits[x.id].wanted
        /\ submits[x.id].rd % 4 \in (IF x.success THEN {1, 3} ELSE {1, 2})

\* A report begun after its message was superseded sends nothing (README:206).
NoReceiptAfterReplace == \A x \in receipts : ~x.late

\* What replace_if_present will supersede is the newest accepted submit under its
\* key, or nothing: never a rejected one, an older one or one of another key.
LastIsNewestAccepted ==
    \A s \in Sessions : \A k \in SubmitKeys : last[s][k] # None =>
        LET id == last[s][k]
            Same == {i \in Ids : submits[i].session = s /\ submits[i].key = k}
        IN  /\ id \in Same /\ submits[id].ok
            /\ \A i \in Same : i > id => ~submits[i].ok \/ reader[s].id = i

\* At most one receipt is queued for a message, whatever the number of reports.
AtMostOneReceipt == \A x \in receipts : x.nth = 1

\* While its entry is pending and the session lives, a message's route is taken
\* away by the route cache's own TTL and size only, not by bookkeeping.
RoutesOutliveEntries ==
    [][\A s \in Sessions : \A id \in Waiting(s) :
          route[id] = s /\ route'[id] # s /\ stop[s] = "no" /\ s \in cached
              => LoseRoute(id) \/ TtlPasses \/ id \notin DOMAIN pending'[s]]_vars

\* After a session's Stop and its reader have ended, at most one entry is left
\* in its map: that of the submit the reader was handling meanwhile.  (Entries keyed
\* by sequence number are SessionLink's.)
StopLeavesAtMostOne ==
    \A s \in Sessions : stop[s] = "done" /\ reader[s].pc = "exited" =>
        Cardinality(Waiting(s)) <= 1

\* The entries of a live session are removed some day: by their reports, by a submit
\* that supersedes them, or by the TTL ("Pending Requests by DLR have ttl", README:217);
\* with submits few, as MaxId has it, there comes a time when none is left.  The
\* cleaner exempts octet 0, which only a segmented submit stores that has its last
\* part not ask for what an earlier one asked for.
PendingDrains ==
    \A s \in Sessions :
        (stop[s] = "no" /\ \E id \in Waiting(s) : submits[id].rd > 0)
            ~> (stop[s] # "no" \/ \A id \in Waiting(s) : submits[id].rd = 0)

-----------------------------------------------------------------------------
(* The inductive invariant behind the properties of receipts.              *)

\* What a reader is working on is a submit of its own session, the newest one;
\* the octet, the wish for a receipt and the status it carries are on record.
ReaderSound ==
    \A s \in Sessions : LET w == reader[s] IN
        IF w.pc \in {"read", "exited"} THEN w.id = 0
        ELSE /\ w.id \in 1 .. nextId - 1
             /\ Owner(w.id) = s
             /\ w.rd \in Octets
             /\ w.rd = submits[w.id].rd /\ w.wanted = submits[w.id].wanted
             /\ w.key = submits[w.id].key /\ w.key \in SubmitKeys
             /\ w.pc \notin {"store", "register", "finish"} => ~submits[w.id].ok
             /\ w.pc \in {"store", "register", "finish"} => w.ok = submits[w.id].ok
             /\ w.pc \in {"store", "register"} => w.wanted
             /\ \A i \in Ids : Owner(i) = s => i <= w.id

\* Ids not generated yet have no submit.
FutureUnused == \A id \in Ids : id >= nextId => Owner(id) = None

\* An entry is one of its session's submits, wants a receipt and holds its octet.
EntriesSound ==
    \A s \in Sessions : \A id \in Waiting(s) :
        Owner(id) = s /\ submits[id].wanted /\ pending[s][id] = submits[id].rd

\* While a submit supersedes another, the old one is on record, and is out of
\* PendingRequests by the time its route is dropped.
SupersedingSound ==
    \A s \in Sessions :
        /\ reader[s].pc \in {"load", "delete", "unroute", "forget"} => Old(s) # None
        /\ reader[s].pc \in {"unroute", "forget"} => Old(s) \notin Waiting(s)

\* A superseded id is a generated one that no reader is working on and no map holds.
ReplacedGone ==
    \A id \in replaced :
        /\ id < nextId
        /\ \A s \in Sessions : reader[s].id # id /\ id \notin Waiting(s)

\* A report in progress is for the session of its message; one that has got past
\* the policy was asked for, and was begun before its message was superseded.
ReportsSound ==
    \A r \in Reporters : LET j == job[r] IN j.pc # "idle" =>
        /\ j.id \in known
        /\ j.session = Owner(j.id)
        /\ j.late => j.id \in replaced
        /\ j.pc \in {"send", "queue"} =>
               /\ ~j.late
               /\ submits[j.id].wanted
               /\ ShouldSendDeliveryReceipt(submits[j.id].rd, j.success)

KnownGenerated == \A id \in known : id < nextId /\ Owner(id) \in Sessions

IInv ==
    /\ TypeOK
    /\ ReaderSound
    /\ FutureUnused
    /\ EntriesSound
    /\ SupersedingSound
    /\ ReplacedGone
    /\ KnownGenerated
    /\ ReportsSound
    /\ LastIsNewestAccepted
    /\ ReceiptsObeyPolicy
    /\ NoReceiptAfterReplace
    /\ IsFiniteSet(receipts)

=============================================================================
