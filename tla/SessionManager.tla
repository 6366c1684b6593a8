--------------------------- MODULE SessionManager ---------------------------
(***************************************************************************)
(* Which sessions the server holds on to, and for how long: the            *)
(* SessController and its SessionCache (session_manager.go,                *)
(* session_cache.go), with what they meet of a session (session.go).       *)
(*                                                                         *)
(* A connection is put into the cache, its id into sessionIDs, and only    *)
(* then its reader starts.  The cache drops an entry that nobody has       *)
(* looked up for CacheTtl or that is one too many, and its deletion        *)
(* callback stops the session.  One goroutine sweeps over sessionIDs on a  *)
(* ticker: it looks every session up, then sends those bound and inactive  *)
(* an enquire_link, up to MaxEnquireLinkRetry times, and then drops them.  *)
(* Readers meanwhile process PDUs, answers to enquire_link among them, and *)
(* note the time of the last one.                                          *)
(*                                                                         *)
(* Time is counted in periods of the sweep's ticker.                       *)
(***************************************************************************)
EXTENDS Integers, FiniteSets

CONSTANTS
    Sessions,             \* connections accepted in a behaviour, one session each
    Cap,                  \* SessionCache.Cap
    CacheTtl,             \* 5 * SessionCache.InactiveTimeout, in ticks
    InactivityTimeout,    \* Config.InactivityTimeout, in ticks
    QueueTimeout,         \* Config.Timeout of enqueuePDU, in ticks
    MaxEnquireLinkRetry,
    Mute,                 \* bound of the model: sessions whose client connects and sends nothing
    None                  \* no session

ASSUME LimitsAssumption ==
    /\ Cap \in Nat \ {0} /\ CacheTtl \in Nat \ {0} /\ InactivityTimeout \in Nat \ {0}
    /\ QueueTimeout \in Nat /\ MaxEnquireLinkRetry \in Nat
ASSUME MuteAssumption == Mute \subseteq Sessions
ASSUME NoneAssumption == None \notin Sessions

VARIABLES
    cached,      \* SessionCache: the sessions in it
    age,         \* ticks since the cache was last asked for a session, 0 when it is not in it
    sessionIDs,  \* the manager's own index
    reader,      \* "none", "set" (cached, not started), "head", "reading", "touching", "exited"
    stop,        \* Session.Stop: "no", "cancelled", "done"
    bound,       \* Session.Bound
    idle,        \* ticks since lastActivityNanos, counted up to InactivityTimeout
    retry,       \* enquireRetryCount
    sweeper,     \* checkInactiveSessions: "wait", "collect", "check", "enquire", "blocked", "count", "drop"
    due,         \* a tick is buffered in the ticker's channel
    toCollect,   \* ids the sweep's Range has still to visit
    toCheck,     \* bound sessions the sweep has still to judge
    old,         \* sessions inactive at the sweep's "now", not heard of since, not judged yet
    cur,         \* the session being judged
    blocked,     \* ticks the sweep has waited for room in cur's queue
    silent,      \* history: enquire_links queued for a session since its last answer,
                 \* counted up to MaxEnquireLinkRetry
    stalled      \* history: sessions whose full queue the sweep under way has waited for

cacheVars   == <<cached, age>>
sessionVars == <<reader, stop, bound, idle>>
sweepVars   == <<due, toCollect, toCheck, old, cur, blocked, stalled>>
vars == <<cacheVars, sessionIDs, sessionVars, retry, sweeper, sweepVars, silent>>

-----------------------------------------------------------------------------
(* The session cache. *)

\* An expired entry is not returned, even if it has not been removed yet.
Present(s) == s \in cached /\ age[s] < CacheTtl

MutTouched(s) == age
\* Access-based expiry: a lookup that finds an entry renews it.
Touched(s) == IF Present(s) THEN [age EXCEPT ![s] = 0] ELSE age

Leaves(s) == cached' = cached \ {s} /\ age' = [age EXCEPT ![s] = 0]

\* GetSession and SendDeliverSM of the application.
AppGets(s) ==
    /\ Present(s)
    /\ age' = Touched(s)
    /\ UNCHANGED <<cached, sessionIDs, sessionVars, retry, sweeper, sweepVars, silent>>

Expire(s) ==
    /\ s \in cached
    /\ age[s] = CacheTtl
    /\ Leaves(s)
    /\ UNCHANGED <<sessionIDs, sessionVars, retry, sweeper, sweepVars, silent>>

\* Over its capacity the cache gives up an entry of its choice.
Evict(s) ==
    /\ s \in cached
    /\ Cardinality(cached) > Cap
    /\ Leaves(s)
    /\ UNCHANGED <<sessionIDs, sessionVars, retry, sweeper, sweepVars, silent>>

\* OnDeletion: an entry that has left the cache has its session stopped.
CallbackStops(s) ==
    /\ reader[s] # "none"
    /\ s \notin cached
    /\ stop[s] = "no"
    /\ stop' = [stop EXCEPT ![s] = "cancelled"]
    /\ UNCHANGED <<cacheVars, sessionIDs, reader, bound, idle, retry, sweeper, sweepVars,
                   silent>>

-----------------------------------------------------------------------------
(* A session. *)

\* handleConnection and InitializeSession: into the cache ...
Connect(s) ==
    /\ reader[s] = "none"
    /\ cached' = cached \union {s}
    /\ age' = [age EXCEPT ![s] = 0]
    /\ reader' = [reader EXCEPT ![s] = "set"]
    /\ UNCHANGED <<sessionIDs, stop, bound, idle, retry, sweeper, sweepVars, silent>>

\* ... then into sessionIDs, then the reader starts.
StartSession(s) ==
    /\ reader[s] = "set"
    /\ sessionIDs' = sessionIDs \union {s}
    /\ reader' = [reader EXCEPT ![s] = "head"]
    /\ UNCHANGED <<cacheVars, stop, bound, idle, retry, sweeper, sweepVars, silent>>

CheckContext(s) ==
    /\ reader[s] = "head"
    /\ reader' = [reader EXCEPT ![s] = IF stop[s] = "no" THEN "reading" ELSE "exited"]
    /\ UNCHANGED <<cacheVars, sessionIDs, stop, bound, idle, retry, sweeper, sweepVars,
                   silent>>

ReadTimesOut(s) ==
    /\ reader[s] = "reading"
    /\ reader' = [reader EXCEPT ![s] = "head"]
    /\ UNCHANGED <<cacheVars, sessionIDs, stop, bound, idle, retry, sweeper, sweepVars,
                   silent>>

\* EOF or a read error: the reader calls Stop itself.
ReadFails(s) ==
    /\ reader[s] = "reading"
    /\ reader' = [reader EXCEPT ![s] = "exited"]
    /\ stop' = [stop EXCEPT ![s] = IF @ = "no" THEN "cancelled" ELSE @]
    /\ UNCHANGED <<cacheVars, sessionIDs, bound, idle, retry, sweeper, sweepVars, silent>>

\* A PDU that changes nothing the manager looks at, apart from having been received.
ReadPDU(s) ==
    /\ reader[s] = "reading"
    /\ s \notin Mute
    /\ reader' = [reader EXCEPT ![s] = "touching"]
    /\ UNCHANGED <<cacheVars, sessionIDs, stop, bound, idle, retry, sweeper, sweepVars,
                   silent>>

\* A bind the handler accepts.
ReadBind(s) ==
    /\ reader[s] = "reading"
    /\ s \notin Mute
    /\ ~bound[s]
    /\ bound' = [bound EXCEPT ![s] = TRUE]
    /\ reader' = [reader EXCEPT ![s] = "touching"]
    /\ UNCHANGED <<cacheVars, sessionIDs, stop, idle, retry, sweeper, sweepVars, silent>>

\* An unbind the handler accepts, which clears Bound: the session stops.
ReadUnbind(s) ==
    /\ reader[s] = "reading"
    /\ s \notin Mute
    /\ bound' = [bound EXCEPT ![s] = FALSE]
    /\ stop' = [stop EXCEPT ![s] = IF @ = "no" THEN "cancelled" ELSE @]
    /\ reader' = [reader EXCEPT ![s] = "touching"]
    /\ UNCHANGED <<cacheVars, sessionIDs, idle, retry, sweeper, sweepVars, silent>>

MutReset(s) == retry
Reset(s) == [retry EXCEPT ![s] = 0]

\* An enquire_link_resp.
ReadAnswer(s) ==
    /\ reader[s] = "reading"
    /\ s \notin Mute
    /\ retry' = Reset(s)
    /\ silent' = [silent EXCEPT ![s] = 0]
    /\ reader' = [reader EXCEPT ![s] = "touching"]
    /\ UNCHANGED <<cacheVars, sessionIDs, stop, bound, idle, sweeper, sweepVars>>

\* updateLastActivity, after the PDU has been processed.
Touch(s) ==
    /\ reader[s] = "touching"
    /\ idle' = [idle EXCEPT ![s] = 0]
    /\ old' = old \ {s}
    /\ reader' = [reader EXCEPT ![s] = "head"]
    /\ UNCHANGED <<cacheVars, sessionIDs, stop, bound, retry, sweeper, due, toCollect,
                   toCheck, cur, blocked, stalled, silent>>

\* The end of Session.Stop, whoever called it.
StopEnds(s) ==
    /\ stop[s] = "cancelled"
    /\ stop' = [stop EXCEPT ![s] = "done"]
    /\ bound' = [bound EXCEPT ![s] = FALSE]
    /\ UNCHANGED <<cacheVars, sessionIDs, reader, idle, retry, sweeper, sweepVars, silent>>

-----------------------------------------------------------------------------
(* Time. *)

\* A period passes.  A sweep begins and ends within one, except for the time it
\* waits for room in a session's queue; a new session is started within one.
Tick ==
    /\ \A s \in Sessions : reader[s] # "set"
    /\ \/ sweeper = "wait" /\ ~due
       \/ sweeper = "blocked" /\ blocked < QueueTimeout
    /\ idle' = [s \in Sessions |-> IF reader[s] # "none" /\ idle[s] < InactivityTimeout
                                     THEN idle[s] + 1 ELSE idle[s]]
    /\ age' = [s \in Sessions |-> IF s \in cached /\ age[s] < CacheTtl
                                    THEN age[s] + 1 ELSE age[s]]
    /\ due' = TRUE
    /\ blocked' = IF sweeper = "blocked" THEN blocked + 1 ELSE blocked
    /\ UNCHANGED <<cached, sessionIDs, reader, stop, bound, retry, sweeper, toCollect,
                   toCheck, old, cur, stalled, silent>>

-----------------------------------------------------------------------------
(* processInactiveSessions and checkSessionInactivity. *)

BeginSweep ==
    /\ sweeper = "wait"
    /\ due
    /\ due' = FALSE
    /\ old' = {s \in Sessions : idle[s] = InactivityTimeout}
    /\ toCollect' = sessionIDs
    /\ sweeper' = "collect"
    /\ UNCHANGED <<cacheVars, sessionIDs, sessionVars, retry, toCheck, cur, blocked, stalled,
                   silent>>

\* The Range looks every session up in the cache, which renews its entry.
Collect(s) ==
    /\ sweeper = "collect"
    /\ s \in toCollect
    /\ toCollect' = toCollect \ {s}
    /\ toCheck' = IF Present(s) /\ bound[s] THEN toCheck \union {s} ELSE toCheck
    /\ age' = Touched(s)
    /\ UNCHANGED <<cached, sessionIDs, sessionVars, retry, sweeper, due, old, cur, blocked,
                   stalled, silent>>

EndCollect ==
    /\ sweeper = "collect"
    /\ toCollect = {}
    /\ sweeper' = "check"
    /\ UNCHANGED <<cacheVars, sessionIDs, sessionVars, retry, sweepVars, silent>>

MutVerdict(s) == IF s \notin old THEN "check"
                 ELSE IF retry[s] > MaxEnquireLinkRetry THEN "drop"
                 ELSE "enquire"
Verdict(s) == IF s \notin old THEN "check"
              ELSE IF retry[s] >= MaxEnquireLinkRetry THEN "drop"
              ELSE "enquire"

Judge(s) ==
    /\ sweeper = "check"
    /\ s \in toCheck
    /\ toCheck' = toCheck \ {s}
    /\ cur' = s
    /\ old' = old \ {s}
    /\ sweeper' = Verdict(s)
    /\ UNCHANGED <<cacheVars, sessionIDs, sessionVars, retry, due, toCollect, blocked, stalled,
                   silent>>

\* sendEnquireLinkReq: a session stopped meanwhile refuses, a full queue is waited for.
RefuseEnquire ==
    /\ \/ sweeper = "enquire" /\ stop[cur] # "no"
       \/ sweeper = "blocked" /\ blocked = QueueTimeout
    /\ sweeper' = "drop"
    /\ blocked' = 0
    /\ UNCHANGED <<cacheVars, sessionIDs, sessionVars, retry, due, toCollect, toCheck, old,
                   cur, stalled, silent>>

FindQueueFull ==
    /\ sweeper = "enquire"
    /\ stop[cur] = "no"
    /\ sweeper' = "blocked"
    /\ stalled' = stalled \union {cur}
    /\ UNCHANGED <<cacheVars, sessionIDs, sessionVars, retry, due, toCollect, toCheck, old,
                   cur, blocked, silent>>

QueueEnquire ==
    /\ \/ sweeper = "enquire" /\ stop[cur] = "no"
       \/ sweeper = "blocked"
    /\ silent' = [silent EXCEPT ![cur] = IF @ = MaxEnquireLinkRetry THEN @ ELSE @ + 1]
    /\ sweeper' = "count"
    /\ blocked' = 0
    /\ UNCHANGED <<cacheVars, sessionIDs, sessionVars, retry, due, toCollect, toCheck, old,
                   cur, stalled>>

MutCounted == retry
Counted == [retry EXCEPT ![cur] = @ + 1]

\* incrementEnquireRetry, once the enquire_link is on the queue.
CountEnquire ==
    /\ sweeper = "count"
    /\ retry' = Counted
    /\ sweeper' = "check"
    /\ UNCHANGED <<cacheVars, sessionIDs, sessionVars, sweepVars, silent>>

\* DeleteSession.
Drop ==
    /\ sweeper = "drop"
    /\ Leaves(cur)
    /\ sessionIDs' = sessionIDs \ {cur}
    /\ sweeper' = "check"
    /\ UNCHANGED <<sessionVars, retry, sweepVars, silent>>

EndSweep ==
    /\ sweeper = "check"
    /\ toCheck = {}
    /\ sweeper' = "wait"
    /\ cur' = None
    /\ old' = {}
    /\ stalled' = {}
    /\ UNCHANGED <<cacheVars, sessionIDs, sessionVars, retry, due, toCollect, toCheck,
                   blocked, silent>>

-----------------------------------------------------------------------------

Init ==
    /\ cached = {}
    /\ age = [s \in Sessions |-> 0]
    /\ sessionIDs = {}
    /\ reader = [s \in Sessions |-> "none"]
    /\ stop = [s \in Sessions |-> "no"]
    /\ bound = [s \in Sessions |-> FALSE]
    /\ idle = [s \in Sessions |-> 0]
    /\ retry = [s \in Sessions |-> 0]
    /\ sweeper = "wait"
    /\ due = FALSE
    /\ toCollect = {} /\ toCheck = {} /\ old = {}
    /\ cur = None
    /\ blocked = 0
    /\ silent = [s \in Sessions |-> 0]
    /\ stalled = {}

Peer(s) == \/ Connect(s) \/ ReadTimesOut(s) \/ ReadFails(s) \/ ReadPDU(s)
           \/ ReadBind(s) \/ ReadUnbind(s) \/ ReadAnswer(s)

Sweep == \/ BeginSweep \/ EndCollect
         \/ \E s \in Sessions : Collect(s) \/ Judge(s)
         \/ RefuseEnquire \/ FindQueueFull \/ QueueEnquire
         \/ CountEnquire \/ Drop \/ EndSweep

Next == \/ \E s \in Sessions :
              \/ Peer(s) \/ StartSession(s) \/ CheckContext(s) \/ Touch(s) \/ StopEnds(s)
              \/ AppGets(s) \/ Expire(s) \/ Evict(s) \/ CallbackStops(s)
        \/ Tick
        \/ Sweep

\* Time passes; the sweep, whose every wait is bounded, goes on; the cache removes
\* what has expired and runs its callback; a session's start, the noting of activity
\* and Stop run to their end.  What the peer does, and whether, is its own affair.
Fairness ==
    /\ WF_vars(Tick)
    /\ WF_vars(Sweep)
    /\ \A s \in Sessions :
          /\ WF_vars(StartSession(s)) /\ WF_vars(Touch(s)) /\ WF_vars(StopEnds(s))
          /\ WF_vars(Expire(s)) /\ WF_vars(CallbackStops(s))

Spec == Init /\ [][Next]_vars /\ Fairness

-----------------------------------------------------------------------------
(* Properties. *)

\* Types; the retry counter never passes the limit.
TypeOK ==
    /\ cached \subseteq Sessions
    /\ age \in [Sessions -> 0 .. CacheTtl]
    /\ sessionIDs \subseteq Sessions
    /\ reader \in [Sessions -> {"none", "set", "head", "reading", "touching", "exited"}]
    /\ stop \in [Sessions -> {"no", "cancelled", "done"}]
    /\ bound \in [Sessions -> BOOLEAN]
    /\ idle \in [Sessions -> 0 .. InactivityTimeout]
    /\ retry \in [Sessions -> 0 .. MaxEnquireLinkRetry]
    /\ sweeper \in {"wait", "collect", "check", "enquire", "blocked", "count", "drop"}
    /\ due \in BOOLEAN
    /\ toCollect \subseteq Sessions /\ toCheck \subseteq Sessions /\ old \subseteq Sessions
    /\ cur \in Sessions \union {None}
    /\ sweeper \in {"enquire", "blocked", "count", "drop"} => cur \in Sessions
    /\ blocked \in 0 .. QueueTimeout
    /\ silent \in [Sessions -> 0 .. MaxEnquireLinkRetry]
    /\ stalled \subseteq Sessions

\* A session is given up for its retries only if it has left at least all but one
\* of MaxEnquireLinkRetry enquire_links unanswered: the one it may have answered
\* before it was counted (sendEnquireLinkReq queues, then counts) is all that the
\* race between sweep and reader can cost it.
DroppedOnlyIfSilent ==
    [][\A s \in Sessions : Judge(s) /\ sweeper' = "drop"
          => silent[s] >= MaxEnquireLinkRetry - 1]_vars

\* The sweep alone renews the entries nobody asks for, and a full queue holds it up:
\* an entry expires only in a sweep whose waits for full queues can add up to the
\* time to live.  One of them cannot, with the defaults; two can.
ExpiryTakesFullQueues ==
    [][\A s \in cached \intersect cached' :
          Present(s) /\ ~Present(s)' => QueueTimeout * Cardinality(stalled) >= CacheTtl]_vars

\* "Access-based expiration for inactive session cleanup" (README:160): a session
\* just heard from does not expire; while it is in the cache, a lookup finds it.
ActiveStaysPresent ==
    \A s \in cached : idle[s] < InactivityTimeout /\ stop[s] = "no" => Present(s)

\* A bound session that is inactive is heard of again or given up: the enquire_link
\* workflow comes to an end (README:148), although any PDU restarts its clock and an
\* answer its count.
InactiveIsResolved ==
    \A s \in Sessions :
        (bound[s] /\ stop[s] = "no" /\ idle[s] = InactivityTimeout)
            ~> (idle[s] < InactivityTimeout \/ ~bound[s] \/ stop[s] # "no")

\* "inactive session cleanup" (README:160): a session that has stopped leaves the cache.
StoppedLeavesCache ==
    \A s \in Sessions : (stop[s] = "done") ~> (s \notin cached)

=============================================================================
