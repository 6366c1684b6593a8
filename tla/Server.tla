------------------------------- MODULE Server -------------------------------
(***************************************************************************)
(* The life of the server: Start, the accept loop, the set-up of a         *)
(* connection, and Shutdown (server.go), with what they meet of the        *)
(* session manager (session_manager.go, session_cache.go) and of a session *)
(* (session.go), as the demonstration server runs them (cmd/server).       *)
(*                                                                         *)
(* Shutdown cancels the context, closes the listener, stops the sweep and  *)
(* waits for it, empties the session cache, drops the pointer to it and    *)
(* forgets the ids; then it waits for the accept loop.  Nothing waits for  *)
(* the goroutines that set connections up, nor for the sessions' readers:  *)
(* a connection accepted just before can be put into the cache at any      *)
(* point of this, and when the pointer is gone that ends the process.      *)
(*                                                                         *)
(* SessionManager says when a sweep drops a session and when the cache     *)
(* does; here either may happen to any session at any time.  SessionLink   *)
(* says what Stop does; here it is one step.                               *)
(***************************************************************************)
EXTENDS FiniteSets

CONSTANTS
    Connections,   \* clients that may connect, once each; e.g. {c1, c2}
    None           \* no session

ASSUME NoneAssumption == None \notin Connections

VARIABLES
    main,        \* how far the main goroutine is, in Start and in Shutdown
    errCh,       \* the channel Start returned (capacity 1) holds an error
    acceptor,    \* acceptLoop: "none", "check", "accept", "settings", "exited"
    crashed      \* a nil pointer was dereferenced: the process is gone

VARIABLES
    conn,        \* what has become of each client's connection
    stopped,     \* connections whose session's Stop has run
    cached,      \* SessionCache: sessions in it
    sessionIDs   \* SessController: its own index

VARIABLES
    sweeper,     \* checkInactiveSessions: "none", "wait", "range", "judge", "queue", "drop", "unindex", "exited"
    toVisit,     \* ids the sweep's Range has still to visit
    toCheck,     \* sessions the sweep has still to judge
    cur          \* the session it is judging

serverVars  == <<main, errCh, acceptor, crashed>>
sessionVars == <<conn, stopped, cached, sessionIDs>>
sweepVars   == <<sweeper, toVisit, toCheck, cur>>
vars == <<serverVars, sessionVars, sweepVars>>

-----------------------------------------------------------------------------
(* How far Shutdown is: each value of main names the last thing it did.    *)

Serving == {"new", "failed", "running"}
CtxDone == main \notin Serving
\* Start has made a listener and Shutdown has not closed it.
Listening == acceptor # "none" /\ main \in {"running", "cancelled"}
SweepTold == CtxDone /\ main \notin {"cancelled", "unlistened"}
CacheFlushed == main \in {"flushed", "closed", "forgotten", "returned"}
\* SessionCache.Close has set its pointer to nil.
CacheNil == main \in {"closed", "forgotten", "returned"}

MutOwnContextOnly(c) == c \in stopped
\* The context of a session is derived from the server's.
SessionDone(c) == CtxDone \/ c \in stopped

-----------------------------------------------------------------------------
(* main: Start, a signal or an error, Shutdown. *)

Start ==
    /\ main = "new"
    /\ main' = "running"
    /\ acceptor' = "check"
    /\ sweeper' = "wait"
    /\ UNCHANGED <<errCh, crashed, sessionVars, toVisit, toCheck, cur>>

\* net.Listen fails: the error is in the channel Start returns, nothing else runs.
StartFails ==
    /\ main = "new"
    /\ main' = "failed"
    /\ errCh' = TRUE
    /\ UNCHANGED <<acceptor, crashed, sessionVars, sweepVars>>

\* SIGINT or SIGTERM, or an error from the channel; Shutdown begins with s.cancel().
Signalled ==
    /\ main \in {"running", "failed"}
    /\ main' = "cancelled"
    /\ UNCHANGED <<errCh, acceptor, crashed, sessionVars, sweepVars>>

Failed ==
    /\ main \in {"running", "failed"}
    /\ errCh
    /\ errCh' = FALSE
    /\ main' = "cancelled"
    /\ UNCHANGED <<acceptor, crashed, sessionVars, sweepVars>>

\* Connections nobody has accepted yet are reset by the kernel.
CloseListener ==
    /\ main = "cancelled"
    /\ main' = "unlistened"
    /\ conn' = [c \in Connections |-> IF conn[c] = "backlog" THEN "reset" ELSE conn[c]]
    /\ UNCHANGED <<errCh, acceptor, crashed, stopped, cached, sessionIDs, sweepVars>>

TellSweep ==
    /\ main = "unlistened"
    /\ main' = "stopping"
    /\ UNCHANGED <<errCh, acceptor, crashed, sessionVars, sweepVars>>

MutSweepEnded == TRUE
\* inactivityCheckWg.Wait.
SweepEnded == sweeper \in {"none", "exited"}

\* InvalidateAll: the callbacks of the sessions removed are still to come.
FlushCache ==
    /\ main = "stopping"
    /\ SweepEnded
    /\ main' = "flushed"
    /\ cached' = {}
    /\ UNCHANGED <<errCh, acceptor, crashed, conn, stopped, sessionIDs, sweepVars>>

CloseCache ==
    /\ main = "flushed"
    /\ main' = "closed"
    /\ UNCHANGED <<errCh, acceptor, crashed, sessionVars, sweepVars>>

ForgetIDs ==
    /\ main = "closed"
    /\ main' = "forgotten"
    /\ sessionIDs' = {}
    /\ UNCHANGED <<errCh, acceptor, crashed, conn, stopped, cached, sweepVars>>

MutAcceptEnded == TRUE
\* shutdownWait.Wait.
AcceptEnded == acceptor \in {"none", "exited"}

ShutdownReturns ==
    /\ main = "forgotten"
    /\ AcceptEnded
    /\ main' = "returned"
    /\ UNCHANGED <<errCh, acceptor, crashed, sessionVars, sweepVars>>

-----------------------------------------------------------------------------
(* acceptLoop. *)

CheckContext ==
    /\ acceptor = "check"
    /\ acceptor' = IF CtxDone THEN "exited" ELSE "accept"
    /\ UNCHANGED <<main, errCh, crashed, sessionVars, sweepVars>>

MutForgetConnection == "check"
AfterAccept == "settings"

Accept(c) ==
    /\ acceptor = "accept"
    /\ Listening
    /\ conn[c] = "backlog"
    /\ acceptor' = AfterAccept
    /\ conn' = [conn EXCEPT ![c] = "accepted"]
    /\ UNCHANGED <<main, errCh, crashed, stopped, cached, sessionIDs, sweepVars>>

\* applyTCPSettings, then a goroutine of its own for the connection.
Handle(c) ==
    /\ acceptor = "settings"
    /\ conn[c] = "accepted"
    /\ acceptor' = "check"
    /\ conn' = [conn EXCEPT ![c] = "handling"]
    /\ UNCHANGED <<main, errCh, crashed, stopped, cached, sessionIDs, sweepVars>>

MutDropError == errCh
\* The error goes into the channel, or nowhere if that is full.
ErrorKept == TRUE

\* A passing error, or any call of Accept once the listener is closed.
AcceptFails ==
    /\ acceptor = "accept"
    /\ acceptor' = IF CtxDone THEN "exited" ELSE "check"
    /\ errCh' = IF CtxDone THEN errCh ELSE ErrorKept
    /\ UNCHANGED <<main, crashed, sessionVars, sweepVars>>

-----------------------------------------------------------------------------
(* A connection: the client, handleConnection, the session's reader. *)

Dial(c) ==
    /\ conn[c] = "away"
    /\ Listening
    /\ conn' = [conn EXCEPT ![c] = "backlog"]
    /\ UNCHANGED <<serverVars, stopped, cached, sessionIDs, sweepVars>>

\* A deadline cannot be set: the connection is closed, there is no session.
GiveUp(c) ==
    /\ conn[c] = "handling"
    /\ conn' = [conn EXCEPT ![c] = "reset"]
    /\ UNCHANGED <<serverVars, stopped, cached, sessionIDs, sweepVars>>

MakeSession(c) ==
    /\ conn[c] = "handling"
    /\ conn' = [conn EXCEPT ![c] = "made"]
    /\ UNCHANGED <<serverVars, stopped, cached, sessionIDs, sweepVars>>

\* InitializeSession: into the cache, if there still is one ...
CacheSession(c) ==
    /\ conn[c] = "made"
    /\ ~CacheNil
    /\ cached' = cached \union {c}
    /\ conn' = [conn EXCEPT ![c] = "cached"]
    /\ UNCHANGED <<serverVars, stopped, sessionIDs, sweepVars>>

CacheGone(c) ==
    /\ conn[c] = "made"
    /\ CacheNil
    /\ crashed' = TRUE
    /\ UNCHANGED <<main, errCh, acceptor, sessionVars, sweepVars>>

\* ... then into the index, then the reader starts.
IndexSession(c) ==
    /\ conn[c] = "cached"
    /\ sessionIDs' = sessionIDs \union {c}
    /\ conn' = [conn EXCEPT ![c] = "head"]
    /\ UNCHANGED <<serverVars, stopped, cached, sweepVars>>

\* The reader looks at the session's context once per PDU or read timeout.
CheckSession(c) ==
    /\ conn[c] = "head"
    /\ IF SessionDone(c)
       THEN conn' = [conn EXCEPT ![c] = "exited"] /\ stopped' = stopped \union {c}
       ELSE conn' = [conn EXCEPT ![c] = "reading"] /\ UNCHANGED stopped
    /\ UNCHANGED <<serverVars, cached, sessionIDs, sweepVars>>

\* A PDU, or the read deadline, which every round sets anew.
ReadEnds(c) ==
    /\ conn[c] = "reading"
    /\ conn' = [conn EXCEPT ![c] = "head"]
    /\ UNCHANGED <<serverVars, stopped, cached, sessionIDs, sweepVars>>

\* EOF, a read error, or a connection closed by Stop.
ReadFails(c) ==
    /\ conn[c] = "reading"
    /\ conn' = [conn EXCEPT ![c] = "exited"]
    /\ stopped' = stopped \union {c}
    /\ UNCHANGED <<serverVars, cached, sessionIDs, sweepVars>>

-----------------------------------------------------------------------------
(* The session cache's own goroutines, until Close stops them. *)

\* Expiry or eviction.
CacheRemoves(c) ==
    /\ c \in cached
    /\ ~CacheNil
    /\ cached' = cached \ {c}
    /\ UNCHANGED <<serverVars, conn, stopped, sessionIDs, sweepVars>>

\* The connections that InitializeSession has put into the cache.
InitializedSessions == {c \in Connections : conn[c] \in {"cached", "head", "reading", "exited"}}

MutByIndex(c) == c \in sessionIDs \ cached
\* OnDeletion, some time after the session has left the cache: it is handed the
\* session itself, whatever the index says of it.
OnDeletion(c) == c \notin cached

CallbackStops(c) ==
    /\ c \in InitializedSessions \ stopped
    /\ OnDeletion(c)
    /\ stopped' = stopped \union {c}
    /\ UNCHANGED <<serverVars, conn, cached, sessionIDs, sweepVars>>

-----------------------------------------------------------------------------
(* The sweep: checkInactiveSessions, processInactiveSessions. *)

\* A tick; the select may prefer it to a context that is done as well.
BeginSweep ==
    /\ sweeper = "wait"
    /\ sweeper' = "range"
    /\ toVisit' = sessionIDs
    /\ UNCHANGED <<serverVars, sessionVars, toCheck, cur>>

MutToldLate == CacheFlushed
ToldToEnd == CtxDone \/ SweepTold

SweepExits ==
    /\ sweeper = "wait"
    /\ ToldToEnd
    /\ sweeper' = "exited"
    /\ UNCHANGED <<serverVars, sessionVars, toVisit, toCheck, cur>>

\* The Range looks a session up in the cache, and picks it if it is bound.
Visit(c) ==
    /\ sweeper = "range"
    /\ c \in toVisit
    /\ toVisit' = toVisit \ {c}
    /\ \/ UNCHANGED toCheck
       \/ c \in cached /\ toCheck' = toCheck \union {c}
    /\ UNCHANGED <<serverVars, sessionVars, sweeper, cur>>

EndRange ==
    /\ sweeper = "range"
    /\ toVisit = {}
    /\ sweeper' = "judge"
    /\ UNCHANGED <<serverVars, sessionVars, toVisit, toCheck, cur>>

\* Heard of lately; or past its retries; or sent an enquire_link, which waits for
\* room in a full queue but is refused at once by a session whose context is done.
Judge(c) ==
    /\ sweeper = "judge"
    /\ c \in toCheck
    /\ toCheck' = toCheck \ {c}
    /\ cur' = c
    /\ sweeper' \in IF SessionDone(c) THEN {"judge", "drop"} ELSE {"judge", "queue", "drop"}
    /\ UNCHANGED <<serverVars, sessionVars, toVisit>>

\* Room in the queue, or Config.Timeout: the wait itself ignores the context.
QueueWaitEnds ==
    /\ sweeper = "queue"
    /\ sweeper' \in {"judge", "drop"}
    /\ UNCHANGED <<serverVars, sessionVars, toVisit, toCheck, cur>>

\* DeleteSession: the cache's entry first ...
MutKept == cached
Dropped == cached \ {cur}
Drop ==
    /\ sweeper = "drop"
    /\ cached' = Dropped
    /\ sweeper' = "unindex"
    /\ UNCHANGED <<serverVars, conn, stopped, sessionIDs, toVisit, toCheck, cur>>

\* ... then the index.
Unindex ==
    /\ sweeper = "unindex"
    /\ sessionIDs' = sessionIDs \ {cur}
    /\ sweeper' = "judge"
    /\ UNCHANGED <<serverVars, conn, stopped, cached, toVisit, toCheck, cur>>

EndSweep ==
    /\ sweeper = "judge"
    /\ toCheck = {}
    /\ sweeper' = "wait"
    /\ cur' = None
    /\ UNCHANGED <<serverVars, sessionVars, toVisit, toCheck>>

-----------------------------------------------------------------------------
Init ==
    /\ main = "new" /\ errCh = FALSE /\ acceptor = "none" /\ crashed = FALSE
    /\ conn = [c \in Connections |-> "away"]
    /\ stopped = {} /\ cached = {} /\ sessionIDs = {}
    /\ sweeper = "none" /\ toVisit = {} /\ toCheck = {} /\ cur = None

Shutdown ==
    ~crashed /\ (CloseListener \/ TellSweep \/ FlushCache \/ CloseCache \/ ForgetIDs \/ ShutdownReturns)

Main == ~crashed /\ (Start \/ StartFails \/ Signalled \/ Failed)

AcceptLoop ==
    /\ ~crashed
    /\ CheckContext \/ AcceptFails \/ \E c \in Connections : Accept(c) \/ Handle(c)

\* What the loop is bound to do: Accept waits for as long as nobody connects, and
\* only a closed listener makes it fail for certain.
AcceptGoesOn ==
    /\ ~crashed
    /\ \/ CheckContext
       \/ ~Listening /\ AcceptFails
       \/ \E c \in Connections : Accept(c) \/ Handle(c)

Client == ~crashed /\ \E c \in Connections : Dial(c)

HandleConnection(c) ==
    ~crashed /\ (GiveUp(c) \/ MakeSession(c) \/ CacheSession(c) \/ CacheGone(c) \/ IndexSession(c))

Reader(c) == ~crashed /\ (CheckSession(c) \/ ReadEnds(c) \/ ReadFails(c))

Cache == ~crashed /\ \E c \in Connections : CacheRemoves(c) \/ CallbackStops(c)

SweepRound ==
    /\ ~crashed
    /\ EndRange \/ QueueWaitEnds \/ Drop \/ Unindex \/ EndSweep \/ \E c \in Connections : Visit(c) \/ Judge(c)

SweepWaits == ~crashed /\ (BeginSweep \/ SweepExits)

\* The process has ended: by a crash, or because main returned.  Goroutines still
\* running then are taken to run on, as they do when main has more to do.
Finished ==
    /\ crashed \/ main = "returned"
    /\ UNCHANGED vars

Next ==
    \/ Main
    \/ Shutdown
    \/ AcceptLoop
    \/ Client
    \/ \E c \in Connections : HandleConnection(c) \/ Reader(c)
    \/ Cache
    \/ SweepRound
    \/ SweepWaits
    \/ Finished

(***************************************************************************)
(* The scheduler runs every goroutine that can go on.  A read ends by its  *)
(* deadline, a wait for room by Config.Timeout, Accept by a connection or  *)
(* the listener's end; main receives an error that waits.  A select that   *)
(* finds several channels ready picks one at random, so a sweep told to    *)
(* end in every wait ends in one of them.  The cache runs its callbacks    *)
(* until it is closed.  Nobody need dial, send a signal, or let the ticker *)
(* tick; Accept need not fail, nor the cache remove anything.              *)
(***************************************************************************)
Fairness ==
    /\ WF_vars(Shutdown)
    /\ WF_vars(~crashed /\ Failed)
    /\ WF_vars(AcceptGoesOn)
    /\ \A c \in Connections : WF_vars(HandleConnection(c)) /\ WF_vars(Reader(c))
    /\ WF_vars(SweepRound)
    /\ SF_vars(~crashed /\ SweepExits)
    /\ \A c \in Connections : WF_vars(~crashed /\ ~CacheNil /\ CallbackStops(c))

Spec == Init /\ [][Next]_vars /\ Fairness

-----------------------------------------------------------------------------
(* Properties. *)

\* The type of the state; and the accept loop holds at most one connection, between
\* Accept and the start of its goroutine, and loses none.
TypeOK ==
    /\ main \in Serving \union {"cancelled", "unlistened", "stopping", "flushed", "closed", "forgotten", "returned"}
    /\ errCh \in BOOLEAN
    /\ acceptor \in {"none", "check", "accept", "settings", "exited"}
    /\ crashed \in BOOLEAN
    /\ conn \in [Connections -> {"away", "backlog", "reset", "accepted", "handling", "made", "cached", "head",
                                 "reading", "exited"}]
    /\ stopped \subseteq Connections
    /\ cached \subseteq Connections
    /\ sessionIDs \subseteq Connections
    /\ sweeper \in {"none", "wait", "range", "judge", "queue", "drop", "unindex", "exited"}
    /\ toVisit \subseteq Connections
    /\ toCheck \subseteq Connections
    /\ cur \in Connections \union {None}
    /\ \A c, d \in Connections : conn[c] = "accepted" /\ conn[d] = "accepted" => c = d
    /\ acceptor = "settings" <=> \E c \in Connections : conn[c] = "accepted"

\* The sweep uses the cache (Get in the Range, Invalidate in DeleteSession)
\* through a pointer that Shutdown sets to nil, on another goroutine and without
\* a lock: a sweep under way must keep Shutdown from getting there.
SweepSeesCache == CacheNil => sweeper \notin {"range", "judge", "queue", "drop", "unindex"}

\* A session that is served and is in the cache is in the manager's index as
\* well, where alone the sweep looks: no live session escapes the inactivity
\* check until Shutdown forgets all ids.
ServedIsSwept ==
    main \notin {"forgotten", "returned"} =>
        \A c \in cached : conn[c] \in {"head", "reading", "exited"} => c \in sessionIDs

\* A session put into the cache when Shutdown has already emptied it will get no
\* callback from it: it must not read a single PDU.
LateServesNothing == CacheFlushed => \A c \in cached : conn[c] # "reading"

\* When Shutdown has returned, no client waits for the accept loop: neither in
\* the listener's backlog nor accepted and not yet handed to its goroutine.
NoneLeftWaiting == main = "returned" => \A c \in Connections : conn[c] \notin {"backlog", "accepted"}

\* Shutdown returns, whatever the sweep and the accept loop were doing, and
\* however many accept errors nobody received; or a late connection ends the process.
ShutdownReturned == CtxDone ~> (main = "returned" \/ crashed)

\* After Shutdown every connection ends: those set up meanwhile too.
EverySessionEnds ==
    CtxDone ~> (crashed \/ \A c \in Connections : conn[c] \in {"away", "reset", "exited"})

\* A client that reached the listener is handed to a goroutine of its own, or the
\* server shuts down: errors of Accept do not go on unnoticed.
EveryConnectionServed ==
    \A c \in Connections : conn[c] = "backlog" ~> (conn[c] # "backlog" \/ CtxDone)

\* "Automatic eviction callback for session stop/cleanup" (README:161): a session
\* that has left the cache is stopped.  It may leave by expiry, eviction, the sweep
\* or the flush of Shutdown, and between its two entries in cache and index, when
\* its reader has not started and the index does not know it; the sweep takes its id
\* out of the index right after; a cache closed before the callback leaves it to the
\* context.
RemovedIsStopped ==
    \A c \in Connections :
        (c \in InitializedSessions /\ c \notin cached) ~> (c \in stopped \/ crashed)

=============================================================================
