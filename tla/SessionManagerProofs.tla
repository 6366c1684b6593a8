------------------------ MODULE SessionManagerProofs ------------------------
(* Proofs about SessionManager, for any set of sessions and any limits. *)
EXTENDS SessionManager, FiniteSetTheorems, TLAPS

-----------------------------------------------------------------------------
(* The sweep and the retry counters. *)

\* Between the verdict and its consequence the sweep has found cur's counter below
\* the limit, and nobody else raises it.
Judged == sweeper \in {"enquire", "blocked", "count"} => retry[cur] < MaxEnquireLinkRetry

\* The counter runs ahead of the enquire_links unanswered by one at most, and not at
\* all while one that has been queued is still to be counted.
CountedOnce ==
    /\ \A s \in Sessions : retry[s] <= silent[s] + 1
    /\ sweeper = "count" => retry[cur] <= silent[cur]

IInv == TypeOK /\ Judged /\ CountedOnce

LEMMA Initially == Init => IInv
<1> SUFFICES ASSUME Init PROVE IInv
  OBVIOUS
<1>1. 0 \in 0 .. CacheTtl /\ 0 \in 0 .. InactivityTimeout /\ 0 \in 0 .. QueueTimeout
  BY LimitsAssumption
<1>2. 0 \in 0 .. MaxEnquireLinkRetry
  BY LimitsAssumption
<1>3. TypeOK
  BY <1>1, <1>2 DEF Init, TypeOK
<1>4. Judged /\ CountedOnce
  BY DEF Init, Judged, CountedOnce
<1> QED
  BY <1>3, <1>4 DEF IInv

\* What the peer, the reader and the application do with one session.
LEMMA SessionStep ==
    ASSUME IInv, NEW s \in Sessions,
           \/ Peer(s) \/ StartSession(s) \/ CheckContext(s) \/ Touch(s) \/ StopEnds(s)
           \/ AppGets(s) \/ Expire(s) \/ Evict(s) \/ CallbackStops(s)
    PROVE  IInv'
<1> USE LimitsAssumption DEF IInv, TypeOK, Judged, CountedOnce, cacheVars, sessionVars, sweepVars
<1>1. CASE Connect(s) \/ ReadTimesOut(s) \/ ReadFails(s)
  BY <1>1 DEF Connect, ReadTimesOut, ReadFails
<1>2. CASE ReadPDU(s) \/ ReadBind(s) \/ ReadUnbind(s)
  BY <1>2 DEF ReadPDU, ReadBind, ReadUnbind
<1>3. CASE ReadAnswer(s)
  BY <1>3 DEF ReadAnswer, Reset
<1>4. CASE StartSession(s) \/ CheckContext(s)
  BY <1>4 DEF StartSession, CheckContext
<1>7. CASE Touch(s)
  <2>1. 0 \in 0 .. InactivityTimeout
    OBVIOUS
  <2> QED
    BY <1>7, <2>1 DEF Touch
<1>8. CASE StopEnds(s)
  BY <1>8 DEF StopEnds
<1>5. CASE AppGets(s)
  BY <1>5 DEF AppGets, Touched
<1>6. CASE Expire(s) \/ Evict(s) \/ CallbackStops(s)
  <2>1. 0 \in 0 .. CacheTtl
    OBVIOUS
  <2> QED
    BY <1>6, <2>1 DEF Expire, Evict, Leaves, CallbackStops
<1> QED
  BY <1>1, <1>2, <1>3, <1>4, <1>5, <1>6, <1>7, <1>8 DEF Peer

LEMMA TickStep == IInv /\ Tick => IInv'
<1> SUFFICES ASSUME IInv, Tick PROVE IInv'
  OBVIOUS
<1>1. \A s \in Sessions : idle'[s] \in 0 .. InactivityTimeout /\ age'[s] \in 0 .. CacheTtl
  BY LimitsAssumption DEF IInv, TypeOK, Tick
<1>2. blocked' \in 0 .. QueueTimeout
  BY LimitsAssumption DEF IInv, TypeOK, Tick
<1>3. TypeOK'
  BY <1>1, <1>2 DEF IInv, TypeOK, Tick
<1> QED
  BY <1>3 DEF IInv, Judged, CountedOnce, Tick

LEMMA SweepStep == IInv /\ Sweep => IInv'
<1> SUFFICES ASSUME IInv, Sweep PROVE IInv'
  OBVIOUS
<1> USE LimitsAssumption DEF IInv, TypeOK, Judged, CountedOnce, cacheVars, sessionVars, sweepVars
<1>1. CASE BeginSweep \/ EndCollect \/ EndSweep
  BY <1>1 DEF BeginSweep, EndCollect, EndSweep
<1>2. ASSUME NEW s \in Sessions, Collect(s) PROVE IInv'
  BY <1>2 DEF Collect, Touched
<1>3. ASSUME NEW s \in Sessions, Judge(s) PROVE IInv'
  BY <1>3 DEF Judge, Verdict
<1>4. CASE RefuseEnquire \/ FindQueueFull \/ Drop
  BY <1>4 DEF RefuseEnquire, FindQueueFull, Drop, Leaves
<1>5. CASE QueueEnquire
  BY <1>5 DEF QueueEnquire
<1>6. CASE CountEnquire
  BY <1>6 DEF CountEnquire, Counted
<1> QED
  BY <1>1, <1>2, <1>3, <1>4, <1>5, <1>6 DEF Sweep

LEMMA Inductive == IInv /\ [Next]_vars => IInv'
<1>1. IInv /\ UNCHANGED vars => IInv'
  BY DEF IInv, TypeOK, Judged, CountedOnce, vars, cacheVars, sessionVars, sweepVars
<1> QED
  BY <1>1, SessionStep, TickStep, SweepStep DEF Next

LEMMA Invariance == Spec => []IInv
BY Initially, Inductive, PTL DEF Spec

\* The types, and with them that no session is asked more than MaxEnquireLinkRetry
\* times without an answer, whatever its reader does between verdict and count.
THEOREM TypeCorrect == Spec => []TypeOK
BY Invariance, PTL DEF IInv

\* The race of sweep and reader costs a session one enquire_link, never two: who is
\* given up has left MaxEnquireLinkRetry - 1 of them unanswered.
THEOREM DropNeedsSilence == Spec => DroppedOnlyIfSilent
<1> DEFINE A == \A s \in Sessions : Judge(s) /\ sweeper' = "drop"
                    => silent[s] >= MaxEnquireLinkRetry - 1
<1>1. IInv /\ [Next]_vars => [A]_vars
  BY LimitsAssumption DEF IInv, TypeOK, CountedOnce, Judge, Verdict
<1> QED
  BY <1>1, Invariance, PTL DEF Spec, DroppedOnlyIfSilent

-----------------------------------------------------------------------------
(* How long an entry goes without being looked up. *)

\* What is in the cache was put there by a connection, and is in the index from
\* before its reader starts.
Indexed ==
    \A c \in cached : /\ reader[c] # "none"
                      /\ reader[c] = "set" => age[c] = 0
                      /\ reader[c] # "set" => c \in sessionIDs

Judging == sweeper \notin {"wait", "collect"}

\* A sweep waits once for every session whose queue it finds full.
StalledOnce ==
    /\ IsFiniteSet(stalled)
    /\ ~Judging => stalled = {}
    /\ stalled \intersect toCheck = {}
    /\ sweeper = "enquire" => cur \notin stalled \union toCheck
    /\ sweeper = "blocked" => cur \in stalled \ toCheck
    /\ sweeper # "blocked" => blocked = 0

\* How long the sweep under way has waited at most.
Waited == IF sweeper = "blocked" THEN QueueTimeout * Cardinality(stalled \ {cur}) + blocked
                                 ELSE QueueTimeout * Cardinality(stalled)

\* An entry that is found is as old as the sweep that has looked it up has waited, or is
\* about to be looked up by one that is due.
Renewed ==
    \A c \in cached : Present(c) =>
        /\ ~due /\ sweeper # "collect" => age[c] = 0
        /\ sweeper = "collect" /\ c \notin toCollect => age[c] = 0
        /\ Judging => age[c] <= Waited

WInv == IInv /\ Indexed /\ StalledOnce /\ Renewed

\* What the sweep waits for is a number, and one full queue more than it has waited.
LEMMA Waits ==
    ASSUME IInv, StalledOnce
    PROVE  /\ QueueTimeout * Cardinality(stalled) \in Nat
           /\ Waited \in Nat
           /\ sweeper = "blocked" =>
                 /\ QueueTimeout * Cardinality(stalled \ {cur}) \in Nat
                 /\ QueueTimeout * Cardinality(stalled)
                       = QueueTimeout * Cardinality(stalled \ {cur}) + QueueTimeout
<1>1. \A q, n \in Nat : q * n \in Nat
  BY Z3
<1>2. \A q, n \in Nat : n > 0 => q * n = q * (n - 1) + q
  BY Z3
<1>3. Cardinality(stalled) \in Nat /\ QueueTimeout \in Nat /\ blocked \in Nat
  BY FS_CardinalityType, LimitsAssumption DEF StalledOnce, IInv, TypeOK
<1>4. ASSUME sweeper = "blocked"
      PROVE  /\ Cardinality(stalled \ {cur}) = Cardinality(stalled) - 1
             /\ Cardinality(stalled) > 0
             /\ Cardinality(stalled \ {cur}) \in Nat
  <2>1. cur \in stalled /\ IsFiniteSet(stalled)
    BY <1>4 DEF StalledOnce
  <2>2. /\ IsFiniteSet(stalled \ {cur})
        /\ Cardinality(stalled \ {cur}) = Cardinality(stalled) - 1
    BY <2>1, FS_RemoveElement
  <2>3. Cardinality(stalled \ {cur}) \in Nat
    BY <2>2, FS_CardinalityType
  <2> QED
    BY <1>3, <2>2, <2>3
<1>5. QueueTimeout * Cardinality(stalled) \in Nat
  BY <1>1, <1>3
<1>6. ASSUME sweeper = "blocked"
      PROVE  /\ QueueTimeout * Cardinality(stalled \ {cur}) \in Nat
             /\ QueueTimeout * Cardinality(stalled)
                   = QueueTimeout * Cardinality(stalled \ {cur}) + QueueTimeout
  BY <1>1, <1>2, <1>3, <1>4, <1>6
<1>7. Waited \in Nat
  BY <1>3, <1>5, <1>6 DEF Waited
<1> QED
  BY <1>5, <1>6, <1>7

LEMMA Ages == ASSUME IInv PROVE CacheTtl \in Nat /\ \A c \in cached : c \in Sessions /\ age[c] \in Nat
BY LimitsAssumption DEF IInv, TypeOK

\* Away from the sweep: entries come new, leave, or are renewed.
LEMMA WaitSessionStep ==
    ASSUME WInv, IInv', NEW s \in Sessions,
           \/ Peer(s) \/ StartSession(s) \/ CheckContext(s) \/ Touch(s) \/ StopEnds(s)
           \/ AppGets(s) \/ Expire(s) \/ Evict(s) \/ CallbackStops(s)
    PROVE  (Indexed /\ StalledOnce /\ Renewed)'
<1> USE DEF cacheVars, sessionVars, sweepVars
<1>1. UNCHANGED <<sweeper, due, toCollect, toCheck, cur, blocked, stalled>>
  BY DEF Peer, Connect, ReadTimesOut, ReadFails, ReadPDU, ReadBind, ReadUnbind, ReadAnswer,
         StartSession, CheckContext, Touch, StopEnds, AppGets, Expire, Evict, CallbackStops
<1>2. StalledOnce' /\ Judging' = Judging /\ Waited' = Waited /\ Waited \in Nat
  BY <1>1, Waits DEF StalledOnce, Judging, Waited, WInv
<1>3. \A c \in cached' : (c \in cached /\ age'[c] = age[c]) \/ age'[c] = 0
  <2> USE DEF WInv, IInv, TypeOK
  <2>1. CASE Connect(s)
    BY <2>1 DEF Connect
  <2>2. CASE AppGets(s)
    BY <2>2 DEF AppGets, Touched
  <2>3. CASE Expire(s) \/ Evict(s)
    BY <2>3 DEF Expire, Evict, Leaves
  <2>4. CASE UNCHANGED <<cached, age>>
    BY <2>4
  <2> QED
    BY <2>1, <2>2, <2>3, <2>4
       DEF Peer, ReadTimesOut, ReadFails, ReadPDU, ReadBind, ReadUnbind, ReadAnswer,
           StartSession, CheckContext, Touch, StopEnds, CallbackStops
<1>4. Indexed'
  <2> USE DEF WInv, IInv, TypeOK, Indexed
  <2>1. CASE Connect(s)
    BY <2>1 DEF Connect
  <2>2. CASE AppGets(s)
    BY <2>2 DEF AppGets, Touched
  <2>3. CASE StartSession(s)
    BY <2>3 DEF StartSession
  <2>4. CASE CheckContext(s) \/ Touch(s) \/ StopEnds(s)
    BY <2>4 DEF CheckContext, Touch, StopEnds
  <2>5. CASE ReadTimesOut(s) \/ ReadFails(s) \/ ReadPDU(s)
    BY <2>5 DEF ReadTimesOut, ReadFails, ReadPDU
  <2>6. CASE ReadBind(s) \/ ReadUnbind(s) \/ ReadAnswer(s)
    BY <2>6 DEF ReadBind, ReadUnbind, ReadAnswer
  <2>7. CASE Expire(s) \/ Evict(s) \/ CallbackStops(s)
    BY <2>7 DEF Expire, Evict, Leaves, CallbackStops
  <2> QED
    BY <2>1, <2>2, <2>3, <2>4, <2>5, <2>6, <2>7 DEF Peer
<1>5. Renewed'
  <2> SUFFICES ASSUME NEW c \in cached', Present(c)'
               PROVE  /\ ~due /\ sweeper # "collect" => age'[c] = 0
                      /\ sweeper = "collect" /\ c \notin toCollect => age'[c] = 0
                      /\ Judging => age'[c] <= Waited
    BY <1>1, <1>2 DEF Renewed
  <2>1. CASE age'[c] = 0
    BY <2>1, <1>2
  <2>2. CASE c \in cached /\ age'[c] = age[c]
    BY <2>2 DEF Present, WInv, Renewed
  <2> QED
    BY <1>3, <2>1, <2>2
<1> QED
  BY <1>2, <1>4, <1>5

\* A period passes before a sweep, which is due then, or within its waits.
LEMMA WaitTickStep ==
    ASSUME WInv, IInv', Tick
    PROVE  (Indexed /\ StalledOnce /\ Renewed)'
<1>1. /\ UNCHANGED <<cached, reader, sessionIDs, sweeper, toCollect, toCheck, cur, stalled>>
      /\ due' = TRUE
      /\ \A c \in cached : reader[c] # "set" /\ age'[c] \in Nat /\ age[c] \in Nat
                           /\ age'[c] >= age[c] /\ age'[c] <= age[c] + 1
  BY Ages DEF Tick, WInv
<1>2. Indexed'
  BY <1>1 DEF Indexed, WInv
<1>3. CASE sweeper = "wait" /\ ~due
  <2>1. blocked' = blocked
    BY <1>3 DEF Tick
  <2> QED
    BY <1>1, <1>2, <1>3, <2>1 DEF WInv, StalledOnce, Renewed, Judging
<1>4. CASE sweeper = "blocked" /\ blocked < QueueTimeout
  <2>1. blocked' = blocked + 1
    BY <1>4 DEF Tick
  <2>2. StalledOnce'
    BY <1>1, <1>4 DEF WInv, StalledOnce, Judging
  <2> DEFINE others == QueueTimeout * Cardinality(stalled \ {cur})
  <2>3. Waited = others + blocked /\ Waited' = others + blocked'
    BY <1>1, <1>4 DEF Waited
  <2>4. others \in Nat /\ blocked \in Nat
    BY <1>4, Waits, LimitsAssumption DEF WInv, IInv, TypeOK
  <2> HIDE DEF others
  <2>5. Waited' = Waited + 1 /\ Waited \in Nat
    BY <2>1, <2>3, <2>4
  <2>6. ASSUME NEW c \in cached, Present(c)' PROVE age'[c] <= Waited'
    <3>1. Present(c)
      BY <2>6, <1>1, Ages DEF Present, WInv
    <3>2. age[c] <= Waited
      BY <1>4, <3>1 DEF WInv, Renewed, Judging
    <3> QED
      BY <1>1, <2>5, <3>2
  <2> QED
    BY <1>1, <1>2, <1>4, <2>2, <2>6 DEF Renewed
<1> QED
  BY <1>3, <1>4 DEF Tick

\* A sweep looks everything up before it judges, and judges everybody once.
LEMMA WaitSweepStep ==
    ASSUME WInv, IInv', Sweep
    PROVE  (Indexed /\ StalledOnce /\ Renewed)'
<1> USE DEF cacheVars, sessionVars, sweepVars
<1>1. /\ QueueTimeout * Cardinality(stalled) \in Nat /\ Waited \in Nat
      /\ \A c \in cached : c \in Sessions /\ age[c] \in Nat
  BY Waits, Ages DEF WInv
<1>2. CASE BeginSweep
  <2>1. UNCHANGED <<cached, age, reader, sessionIDs, blocked, stalled, toCheck, cur>>
        /\ sweeper = "wait" /\ sweeper' = "collect" /\ toCollect' = sessionIDs
    BY <1>2 DEF BeginSweep
  <2>2. \A c \in cached : c \notin toCollect' => age[c] = 0
    BY <2>1 DEF WInv, Indexed
  <2> QED
    BY <2>1, <2>2 DEF WInv, StalledOnce, Indexed, Renewed, Judging
<1>3. ASSUME NEW s \in Sessions, Collect(s)
      PROVE  (Indexed /\ StalledOnce /\ Renewed)'
  <2>1. /\ UNCHANGED <<cached, reader, sessionIDs, blocked, sweeper, stalled, cur, due>>
        /\ sweeper = "collect" /\ toCollect' = toCollect \ {s}
    BY <1>3 DEF Collect
  <2>2. \A c \in cached : age'[c] = IF c = s /\ Present(s) THEN 0 ELSE age[c]
    BY <1>3 DEF Collect, Touched, WInv, IInv, TypeOK
  <2>3. StalledOnce'
    BY <2>1 DEF WInv, StalledOnce, Judging
  <2>4. Indexed'
    BY <2>1, <2>2 DEF WInv, Indexed
  <2>5. Renewed'
    <3> SUFFICES ASSUME NEW c \in cached, Present(c)', c \notin toCollect'
                 PROVE  age'[c] = 0
      BY <2>1 DEF Renewed, Judging
    <3>1. CASE c = s /\ Present(s)
      BY <2>2, <3>1
    <3>2. CASE ~(c = s /\ Present(s))
      <4>1. age'[c] = age[c]
        BY <2>2, <3>2
      <4>2. Present(c)
        BY <4>1 DEF Present
      <4>3. c \notin toCollect
        BY <2>1, <3>2, <4>2
      <4> QED
        BY <2>1, <4>1, <4>2, <4>3 DEF WInv, Renewed
    <3> QED
      BY <3>1, <3>2
  <2> QED
    BY <2>3, <2>4, <2>5
<1>4. CASE EndCollect
  <2>1. UNCHANGED <<cached, age, reader, sessionIDs, blocked, toCheck, due, stalled, cur>>
        /\ sweeper = "collect" /\ sweeper' = "check" /\ toCollect = {}
    BY <1>4 DEF EndCollect
  <2>2. \A c \in cached : Present(c) => age[c] = 0
    BY <2>1 DEF WInv, Renewed
  <2>3. StalledOnce' /\ Indexed'
    BY <2>1 DEF WInv, StalledOnce, Indexed, Judging
  <2>4. Waited' \in Nat
    BY <1>1, <2>1 DEF Waited
  <2> QED
    BY <2>1, <2>2, <2>3, <2>4 DEF Renewed, Present
<1>5. CASE EndSweep
  <2>1. UNCHANGED <<cached, age, reader, sessionIDs, blocked, toCheck, due>>
        /\ sweeper = "check" /\ sweeper' = "wait" /\ stalled' = {}
    BY <1>5 DEF EndSweep
  <2>2. StalledOnce' /\ Indexed'
    BY <2>1, FS_EmptySet DEF WInv, StalledOnce, Indexed, Judging
  <2> QED
    BY <2>1, <2>2 DEF WInv, Renewed, Present, Judging
<1>6. ASSUME Judging, Judging', Waited' >= Waited, Waited' \in Nat,
             UNCHANGED <<reader, due>>, cached' \subseteq cached,
             \A c \in cached' : age'[c] = age[c] /\ (c \in sessionIDs => c \in sessionIDs')
      PROVE  (Indexed /\ Renewed)'
  <2>1. Indexed'
    BY <1>6 DEF WInv, Indexed
  <2>2. \A c \in cached' : Present(c)' => Present(c)
    BY <1>6 DEF Present
  <2>3. \A c \in cached' : Present(c)' => age'[c] <= Waited'
    <3> SUFFICES ASSUME NEW c \in cached', Present(c)' PROVE age'[c] <= Waited'
      OBVIOUS
    <3>1. age[c] <= Waited /\ age[c] \in Nat /\ age'[c] = age[c]
      BY <1>1, <1>6, <2>2 DEF WInv, Renewed
    <3> QED
      BY <1>1, <1>6, <3>1
  <2>4. \A c \in cached' : Present(c)' => (~due => age'[c] = 0)
    BY <1>6, <2>2 DEF WInv, Renewed, Judging
  <2> QED
    BY <1>6, <2>1, <2>3, <2>4 DEF Renewed, Judging
<1>7. ASSUME NEW s \in Sessions, Judge(s)
      PROVE  (Indexed /\ StalledOnce /\ Renewed)'
  <2>1. /\ UNCHANGED <<cached, age, sessionIDs, reader, due, stalled, blocked>>
        /\ sweeper = "check" /\ s \in toCheck /\ toCheck' = toCheck \ {s} /\ cur' = s
        /\ sweeper' \in {"check", "enquire", "drop"}
    BY <1>7 DEF Judge, Verdict
  <2>2. StalledOnce'
    BY <2>1 DEF WInv, StalledOnce, Judging
  <2>3. Waited' = Waited
    BY <2>1 DEF Waited
  <2> QED
    BY <1>1, <1>6, <2>1, <2>2, <2>3 DEF Judging
<1>8. CASE FindQueueFull
  <2>1. /\ UNCHANGED <<cached, age, sessionIDs, reader, due, toCheck, blocked, cur>>
        /\ sweeper = "enquire" /\ sweeper' = "blocked" /\ stalled' = stalled \union {cur}
    BY <1>8 DEF FindQueueFull
  <2>2. cur \notin stalled /\ cur \notin toCheck /\ blocked = 0 /\ IsFiniteSet(stalled)
    BY <2>1 DEF WInv, StalledOnce
  <2>3. IsFiniteSet(stalled')
    BY <2>1, <2>2, FS_AddElement
  <2>4. StalledOnce'
    BY <2>1, <2>2, <2>3 DEF WInv, StalledOnce, Judging
  <2>5. stalled' \ {cur'} = stalled
    BY <2>1, <2>2
  <2> DEFINE queues == QueueTimeout * Cardinality(stalled)
  <2>6. Waited = queues /\ Waited' = queues + 0
    BY <2>1, <2>2, <2>5 DEF Waited
  <2>7. queues \in Nat
    BY <1>1
  <2> HIDE DEF queues
  <2>8. Waited' >= Waited /\ Waited' \in Nat
    BY <2>6, <2>7
  <2> QED
    BY <1>6, <2>1, <2>4, <2>8 DEF Judging
<1>9. CASE CountEnquire \/ Drop \/ RefuseEnquire \/ QueueEnquire
  <2>1. /\ UNCHANGED <<reader, due, toCheck, cur, stalled>>
        /\ sweeper \in {"enquire", "blocked", "count", "drop"} /\ sweeper' \in {"check", "drop", "count"}
        /\ cached' \subseteq cached
    BY <1>9 DEF CountEnquire, Drop, Leaves, RefuseEnquire, QueueEnquire
  <2>2. \A c \in cached' : age'[c] = age[c] /\ (c \in sessionIDs => c \in sessionIDs')
    BY <1>9 DEF CountEnquire, Drop, Leaves, RefuseEnquire, QueueEnquire, WInv, IInv, TypeOK
  <2>3. blocked' = 0
    BY <1>9 DEF CountEnquire, Drop, RefuseEnquire, QueueEnquire, WInv, StalledOnce
  <2>4. StalledOnce'
    BY <2>1, <2>3 DEF WInv, StalledOnce, Judging
  <2>5. Waited' >= Waited /\ Waited' \in Nat
    <3> DEFINE queues == QueueTimeout * Cardinality(stalled)
               others == QueueTimeout * Cardinality(stalled \ {cur})
    <3>1. Waited' = queues
      BY <2>1 DEF Waited
    <3>2. CASE sweeper = "blocked"
      <4>1. others \in Nat /\ queues = others + QueueTimeout /\ Waited = others + blocked
        BY <3>2, Waits DEF Waited, WInv
      <4>2. blocked \in Nat /\ blocked <= QueueTimeout /\ QueueTimeout \in Nat
        BY LimitsAssumption DEF WInv, IInv, TypeOK
      <4> HIDE DEF queues, others
      <4> QED
        BY <3>1, <4>1, <4>2
    <3>3. CASE sweeper # "blocked"
      <4>1. Waited = queues /\ queues \in Nat
        BY <1>1, <3>3 DEF Waited
      <4> HIDE DEF queues
      <4> QED
        BY <3>1, <4>1
    <3> QED
      BY <3>2, <3>3
  <2> QED
    BY <1>6, <2>1, <2>2, <2>4, <2>5 DEF Judging
<1> QED
  BY <1>2, <1>3, <1>4, <1>5, <1>7, <1>8, <1>9 DEF Sweep

LEMMA WaitInductive == WInv /\ [Next]_vars => WInv'
<1> SUFFICES ASSUME WInv, [Next]_vars PROVE WInv'
  OBVIOUS
<1>1. IInv'
  BY Inductive DEF WInv
<1>2. CASE UNCHANGED vars
  BY <1>1, <1>2 DEF WInv, Indexed, StalledOnce, Renewed, Present, Judging, Waited,
                    vars, cacheVars, sessionVars, sweepVars
<1> QED
  BY <1>1, <1>2, WaitSessionStep, WaitTickStep, WaitSweepStep DEF Next, WInv

\* However many sessions there are: if the cache keeps its entries for longer than one
\* period of the sweep, an entry expires only in a sweep that has found so many queues
\* full, one after the other, that waiting for them can take the whole time to live.
\* With the defaults two are enough (session_manager_expiry), and one is not.
THEOREM ExpiryNeedsFullQueues == ASSUME 1 < CacheTtl PROVE Spec => ExpiryTakesFullQueues
<1> DEFINE A == \A s \in cached \intersect cached' :
                   Present(s) /\ ~Present(s)' => QueueTimeout * Cardinality(stalled) >= CacheTtl
<1>1. Init => WInv
  <2> SUFFICES ASSUME Init PROVE WInv
    OBVIOUS
  <2>1. IInv
    BY Initially
  <2>2. Indexed /\ StalledOnce /\ Renewed
    BY FS_EmptySet DEF Init, Indexed, StalledOnce, Renewed, Judging
  <2> QED
    BY <2>1, <2>2 DEF WInv
<1>2. WInv /\ [Next]_vars => [A]_vars
  <2> SUFFICES ASSUME WInv, [Next]_vars, NEW s \in cached, s \in cached', Present(s), ~Present(s)'
               PROVE  QueueTimeout * Cardinality(stalled) >= CacheTtl
    OBVIOUS
  <2>1. age[s] \in Nat /\ age[s] < CacheTtl /\ CacheTtl \in Nat /\ s \in Sessions
    BY Ages DEF WInv, Present
  <2>2. ~(age'[s] < CacheTtl)
    BY DEF Present
  <2>3. Tick
    <3> USE DEF cacheVars, sessionVars, sweepVars
    <3>1. CASE UNCHANGED vars
      BY <3>1, <2>1, <2>2 DEF vars
    <3>2. ASSUME NEW c \in Sessions,
                 \/ Peer(c) \/ StartSession(c) \/ CheckContext(c) \/ Touch(c) \/ StopEnds(c)
                 \/ AppGets(c) \/ Expire(c) \/ Evict(c) \/ CallbackStops(c)
          PROVE  FALSE
      <4>1. age' = age \/ \E d \in Sessions : age' = [age EXCEPT ![d] = 0]
        BY <3>2 DEF Peer, Connect, ReadTimesOut, ReadFails, ReadPDU, ReadBind, ReadUnbind,
                    ReadAnswer, StartSession, CheckContext, Touch, StopEnds, AppGets, Touched,
                    Expire, Evict, Leaves, CallbackStops
      <4> QED
        BY <4>1, <2>1, <2>2, LimitsAssumption DEF WInv, IInv, TypeOK
    <3>3. CASE Sweep
      <4>1. age' = age \/ \E d : age' = [age EXCEPT ![d] = 0]
        BY <3>3 DEF Sweep, BeginSweep, EndCollect, Collect, Touched, Judge, RefuseEnquire,
                    FindQueueFull, QueueEnquire, CountEnquire, Drop, Leaves, EndSweep
      <4> QED
        BY <4>1, <2>1, <2>2, LimitsAssumption DEF WInv, IInv, TypeOK
    <3> QED
      BY <3>1, <3>2, <3>3 DEF Next
  <2>4. age'[s] <= age[s] + 1 /\ age'[s] \in Nat
    BY <2>1, <2>3 DEF Tick
  <2>5. CASE sweeper = "wait" /\ ~due
    <3>1. age[s] = 0
      BY <2>5 DEF WInv, Renewed
    <3>2. 1 < CacheTtl
      OBVIOUS
    <3> QED
      BY <2>1, <2>2, <2>4, <3>1, <3>2
  <2>6. CASE sweeper = "blocked" /\ blocked < QueueTimeout
    <3> DEFINE queues == QueueTimeout * Cardinality(stalled)
               others == QueueTimeout * Cardinality(stalled \ {cur})
    <3>1. others \in Nat /\ queues = others + QueueTimeout
      BY <2>6, Waits DEF WInv
    <3>2. age[s] <= others + blocked
      BY <2>6 DEF WInv, Renewed, Judging, Waited
    <3>3. blocked \in Nat /\ QueueTimeout \in Nat
      BY LimitsAssumption DEF WInv, IInv, TypeOK
    <3> HIDE DEF queues, others
    <3>4. queues >= CacheTtl
      BY <2>1, <2>2, <2>4, <2>6, <3>1, <3>2, <3>3
    <3> QED
      BY <3>4 DEF queues
  <2> QED
    BY <2>3, <2>5, <2>6 DEF Tick
<1>3. WInv /\ [Next]_vars => WInv'
  BY WaitInductive
<1> QED
  BY <1>1, <1>2, <1>3, PTL DEF Spec, ExpiryTakesFullQueues

=============================================================================
