---------------------------- MODULE ServerProofs ----------------------------
(* Proofs about Server, for any set of connections. *)
EXTENDS Server, TLAPS

(***************************************************************************)
(* The inductive invariant.  What the sweep holds are sessions that have   *)
(* been indexed, and these never go back to the states of the set-up: so   *)
(* none of them can enter the cache while DeleteSession takes it out of    *)
(* cache and index.  Shutdown's place says who has ended before it.        *)
(***************************************************************************)
Indexed == {c \in Connections : conn[c] \in {"head", "reading", "exited"}}

SweepHoldsIndexed ==
    /\ sessionIDs \subseteq Indexed
    /\ toVisit \subseteq Indexed
    /\ toCheck \subseteq Indexed
    /\ sweeper \in {"queue", "drop", "unindex"} => cur \in Indexed
    /\ sweeper = "unindex" => cur \notin cached

SweepEndsFirst == CacheFlushed => sweeper \in {"none", "exited"}

AcceptEndsFirst ==
    /\ main = "new" => acceptor = "none"
    /\ main \notin Serving \union {"cancelled"} => \A c \in Connections : conn[c] # "backlog"
    /\ main = "returned" => acceptor \in {"none", "exited"}

IInv ==
    /\ TypeOK
    /\ SweepHoldsIndexed
    /\ SweepEndsFirst
    /\ AcceptEndsFirst
    /\ LateServesNothing
    /\ ServedIsSwept

LEMMA Initially == Init => IInv
BY NoneAssumption
   DEF Init, IInv, TypeOK, SweepHoldsIndexed, SweepEndsFirst, AcceptEndsFirst, LateServesNothing, ServedIsSwept,
       Indexed, CacheFlushed, Serving

\* Every step keeps the types and the accept loop's hold on a connection.
LEMMA TypeStep == IInv /\ [Next]_vars => TypeOK'
<1> SUFFICES ASSUME IInv, [Next]_vars PROVE TypeOK'
  OBVIOUS
<1>0. TypeOK /\ (main = "new" => acceptor = "none")
  BY DEF IInv, AcceptEndsFirst
<1> USE <1>0 DEF TypeOK, Serving
<1>1. CASE Main
  BY <1>1 DEF Main, Start, StartFails, Signalled, Failed, sessionVars, sweepVars
<1>2. CASE Shutdown
  BY <1>2 DEF Shutdown, CloseListener, TellSweep, FlushCache, CloseCache, ForgetIDs, ShutdownReturns, sessionVars, sweepVars
<1>3. CASE AcceptLoop
  BY <1>3 DEF AcceptLoop, CheckContext, AcceptFails, Accept, Handle, AfterAccept, ErrorKept, CtxDone, sessionVars, sweepVars
<1>4. CASE Client
  BY <1>4 DEF Client, Dial, Listening, serverVars, sweepVars
<1>5. ASSUME NEW c \in Connections, HandleConnection(c) \/ Reader(c)
      PROVE  TypeOK'
  <2>1. CASE GiveUp(c) \/ MakeSession(c)
    BY <2>1 DEF GiveUp, MakeSession, serverVars, sweepVars
  <2>2. CASE CacheSession(c) \/ IndexSession(c)
    BY <2>2 DEF CacheSession, IndexSession, serverVars, sweepVars
  <2>3. CASE CacheGone(c)
    BY <2>3 DEF CacheGone, sessionVars, sweepVars
  <2>4. CASE CheckSession(c)
    BY <2>4 DEF CheckSession, serverVars, sweepVars
  <2>5. CASE ReadEnds(c) \/ ReadFails(c)
    BY <2>5 DEF ReadEnds, ReadFails, serverVars, sweepVars
  <2> QED
    BY <1>5, <2>1, <2>2, <2>3, <2>4, <2>5 DEF HandleConnection, Reader
<1>6. CASE Cache
  BY <1>6 DEF Cache, CacheRemoves, CallbackStops, serverVars, sweepVars
<1>7. CASE SweepRound
  BY <1>7 DEF SweepRound, EndRange, QueueWaitEnds, Drop, Dropped, Unindex, EndSweep, Visit, Judge, serverVars, sessionVars
<1>8. CASE SweepWaits
  BY <1>8 DEF SweepWaits, BeginSweep, SweepExits, serverVars, sessionVars
<1>9. CASE Finished \/ UNCHANGED vars
  BY <1>9 DEF Finished, vars, serverVars, sessionVars, sweepVars
<1> QED
  BY <1>1, <1>2, <1>3, <1>4, <1>5, <1>6, <1>7, <1>8, <1>9 DEF Next

\* A connection with a running or ended reader keeps one.
LEMMA IndexedStays == TypeOK /\ [Next]_vars => Indexed \subseteq Indexed'
<1> SUFFICES ASSUME TypeOK, [Next]_vars, NEW d \in Indexed PROVE d \in Indexed'
  OBVIOUS
<1> USE DEF Indexed, TypeOK
<1>1. CASE Main
  BY <1>1 DEF Main, Start, StartFails, Signalled, Failed, sessionVars
<1>2. CASE Shutdown
  BY <1>2 DEF Shutdown, CloseListener, TellSweep, FlushCache, CloseCache, ForgetIDs, ShutdownReturns, sessionVars
<1>3. CASE AcceptLoop
  BY <1>3 DEF AcceptLoop, CheckContext, AcceptFails, Accept, Handle, sessionVars
<1>4. CASE Client
  BY <1>4 DEF Client, Dial
<1>5. ASSUME NEW c \in Connections, HandleConnection(c) \/ Reader(c)
      PROVE  d \in Indexed'
  BY <1>5 DEF HandleConnection, GiveUp, MakeSession, CacheSession, CacheGone, IndexSession,
              Reader, CheckSession, ReadEnds, ReadFails, sessionVars
<1>6. CASE Cache
  BY <1>6 DEF Cache, CacheRemoves, CallbackStops
<1>7. CASE SweepRound
  BY <1>7 DEF SweepRound, EndRange, QueueWaitEnds, Drop, Unindex, EndSweep, Visit, Judge, sessionVars
<1>8. CASE SweepWaits
  BY <1>8 DEF SweepWaits, BeginSweep, SweepExits, sessionVars
<1>9. CASE Finished \/ UNCHANGED vars
  BY <1>9 DEF Finished, vars, sessionVars
<1> QED
  BY <1>1, <1>2, <1>3, <1>4, <1>5, <1>6, <1>7, <1>8, <1>9 DEF Next

LEMMA SweepStep == IInv /\ [Next]_vars => SweepHoldsIndexed'
<1> SUFFICES ASSUME IInv, [Next]_vars PROVE SweepHoldsIndexed'
  OBVIOUS
<1>0. TypeOK /\ SweepHoldsIndexed /\ Indexed \subseteq Indexed'
  BY IndexedStays DEF IInv
<1> USE <1>0 DEF SweepHoldsIndexed
<1>1. CASE Main
  BY <1>1 DEF Main, Start, StartFails, Signalled, Failed, sessionVars, sweepVars
<1>2. CASE Shutdown
  BY <1>2 DEF Shutdown, CloseListener, TellSweep, FlushCache, CloseCache, ForgetIDs, ShutdownReturns, sessionVars, sweepVars
<1>3. CASE AcceptLoop
  BY <1>3 DEF AcceptLoop, CheckContext, AcceptFails, Accept, Handle, sessionVars, sweepVars
<1>4. CASE Client
  BY <1>4 DEF Client, Dial, sweepVars
<1>5. ASSUME NEW c \in Connections, HandleConnection(c)
      PROVE  SweepHoldsIndexed'
  <2>1. CASE IndexSession(c)
    BY <2>1 DEF IndexSession, Indexed, TypeOK, sweepVars
  <2>2. CASE CacheSession(c)
    BY <2>2 DEF CacheSession, Indexed, TypeOK, sweepVars
  <2> QED
    BY <1>5, <2>1, <2>2 DEF HandleConnection, GiveUp, MakeSession, CacheGone, sessionVars, sweepVars
<1>6. ASSUME NEW c \in Connections, Reader(c)
      PROVE  SweepHoldsIndexed'
  BY <1>6 DEF Reader, CheckSession, ReadEnds, ReadFails, sweepVars
<1>7. CASE Cache
  BY <1>7 DEF Cache, CacheRemoves, CallbackStops, sweepVars
<1>8. CASE SweepRound
  BY <1>8 DEF SweepRound, EndRange, QueueWaitEnds, Drop, Dropped, Unindex, EndSweep, Visit, Judge, Indexed, TypeOK, sessionVars
<1>9. CASE SweepWaits
  BY <1>9 DEF SweepWaits, BeginSweep, SweepExits, sessionVars
<1>10. CASE Finished \/ UNCHANGED vars
  BY <1>10 DEF Finished, vars, sessionVars, sweepVars
<1> QED
  BY <1>1, <1>2, <1>3, <1>4, <1>5, <1>6, <1>7, <1>8, <1>9, <1>10 DEF Next

LEMMA OrderStep == IInv /\ [Next]_vars => SweepEndsFirst' /\ AcceptEndsFirst'
<1> SUFFICES ASSUME IInv, [Next]_vars PROVE SweepEndsFirst' /\ AcceptEndsFirst'
  OBVIOUS
<1> USE DEF IInv, SweepEndsFirst, AcceptEndsFirst, CacheFlushed, CtxDone, Serving, TypeOK
<1>1. CASE Main
  BY <1>1 DEF Main, Start, StartFails, Signalled, Failed, sessionVars, sweepVars
<1>2. CASE Shutdown
  BY <1>2 DEF Shutdown, CloseListener, TellSweep, FlushCache, SweepEnded, CloseCache, ForgetIDs, ShutdownReturns,
              AcceptEnded, sessionVars, sweepVars
<1>3. CASE AcceptLoop
  BY <1>3 DEF AcceptLoop, CheckContext, AcceptFails, Accept, AfterAccept, Handle, sessionVars, sweepVars
<1>4. CASE Client
  BY <1>4 DEF Client, Dial, Listening, serverVars, sweepVars
<1>5. ASSUME NEW c \in Connections, HandleConnection(c) \/ Reader(c)
      PROVE  SweepEndsFirst' /\ AcceptEndsFirst'
  BY <1>5 DEF HandleConnection, GiveUp, MakeSession, CacheSession, CacheGone, IndexSession,
              Reader, CheckSession, ReadEnds, ReadFails, serverVars, sessionVars, sweepVars
<1>6. CASE Cache
  BY <1>6 DEF Cache, CacheRemoves, CallbackStops, serverVars, sweepVars
<1>7. CASE SweepRound
  BY <1>7 DEF SweepRound, EndRange, QueueWaitEnds, Drop, Unindex, EndSweep, Visit, Judge, serverVars, sessionVars
<1>8. CASE SweepWaits
  BY <1>8 DEF SweepWaits, BeginSweep, SweepExits, serverVars, sessionVars
<1>9. CASE Finished \/ UNCHANGED vars
  BY <1>9 DEF Finished, vars, serverVars, sessionVars, sweepVars
<1> QED
  BY <1>1, <1>2, <1>3, <1>4, <1>5, <1>6, <1>7, <1>8, <1>9 DEF Next

LEMMA ServingStep == IInv /\ [Next]_vars => LateServesNothing' /\ ServedIsSwept'
<1> SUFFICES ASSUME IInv, [Next]_vars PROVE LateServesNothing' /\ ServedIsSwept'
  OBVIOUS
<1> USE DEF IInv, LateServesNothing, ServedIsSwept, SweepHoldsIndexed, Indexed, CacheFlushed, CtxDone, Serving, TypeOK
<1>1. CASE Main
  BY <1>1 DEF Main, Start, StartFails, Signalled, Failed, sessionVars
<1>2. CASE Shutdown
  BY <1>2 DEF Shutdown, CloseListener, TellSweep, FlushCache, CloseCache, ForgetIDs, ShutdownReturns, sessionVars
<1>3. CASE AcceptLoop
  BY <1>3 DEF AcceptLoop, CheckContext, AcceptFails, Accept, Handle, sessionVars
<1>4. CASE Client
  BY <1>4 DEF Client, Dial, serverVars
<1>5. ASSUME NEW c \in Connections, HandleConnection(c)
      PROVE  LateServesNothing' /\ ServedIsSwept'
  BY <1>5 DEF HandleConnection, GiveUp, MakeSession, CacheSession, CacheGone, IndexSession, serverVars, sessionVars
<1>6. ASSUME NEW c \in Connections, Reader(c)
      PROVE  LateServesNothing' /\ ServedIsSwept'
  BY <1>6 DEF Reader, CheckSession, SessionDone, ReadEnds, ReadFails, serverVars
<1>7. CASE Cache
  BY <1>7 DEF Cache, CacheRemoves, CallbackStops, serverVars
<1>8. CASE SweepRound
  BY <1>8 DEF SweepRound, EndRange, QueueWaitEnds, Drop, Dropped, Unindex, EndSweep, Visit, Judge, serverVars, sessionVars
<1>9. CASE SweepWaits
  BY <1>9 DEF SweepWaits, BeginSweep, SweepExits, serverVars, sessionVars
<1>10. CASE Finished \/ UNCHANGED vars
  BY <1>10 DEF Finished, vars, serverVars, sessionVars
<1> QED
  BY <1>1, <1>2, <1>3, <1>4, <1>5, <1>6, <1>7, <1>8, <1>9, <1>10 DEF Next

-----------------------------------------------------------------------------
\* The inductive invariant holds in every reachable state.
THEOREM Invariance == Spec => []IInv
<1>1. IInv /\ [Next]_vars => IInv'
  <2> SUFFICES ASSUME IInv, [Next]_vars PROVE IInv'
    OBVIOUS
  <2>1. TypeOK'
    BY TypeStep DEF IInv
  <2> QED
    BY <2>1, SweepStep, OrderStep, ServingStep DEF IInv
<1> QED
  BY Initially, <1>1, PTL DEF Spec

\* Every variable keeps its type, and the accept loop loses no connection.
THEOREM TypeCorrect == Spec => []TypeOK
<1>1. IInv => TypeOK
  BY DEF IInv
<1> QED
  BY Invariance, <1>1, PTL

\* No sweep is under way when Shutdown has set the cache's pointer to nil.
THEOREM SweepIsOver == Spec => []SweepSeesCache
<1>1. IInv => SweepSeesCache
  BY DEF IInv, SweepEndsFirst, SweepSeesCache, CacheFlushed, CacheNil
<1> QED
  BY Invariance, <1>1, PTL

\* A cached session with a reader is in the index the sweep goes through.
THEOREM ServedAreSwept == Spec => []ServedIsSwept
<1>1. IInv => ServedIsSwept
  BY DEF IInv
<1> QED
  BY Invariance, <1>1, PTL

\* A session that Shutdown came too early to flush from the cache reads nothing.
THEOREM LateOnesReadNothing == Spec => []LateServesNothing
<1>1. IInv => LateServesNothing
  BY DEF IInv
<1> QED
  BY Invariance, <1>1, PTL

\* No client is left in the backlog or with the accept loop by a Shutdown that returned.
THEOREM NobodyLeftWaiting == Spec => []NoneLeftWaiting
<1>1. IInv => NoneLeftWaiting
  BY DEF IInv, TypeOK, AcceptEndsFirst, NoneLeftWaiting, Serving
<1> QED
  BY Invariance, <1>1, PTL

=============================================================================
