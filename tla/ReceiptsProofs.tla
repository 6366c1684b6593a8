--------------------------- MODULE ReceiptsProofs ---------------------------
(***************************************************************************)
(* Proofs about Receipts, for any number of sessions, reporters, octets,   *)
(* replacement keys and messages.                                          *)
(***************************************************************************)
EXTENDS Receipts, FiniteSetTheorems, TLAPS

\* The record types are seen through in every proof.
USE DEF Work, Job, Submitted

-----------------------------------------------------------------------------
(* The maps. *)

\* The type of PendingRequests, by its domain and its values.
LEMMA EntriesType ==
    ASSUME NEW f
    PROVE  f \in Entries <=>
              /\ f = [i \in DOMAIN f |-> f[i]]
              /\ DOMAIN f \subseteq Ids
              /\ \A i \in DOMAIN f : f[i] \in Octets
<1>1. ASSUME f \in Entries
      PROVE  /\ f = [i \in DOMAIN f |-> f[i]]
             /\ DOMAIN f \subseteq Ids
             /\ \A i \in DOMAIN f : f[i] \in Octets
  <2>1. PICK S \in SUBSET Ids : f \in [S -> Octets]
    BY <1>1 DEF Entries
  <2>2. QED
    BY <2>1
<1>2. ASSUME f = [i \in DOMAIN f |-> f[i]], DOMAIN f \subseteq Ids,
             \A i \in DOMAIN f : f[i] \in Octets
      PROVE  f \in Entries
  <2>1. f \in [DOMAIN f -> Octets]
    BY <1>2
  <2>2. QED
    BY <1>2, <2>1 DEF Entries
<1>3. QED
  BY <1>1, <1>2

\* Deleting an entry: what the map looks like afterwards.
LEMMA WithoutEntry ==
    ASSUME NEW s \in Sessions, NEW id, NEW t \in Sessions,
           pending \in [Sessions -> Entries]
    PROVE  /\ Without(s, id) \in [Sessions -> Entries]
           /\ DOMAIN Without(s, id)[t] \subseteq Waiting(t)
           /\ id \notin DOMAIN Without(s, id)[s]
           /\ \A i \in DOMAIN Without(s, id)[t] : Without(s, id)[t][i] = pending[t][i]
<1> DEFINE f == [i \in Waiting(s) \ {id} |-> pending[s][i]]
<1>1. pending[s] \in Entries
  OBVIOUS
<1>2. f \in Entries
  <2>1. DOMAIN f = Waiting(s) \ {id}
    OBVIOUS
  <2>2. /\ Waiting(s) \subseteq Ids
        /\ \A i \in Waiting(s) : pending[s][i] \in Octets
    BY <1>1, EntriesType DEF Waiting
  <2>3. QED
    BY <2>1, <2>2, EntriesType
<1>3. Without(s, id) = [pending EXCEPT ![s] = f]
  BY DEF Without
<1>4. QED
  BY <1>2, <1>3 DEF Waiting

\* Storing an entry: what the map looks like afterwards.
LEMMA PutEntry ==
    ASSUME NEW s \in Sessions, NEW id \in Ids, NEW rd \in Octets, NEW t \in Sessions,
           pending \in [Sessions -> Entries]
    PROVE  /\ Put(s, id, rd) \in [Sessions -> Entries]
           /\ \A i \in DOMAIN Put(s, id, rd)[t] :
                 \/ i \in Waiting(t) /\ Put(s, id, rd)[t][i] = pending[t][i]
                 \/ t = s /\ i = id /\ Put(s, id, rd)[t][i] = rd
<1> DEFINE f == [i \in Waiting(s) \union {id} |-> IF i = id THEN rd ELSE pending[s][i]]
<1>1. pending[s] \in Entries
  OBVIOUS
<1>2. f \in Entries
  <2>1. DOMAIN f = Waiting(s) \union {id}
    OBVIOUS
  <2>2. /\ Waiting(s) \subseteq Ids
        /\ \A i \in Waiting(s) : pending[s][i] \in Octets
    BY <1>1, EntriesType DEF Waiting
  <2>3. QED
    BY <2>1, <2>2, EntriesType
<1>3. Put(s, id, rd) = [pending EXCEPT ![s] = f]
  BY DEF Put
<1>4. QED
  BY <1>2, <1>3 DEF Waiting

-----------------------------------------------------------------------------
(* Who changes what. *)

ReaderStep(s) ==
    \/ \E rd \in Octets, wanted \in BOOLEAN, k \in SubmitKeys, replace \in BOOLEAN :
          Submit(s, rd, wanted, k, replace)
    \/ SubmitHeld(s)
    \/ HandleSubmit(s)
    \/ ReaderExits(s)

OtherStep ==
    \/ \E s \in Sessions :
          \/ EvictSession(s) \/ StopCancels(s) \/ StopSession(s)
          \/ \E id \in Ids : ExpirePending(s, id)
    \/ \E r \in Reporters :
          \/ \E id \in Ids, success \in BOOLEAN : BeginReport(r, id, success)
          \/ Report(r)
    \/ TtlPasses
    \/ \E id \in Ids : LoseRoute(id) \/ LookupStaleRoute(id)

\* A step is the reader's or leaves alone what only readers change.
LEMMA ReaderFrame ==
    ASSUME Next
    PROVE  \/ \E s \in Sessions : ReaderStep(s)
           \/ UNCHANGED <<nextId, reader, last, submits, known, replaced>>
<1>1. (\E s \in Sessions : ReaderStep(s)) \/ OtherStep
  BY DEF Next, ReaderStep, OtherStep
<1>2. ASSUME NEW s \in Sessions,
             \/ EvictSession(s) \/ StopCancels(s) \/ StopSession(s)
             \/ \E id \in Ids : ExpirePending(s, id)
      PROVE  UNCHANGED <<nextId, reader, last, submits, known, replaced>>
  BY <1>2 DEF EvictSession, StopCancels, StopSession, StopUnbinds, StopUnroutes,
     StopDeletes, StopEnds, ExpirePending, maps, history
<1>3. ASSUME NEW r \in Reporters,
             \/ \E id \in Ids, success \in BOOLEAN : BeginReport(r, id, success)
             \/ Report(r)
      PROVE  UNCHANGED <<nextId, reader, last, submits, known, replaced>>
  BY <1>3 DEF BeginReport, Report, LoadPending, CheckSend, SendReceipt, SendFails,
     RemoveLoad, RemoveDelete, RemoveUnroute, maps, history
<1>4. ASSUME TtlPasses \/ \E id \in Ids : LoseRoute(id) \/ LookupStaleRoute(id)
      PROVE  UNCHANGED <<nextId, reader, last, submits, known, replaced>>
  BY <1>4 DEF TtlPasses, LoseRoute, LookupStaleRoute, maps, history
<1>5. QED
  BY <1>1, <1>2, <1>3, <1>4 DEF OtherStep

\* The record of a submit is written when it is read and when its handler returns.
LEMMA SubmitsFrame ==
    ASSUME Next
    PROVE  \/ UNCHANGED submits
           \/ \E s \in Sessions :
                 \/ \E rd \in Octets, wanted \in BOOLEAN, k \in SubmitKeys,
                       replace \in BOOLEAN : Submit(s, rd, wanted, k, replace)
                 \/ \E ok \in BOOLEAN : LeaveHandler(s, ok)
<1>1. ASSUME NEW s \in Sessions, ReaderStep(s),
             ~\E ok \in BOOLEAN : LeaveHandler(s, ok),
             ~\E rd \in Octets, wanted \in BOOLEAN, k \in SubmitKeys, replace \in BOOLEAN :
                 Submit(s, rd, wanted, k, replace)
      PROVE  UNCHANGED submits
  BY <1>1 DEF ReaderStep, SubmitHeld, HandleSubmit, ReaderExits, ReplaceLoad,
     ReplaceDelete, ReplaceUnroute, ReplaceForget, EnterHandler,
     StorePending, RegisterRoute, FinishSubmit, history
<1>2. QED
  BY <1>1, ReaderFrame

\* PendingRequests changes by one entry stored or one deleted.
LEMMA PendingFrame ==
    ASSUME Next, KnownGenerated, ReportsSound
    PROVE  \/ UNCHANGED pending
           \/ \E s \in Sessions : StorePending(s)
           \/ \E s \in Sessions : \E id : pending' = Without(s, id)
<1>1. ASSUME NEW s \in Sessions, ReaderStep(s), ~StorePending(s)
      PROVE  UNCHANGED pending \/ pending' = Without(s, Old(s))
  BY <1>1 DEF ReaderStep, Submit, SubmitHeld, HandleSubmit, ReaderExits, ReplaceLoad,
     ReplaceDelete, ReplaceUnroute, ReplaceForget, EnterHandler, LeaveHandler,
     RegisterRoute, FinishSubmit, maps
<1>2. ASSUME NEW s \in Sessions,
             \/ EvictSession(s) \/ StopCancels(s) \/ StopSession(s)
             \/ \E id \in Ids : ExpirePending(s, id)
      PROVE  UNCHANGED pending \/ \E id : pending' = Without(s, id)
  BY <1>2 DEF EvictSession, StopCancels, StopSession, StopUnbinds, StopUnroutes,
     StopDeletes, StopEnds, ExpirePending, maps
<1>3. ASSUME NEW r \in Reporters,
             \/ \E id \in Ids, success \in BOOLEAN : BeginReport(r, id, success)
             \/ Report(r), ~RemoveDelete(r)
      PROVE  UNCHANGED pending
  BY <1>3 DEF BeginReport, Report, LoadPending, CheckSend, SendReceipt, SendFails,
     RemoveLoad, RemoveUnroute, maps
<1>4. ASSUME TtlPasses \/ \E id \in Ids : LoseRoute(id) \/ LookupStaleRoute(id)
      PROVE  UNCHANGED pending
  BY <1>4 DEF TtlPasses, LoseRoute, LookupStaleRoute, maps
<1>5. ASSUME NEW r \in Reporters, RemoveDelete(r)
      PROVE  \E s \in Sessions : \E id : pending' = Without(s, id)
  <2>1. job[r].session \in Sessions
    BY <1>5 DEF RemoveDelete, ReportsSound, KnownGenerated
  <2>2. QED
    BY <1>5, <2>1 DEF RemoveDelete
<1>6. CASE \E s \in Sessions : ReaderStep(s)
  BY <1>1, <1>6
<1>7. CASE \E s \in Sessions :
             \/ EvictSession(s) \/ StopCancels(s) \/ StopSession(s)
             \/ \E id \in Ids : ExpirePending(s, id)
  BY <1>2, <1>7
<1>8. CASE \E r \in Reporters :
             \/ \E id \in Ids, success \in BOOLEAN : BeginReport(r, id, success)
             \/ Report(r)
  BY <1>3, <1>5, <1>8
<1>9. QED
  BY <1>4, <1>6, <1>7, <1>8 DEF Next, ReaderStep

\* Jobs and receipts change by one reporter's step.
LEMMA ReportFrame ==
    ASSUME Next
    PROVE  \/ UNCHANGED <<job, receipts>>
           \/ \E r \in Reporters :
                 \/ \E id \in Ids, success \in BOOLEAN : BeginReport(r, id, success)
                 \/ Report(r)
<1>1. ASSUME NEW s \in Sessions, ReaderStep(s)
      PROVE  UNCHANGED <<job, receipts>>
  BY <1>1 DEF ReaderStep, Submit, SubmitHeld, HandleSubmit, ReaderExits, ReplaceLoad,
     ReplaceDelete, ReplaceUnroute, ReplaceForget, EnterHandler, LeaveHandler,
     StorePending, RegisterRoute, FinishSubmit, history
<1>2. ASSUME NEW s \in Sessions,
             \/ EvictSession(s) \/ StopCancels(s) \/ StopSession(s)
             \/ \E id \in Ids : ExpirePending(s, id)
      PROVE  UNCHANGED <<job, receipts>>
  BY <1>2 DEF EvictSession, StopCancels, StopSession, StopUnbinds, StopUnroutes,
     StopDeletes, StopEnds, ExpirePending, history
<1>3. ASSUME TtlPasses \/ \E id \in Ids : LoseRoute(id) \/ LookupStaleRoute(id)
      PROVE  UNCHANGED <<job, receipts>>
  BY <1>3 DEF TtlPasses, LoseRoute, LookupStaleRoute, history
<1>4. QED
  BY <1>1, <1>2, <1>3 DEF Next, ReaderStep

-----------------------------------------------------------------------------
(* Preservation, one lemma for each part of the invariant. *)

\* What a submit was does not change once it has an id, except for its status.
LEMMA SubmitsKept ==
    ASSUME TypeOK, ReaderSound, Next
    PROVE  /\ nextId' \in {nextId, nextId + 1}
           /\ \A id \in Ids : id < nextId =>
                 /\ submits'[id].session = submits[id].session
                 /\ submits'[id].rd = submits[id].rd
                 /\ submits'[id].wanted = submits[id].wanted
                 /\ submits'[id].key = submits[id].key
                 /\ submits'[id].ok # submits[id].ok =>
                       \E s \in Sessions : reader[s].pc = "handling" /\ reader[s].id = id
<1>0. nextId \in Nat /\ submits \in [Ids -> Submitted]
  BY MaxIdAssumption DEF TypeOK
<1>1. ASSUME NEW s \in Sessions, NEW rd, NEW wanted, NEW k, NEW replace,
             Submit(s, rd, wanted, k, replace), NEW id \in Ids, id < nextId
      PROVE  submits'[id] = submits[id]
  BY <1>0, <1>1 DEF Submit
<1>2. ASSUME NEW s \in Sessions, NEW ok, LeaveHandler(s, ok), NEW id \in Ids
      PROVE  /\ submits'[id].session = submits[id].session
             /\ submits'[id].rd = submits[id].rd
             /\ submits'[id].wanted = submits[id].wanted
             /\ submits'[id].key = submits[id].key
             /\ submits'[id].ok # submits[id].ok =>
                   reader[s].pc = "handling" /\ reader[s].id = id
  <2>1. submits' = [submits EXCEPT ![reader[s].id].ok = ok] /\ reader[s].pc = "handling"
    BY <1>2 DEF LeaveHandler
  <2>2. CASE reader[s].id = id
    BY <1>0, <2>1, <2>2
  <2>3. CASE reader[s].id # id
    BY <1>0, <2>1, <2>3
  <2>4. QED
    BY <2>2, <2>3
<1>3. nextId' \in {nextId, nextId + 1}
  <2>1. ASSUME NEW s \in Sessions, ReaderStep(s)
        PROVE  nextId' \in {nextId, nextId + 1}
    BY <2>1 DEF ReaderStep, Submit, SubmitHeld, HandleSubmit, ReaderExits, ReplaceLoad,
       ReplaceDelete, ReplaceUnroute, ReplaceForget, EnterHandler, LeaveHandler,
       StorePending, RegisterRoute, FinishSubmit
  <2>2. QED
    BY <2>1, ReaderFrame
<1>4. CASE UNCHANGED submits
  BY <1>3, <1>4
<1>5. CASE \E s \in Sessions : \E ok \in BOOLEAN : LeaveHandler(s, ok)
  BY <1>2, <1>3, <1>5
<1>6. CASE \E s \in Sessions : \E rd \in Octets, wanted \in BOOLEAN, k \in SubmitKeys,
              replace \in BOOLEAN : Submit(s, rd, wanted, k, replace)
  BY <1>1, <1>3, <1>6
<1>7. QED
  BY <1>4, <1>5, <1>6, SubmitsFrame

\* Ids to come stay without a submit.
LEMMA FutureStep ==
    ASSUME TypeOK, FutureUnused, ReaderSound, Next
    PROVE  FutureUnused'
<1> SUFFICES ASSUME NEW id \in Ids, id >= nextId'
             PROVE  submits'[id].session = None
  BY DEF FutureUnused, Owner
<1>0. nextId \in Nat /\ id \in Nat /\ submits \in [Ids -> Submitted]
  BY MaxIdAssumption DEF TypeOK, Ids
<1>1. nextId' \in {nextId, nextId + 1} /\ id >= nextId
  BY <1>0, SubmitsKept
<1>2. submits[id].session = None
  BY <1>1 DEF FutureUnused, Owner
<1>3. ASSUME NEW s \in Sessions, NEW rd, NEW wanted, NEW k, NEW replace,
             Submit(s, rd, wanted, k, replace)
      PROVE  submits'[id] = submits[id]
  BY <1>0, <1>3 DEF Submit
<1>4. ASSUME NEW s \in Sessions, NEW ok, LeaveHandler(s, ok)
      PROVE  submits'[id].session = submits[id].session
  <2>1. submits' = [submits EXCEPT ![reader[s].id].ok = ok]
    BY <1>4 DEF LeaveHandler
  <2>2. QED
    BY <1>0, <2>1
<1>5. QED
  BY <1>2, <1>3, <1>4, SubmitsFrame

\* A reader's step leaves what the other readers work on as it is; its own work is
\* on record.
LEMMA ReaderStepSound ==
    ASSUME TypeOK, FutureUnused, ReaderSound, Next
    PROVE  ReaderSound'
<1> DEFINE Sound(t) ==
        LET w == reader[t] IN
        IF w.pc \in {"read", "exited"} THEN w.id = 0
        ELSE /\ w.id \in 1 .. nextId - 1
             /\ Owner(w.id) = t
             /\ w.rd \in Octets
             /\ w.rd = submits[w.id].rd /\ w.wanted = submits[w.id].wanted
             /\ w.key = submits[w.id].key /\ w.key \in SubmitKeys
             /\ w.pc \notin {"store", "register", "finish"} => ~submits[w.id].ok
             /\ w.pc \in {"store", "register", "finish"} => w.ok = submits[w.id].ok
             /\ w.pc \in {"store", "register"} => w.wanted
             /\ \A i \in Ids : Owner(i) = t => i <= w.id
<1> SUFFICES ASSUME NEW t \in Sessions
             PROVE  Sound(t)'
  BY DEF ReaderSound
<1>1. Sound(t)
  BY DEF ReaderSound
<1>2. nextId \in 1 .. MaxId + 1 /\ MaxId \in Nat
  BY MaxIdAssumption DEF TypeOK
<1>3. /\ reader \in [Sessions -> Work]
      /\ submits \in [Ids -> Submitted]
  BY DEF TypeOK
<1>4. ASSUME UNCHANGED <<nextId, submits>>, reader'[t] = reader[t]
      PROVE  Sound(t)'
  BY <1>1, <1>4 DEF Owner
<1>5. ASSUME NEW s \in Sessions, s # t, NEW ok \in BOOLEAN, LeaveHandler(s, ok)
      PROVE  Sound(t)'
  <2>1. /\ reader'[t] = reader[t] /\ nextId' = nextId /\ reader[s].pc = "handling"
        /\ submits' = [submits EXCEPT ![reader[s].id].ok = ok]
    BY <1>3, <1>5 DEF LeaveHandler
  <2>2. reader[s].id \in Ids /\ submits[reader[s].id].session = s
    BY <1>2, <2>1 DEF ReaderSound, Owner, Ids
  <2>3. \A i \in Ids : /\ submits'[i].session = submits[i].session
                       /\ i # reader[s].id => submits'[i] = submits[i]
    BY <1>3, <2>1, <2>2
  <2>4. CASE reader[t].pc \in {"read", "exited"}
    BY <1>1, <2>1, <2>4
  <2>5. CASE reader[t].pc \notin {"read", "exited"}
    <3>1. reader[t].id \in Ids /\ submits[reader[t].id].session = t
      BY <1>1, <1>2, <2>5 DEF Owner, Ids
    <3>2. reader[t].id # reader[s].id
      BY <1>5, <2>2, <3>1
    <3>3. submits'[reader[t].id] = submits[reader[t].id]
      BY <2>3, <3>1, <3>2
    <3>4. QED
      BY <1>1, <2>1, <2>3, <2>5, <3>3 DEF Owner
  <2>6. QED
    BY <2>4, <2>5
<1>6. ASSUME NEW s \in Sessions, NEW rd \in Octets, NEW wanted \in BOOLEAN,
             NEW k \in SubmitKeys, NEW replace \in BOOLEAN,
             Submit(s, rd, wanted, k, replace)
      PROVE  Sound(t)'
  <2>1. /\ reader[s].pc = "read" /\ nextId \in Ids /\ nextId' = nextId + 1
        /\ submits' = [submits EXCEPT ![nextId] =
                         [session |-> s, rd |-> rd, wanted |-> wanted, key |-> k,
                          ok |-> FALSE]]
        /\ reader' = [reader EXCEPT ![s] =
                        [pc |-> FirstStep(s, k, replace), id |-> nextId, rd |-> rd,
                         wanted |-> wanted, key |-> k, replace |-> replace,
                         ok |-> FALSE]]
    BY <1>6 DEF Submit
  <2>2. \A i \in Ids : i # nextId => submits'[i] = submits[i]
    BY <1>3, <2>1
  <2>3. submits'[nextId] = [session |-> s, rd |-> rd, wanted |-> wanted, key |-> k,
                            ok |-> FALSE]
    BY <1>3, <2>1
  <2>4. CASE s = t
    <3>1. reader'[t] = [pc |-> FirstStep(s, k, replace), id |-> nextId, rd |-> rd,
                        wanted |-> wanted, key |-> k, replace |-> replace, ok |-> FALSE]
      BY <1>3, <2>1, <2>4
    <3>2. FirstStep(s, k, replace) \in {"load", "handle"}
      BY DEF FirstStep
    <3>3. \A i \in Ids : submits'[i].session = t => i <= nextId
      <4>1. ASSUME NEW i \in Ids, i > nextId
            PROVE  submits'[i].session # t
        <5>1. submits'[i] = submits[i] /\ submits[i].session = None
          BY <1>2, <2>2, <4>1 DEF FutureUnused, Owner, Ids
        <5>2. QED
          BY <5>1, NoneAssumption
      <4>2. QED
        BY <1>2, <4>1 DEF Ids
    <3>4. nextId \in 1 .. nextId' - 1
      BY <1>2, <2>1
    <3>5. /\ reader'[t].pc \in {"load", "handle"}
          /\ reader'[t].id = nextId /\ reader'[t].rd = rd /\ reader'[t].wanted = wanted
          /\ reader'[t].key = k /\ reader'[t].ok = FALSE
      BY <3>1, <3>2
    <3>6. /\ submits'[nextId].session = t /\ submits'[nextId].rd = rd
          /\ submits'[nextId].wanted = wanted /\ submits'[nextId].key = k
          /\ submits'[nextId].ok = FALSE
      BY <2>3, <2>4
    <3>7. QED
      BY <1>6, <3>3, <3>4, <3>5, <3>6 DEF Owner
  <2>5. CASE s # t
    <3>1. reader'[t] = reader[t]
      BY <1>3, <2>1, <2>5
    <3>2. submits'[nextId].session # t
      BY <2>3, <2>5
    <3>3. CASE reader[t].pc \in {"read", "exited"}
      BY <1>1, <3>1, <3>3
    <3>4. CASE reader[t].pc \notin {"read", "exited"}
      <4>1. reader[t].id \in 1 .. nextId - 1 /\ reader[t].id \in Ids
        BY <1>1, <1>2, <3>4 DEF Ids
      <4>2. submits'[reader[t].id] = submits[reader[t].id]
        BY <1>2, <2>2, <4>1
      <4>3. \A i \in Ids : submits'[i].session = t => i <= reader[t].id
        BY <1>1, <2>2, <3>2, <3>4 DEF Owner
      <4>4. reader[t].id \in 1 .. nextId' - 1
        BY <1>2, <2>1, <4>1
      <4>5. QED
        BY <1>1, <3>1, <3>4, <4>2, <4>3, <4>4 DEF Owner
    <3>5. QED
      BY <3>3, <3>4
  <2>6. QED
    BY <2>4, <2>5
<1>7. ASSUME NEW ok \in BOOLEAN, LeaveHandler(t, ok)
      PROVE  Sound(t)'
  <2>1. /\ reader[t].pc = "handling" /\ nextId' = nextId
        /\ submits' = [submits EXCEPT ![reader[t].id].ok = ok]
        /\ reader' = [reader EXCEPT ![t] = [@ EXCEPT !.ok = ok,
                         !.pc = IF reader[t].wanted THEN "store" ELSE "finish"]]
    BY <1>7 DEF LeaveHandler
  <2>2. reader[t].id \in Ids
    BY <1>1, <1>2, <2>1 DEF Ids
  <2>3. /\ submits'[reader[t].id].session = submits[reader[t].id].session
        /\ submits'[reader[t].id].rd = submits[reader[t].id].rd
        /\ submits'[reader[t].id].wanted = submits[reader[t].id].wanted
        /\ submits'[reader[t].id].key = submits[reader[t].id].key
        /\ submits'[reader[t].id].ok = ok
        /\ \A i \in Ids : submits'[i].session = submits[i].session
    BY <1>3, <2>1, <2>2
  <2>4. /\ reader'[t].id = reader[t].id /\ reader'[t].rd = reader[t].rd
        /\ reader'[t].wanted = reader[t].wanted /\ reader'[t].key = reader[t].key
        /\ reader'[t].ok = ok
        /\ reader'[t].pc = IF reader[t].wanted THEN "store" ELSE "finish"
    BY <1>3, <2>1
  <2>5. QED
    BY <1>1, <2>1, <2>2, <2>3, <2>4 DEF Owner
<1>8. ASSUME NEW pc, reader' = Goto(t, pc), UNCHANGED <<nextId, submits>>,
             \/ reader[t].pc \in {"load", "delete", "unroute", "forget", "handle"} /\
                pc \in {"delete", "unroute", "forget", "handle", "handling"}
             \/ reader[t].pc = "store" /\ pc = "register"
             \/ reader[t].pc = "register" /\ pc = "finish"
             \/ reader[t].pc = "read" /\ pc = "exited"
      PROVE  Sound(t)'
  <2>1. /\ reader'[t].pc = pc /\ reader'[t].id = reader[t].id
        /\ reader'[t].rd = reader[t].rd /\ reader'[t].wanted = reader[t].wanted
        /\ reader'[t].key = reader[t].key /\ reader'[t].ok = reader[t].ok
    BY <1>3, <1>8 DEF Goto
  <2>2. QED
    BY <1>1, <1>8, <2>1 DEF Owner
<1>9. ASSUME FinishSubmit(t) \/ SubmitHeld(t)
      PROVE  Sound(t)'
  <2>1. /\ reader'[t].pc \in {"read", "exited"}
        /\ reader'[t].id = 0
    <3>1. CASE FinishSubmit(t)
      BY <1>3, <3>1 DEF FinishSubmit, NoSubmit, NextRead
    <3>2. CASE SubmitHeld(t)
      BY <1>1, <1>3, <3>2 DEF SubmitHeld, Goto, NextRead
    <3>3. QED
      BY <1>9, <3>1, <3>2
  <2>2. QED
    BY <2>1
<1>10. ASSUME NEW s \in Sessions, s # t, SubmitHeld(s)
       PROVE  Sound(t)'
  <2>1. reader'[t] = reader[t] /\ submits' = submits /\ nextId' = nextId + 1
    BY <1>3, <1>10 DEF SubmitHeld, Goto, history
  <2>2. CASE reader[t].pc \in {"read", "exited"}
    BY <1>1, <2>1, <2>2
  <2>3. CASE reader[t].pc \notin {"read", "exited"}
    <3>1. reader[t].id \in 1 .. nextId' - 1
      BY <1>1, <1>2, <2>1, <2>3
    <3>2. QED
      BY <1>1, <2>1, <2>3, <3>1 DEF Owner
  <2>4. QED
    BY <2>2, <2>3
<1>11. ASSUME NEW s \in Sessions, ReaderStep(s)
       PROVE  Sound(t)'
  <2>1. CASE \E rd \in Octets, wanted \in BOOLEAN, k \in SubmitKeys, replace \in BOOLEAN :
                 Submit(s, rd, wanted, k, replace)
    BY <1>6, <2>1
  <2>2. CASE \E ok \in BOOLEAN : LeaveHandler(s, ok)
    BY <1>5, <1>7, <2>2
  <2>3. CASE SubmitHeld(s)
    BY <1>9, <1>10, <2>3
  <2>4. CASE FinishSubmit(s)
    <3>1. UNCHANGED <<nextId, submits>> /\ (s # t => reader'[t] = reader[t])
      BY <1>3, <2>4 DEF FinishSubmit, history
    <3>2. QED
      BY <1>4, <1>9, <2>4, <3>1
  <2>5. CASE \/ ReplaceLoad(s) \/ ReplaceDelete(s) \/ ReplaceUnroute(s) \/ ReplaceForget(s)
             \/ EnterHandler(s) \/ StorePending(s) \/ RegisterRoute(s) \/ ReaderExits(s)
    <3>1. UNCHANGED <<nextId, submits>>
      BY <2>5 DEF ReplaceLoad, ReplaceDelete, ReplaceUnroute, ReplaceForget,
         EnterHandler, StorePending, RegisterRoute, ReaderExits, history
    <3>2. s # t => reader'[t] = reader[t]
      BY <1>3, <2>5 DEF ReplaceLoad, ReplaceDelete, ReplaceUnroute, ReplaceForget,
         EnterHandler, StorePending, RegisterRoute, ReaderExits, Goto
    <3>3. ASSUME s = t
          PROVE  Sound(t)'
      <4>1. CASE ReplaceLoad(t)
        BY <1>8, <3>1, <4>1 DEF ReplaceLoad, AfterReplaceLoad
      <4>2. CASE ReplaceDelete(t)
        BY <1>8, <3>1, <4>2 DEF ReplaceDelete
      <4>3. CASE ReplaceUnroute(t)
        BY <1>8, <3>1, <4>3 DEF ReplaceUnroute
      <4>4. CASE ReplaceForget(t)
        BY <1>8, <3>1, <4>4 DEF ReplaceForget
      <4>5. CASE EnterHandler(t)
        BY <1>8, <3>1, <4>5 DEF EnterHandler
      <4>6. CASE StorePending(t)
        BY <1>8, <3>1, <4>6 DEF StorePending
      <4>7. CASE RegisterRoute(t)
        BY <1>8, <3>1, <4>7 DEF RegisterRoute
      <4>8. CASE ReaderExits(t)
        BY <1>8, <3>1, <4>8 DEF ReaderExits
      <4>9. QED
        BY <2>5, <3>3, <4>1, <4>2, <4>3, <4>4, <4>5, <4>6, <4>7, <4>8
    <3>4. QED
      BY <1>4, <3>1, <3>2, <3>3
  <2>6. QED
    BY <1>11, <2>1, <2>2, <2>3, <2>4, <2>5 DEF ReaderStep, HandleSubmit
<1>12. QED
  BY <1>4, <1>11, ReaderFrame


\* A step of a session's PendingRequests, seen from any session: entries go, or the
\* reader of that session stores the one it is working on.
LEMMA WaitingFrame ==
    ASSUME TypeOK, ReaderSound, KnownGenerated, ReportsSound, Next, NEW t \in Sessions
    PROVE  /\ pending' \in [Sessions -> Entries]
           /\ \A id \in Waiting(t)' :
                 \/ id \in Waiting(t) /\ pending'[t][id] = pending[t][id]
                 \/ /\ StorePending(t) /\ id = reader[t].id
                    /\ pending'[t][id] = reader[t].rd
<1>0. pending \in [Sessions -> Entries] /\ MaxId \in Nat /\ nextId \in 1 .. MaxId + 1
  BY MaxIdAssumption DEF TypeOK
<1>1. CASE UNCHANGED pending
  BY <1>0, <1>1 DEF Waiting
<1>2. ASSUME NEW s \in Sessions, NEW id, pending' = Without(s, id)
      PROVE  /\ pending' \in [Sessions -> Entries]
             /\ \A i \in Waiting(t)' : i \in Waiting(t) /\ pending'[t][i] = pending[t][i]
  <2>1. /\ Without(s, id) \in [Sessions -> Entries]
        /\ DOMAIN Without(s, id)[t] \subseteq Waiting(t)
        /\ \A i \in DOMAIN Without(s, id)[t] : Without(s, id)[t][i] = pending[t][i]
    BY <1>0, WithoutEntry
  <2>2. DOMAIN pending'[t] \subseteq Waiting(t)
    BY <1>2, <2>1
  <2>3. QED
    BY <1>2, <2>1, <2>2 DEF Waiting
<1>3. ASSUME NEW s \in Sessions, StorePending(s)
      PROVE  /\ pending' \in [Sessions -> Entries]
             /\ \A id \in Waiting(t)' :
                   \/ id \in Waiting(t) /\ pending'[t][id] = pending[t][id]
                   \/ t = s /\ id = reader[t].id /\ pending'[t][id] = reader[t].rd
  <2>1. reader[s].id \in Ids /\ reader[s].rd \in Octets
    BY <1>0, <1>3 DEF StorePending, ReaderSound, Ids
  <2> DEFINE p == Put(s, reader[s].id, reader[s].rd)
  <2>2. pending' = p
    BY <1>3 DEF StorePending
  <2>3. /\ p \in [Sessions -> Entries]
        /\ \A i \in DOMAIN p[t] :
              \/ i \in Waiting(t) /\ p[t][i] = pending[t][i]
              \/ t = s /\ i = reader[s].id /\ p[t][i] = reader[s].rd
    BY <1>0, <2>1, PutEntry
  <2>4. Waiting(t)' = DOMAIN p[t]
    BY <2>2 DEF Waiting
  <2> HIDE DEF p
  <2>5. QED
    BY <2>2, <2>3, <2>4
<1>4. CASE \E s \in Sessions : StorePending(s)
  BY <1>3, <1>4
<1>5. CASE \E s \in Sessions : \E id : pending' = Without(s, id)
  BY <1>2, <1>5
<1>6. QED
  BY <1>1, <1>4, <1>5, PendingFrame

\* What is stored is a submit on record that wants a receipt, and stays one.
LEMMA EntriesStep ==
    ASSUME TypeOK, ReaderSound, FutureUnused, EntriesSound, KnownGenerated,
           ReportsSound, Next
    PROVE  EntriesSound'
<1> SUFFICES ASSUME NEW t \in Sessions, NEW id \in Waiting(t)'
             PROVE  /\ submits'[id].session = t
                    /\ submits'[id].wanted
                    /\ pending'[t][id] = submits'[id].rd
  BY DEF EntriesSound, Owner
<1>0. pending \in [Sessions -> Entries] /\ MaxId \in Nat /\ nextId \in 1 .. MaxId + 1
  BY MaxIdAssumption DEF TypeOK
<1>1. ASSUME id \in Waiting(t), pending'[t][id] = pending[t][id]
      PROVE  /\ submits'[id].session = t
             /\ submits'[id].wanted
             /\ pending'[t][id] = submits'[id].rd
  <2>1. submits[id].session = t /\ submits[id].wanted /\ pending[t][id] = submits[id].rd
    BY <1>1 DEF EntriesSound, Owner
  <2>2. id \in Ids
    BY <1>0, <1>1, EntriesType DEF Waiting
  <2>3. id < nextId
    BY <1>0, <2>1, <2>2, NoneAssumption DEF FutureUnused, Owner, Ids
  <2>4. /\ submits'[id].session = submits[id].session
        /\ submits'[id].wanted = submits[id].wanted
        /\ submits'[id].rd = submits[id].rd
    BY <2>2, <2>3, SubmitsKept
  <2>5. QED
    BY <1>1, <2>1, <2>4
<1>2. ASSUME StorePending(t), id = reader[t].id, pending'[t][id] = reader[t].rd
      PROVE  /\ submits'[id].session = t
             /\ submits'[id].wanted
             /\ pending'[t][id] = submits'[id].rd
  <2>1. submits' = submits /\ reader[t].pc = "store"
    BY <1>2 DEF StorePending
  <2>2. /\ submits[id].session = t /\ reader[t].rd = submits[id].rd
        /\ reader[t].wanted = submits[id].wanted /\ reader[t].wanted
    BY <1>2, <2>1 DEF ReaderSound, Owner
  <2>3. QED
    BY <1>2, <2>1, <2>2
<1>3. QED
  BY <1>1, <1>2, WaitingFrame


\* A reader, and what its session remembers for superseding, move together.
LEMMA OwnReader ==
    ASSUME TypeOK, Next, NEW t \in Sessions
    PROVE  ReaderStep(t) \/ (reader'[t] = reader[t] /\ last'[t] = last[t])
<1>0. /\ reader = [s \in Sessions |-> reader[s]]
      /\ last = [s \in Sessions |-> last[s]]
  BY DEF TypeOK
<1>1. ASSUME NEW s \in Sessions, s # t, ReaderStep(s)
      PROVE  reader'[t] = reader[t] /\ last'[t] = last[t]
  BY <1>0, <1>1 DEF ReaderStep, Submit, SubmitHeld, HandleSubmit, ReaderExits,
     ReplaceLoad, ReplaceDelete, ReplaceUnroute, ReplaceForget, EnterHandler,
     LeaveHandler, StorePending, RegisterRoute, FinishSubmit, Goto, Recorded, maps
<1>2. QED
  BY <1>1, ReaderFrame

\* A reader takes up an id when it reads a submit and lets go of it at the end.
LEMMA ReaderId ==
    ASSUME TypeOK, Next, NEW t \in Sessions
    PROVE  \/ reader'[t].id = reader[t].id
           \/ FinishSubmit(t) /\ reader'[t].id = 0
           \/ reader[t].pc = "read" /\ reader'[t].id = nextId
<1>1. reader = [s \in Sessions |-> reader[s]] /\ reader[t] \in Work
  BY DEF TypeOK
<1>2. ASSUME NEW rd, NEW wanted, NEW k, NEW replace, Submit(t, rd, wanted, k, replace)
      PROVE  reader[t].pc = "read" /\ reader'[t].id = nextId
  BY <1>1, <1>2 DEF Submit
<1>3. ASSUME NEW ok, LeaveHandler(t, ok)
      PROVE  reader'[t].id = reader[t].id
  <2>1. reader'[t] = [reader[t] EXCEPT !.ok = ok,
                        !.pc = IF reader[t].wanted THEN "store" ELSE "finish"]
    BY <1>1, <1>3 DEF LeaveHandler
  <2>2. QED
    BY <1>1, <2>1
<1>4. ASSUME FinishSubmit(t)
      PROVE  reader'[t].id = 0
  BY <1>1, <1>4 DEF FinishSubmit, NoSubmit
<1>5. ASSUME NEW pc, reader' = Goto(t, pc)
      PROVE  reader'[t].id = reader[t].id
  <2>1. reader'[t] = [reader[t] EXCEPT !.pc = pc]
    BY <1>1, <1>5 DEF Goto
  <2>2. QED
    BY <1>1, <2>1
<1>6. ASSUME \/ ReplaceLoad(t) \/ ReplaceDelete(t) \/ ReplaceUnroute(t)
             \/ ReplaceForget(t) \/ EnterHandler(t) \/ StorePending(t)
             \/ RegisterRoute(t) \/ ReaderExits(t) \/ SubmitHeld(t)
      PROVE  \E pc : reader' = Goto(t, pc)
  BY <1>6 DEF ReplaceLoad, ReplaceDelete, ReplaceUnroute, ReplaceForget,
     EnterHandler, StorePending, RegisterRoute, ReaderExits, SubmitHeld
<1>7. QED
  BY <1>2, <1>3, <1>4, <1>5, <1>6, OwnReader DEF ReaderStep, HandleSubmit

\* How far a reader has got with superseding agrees with the maps.
LEMMA SupersedingStep ==
    ASSUME TypeOK, ReaderSound, KnownGenerated, ReportsSound, SupersedingSound, Next
    PROVE  SupersedingSound'
<1> SUFFICES ASSUME NEW t \in Sessions
             PROVE  /\ reader'[t].pc \in {"load", "delete", "unroute", "forget"}
                          => Old(t)' # None
                    /\ reader'[t].pc \in {"unroute", "forget"} => Old(t)' \notin Waiting(t)'
  BY DEF SupersedingSound
<1>0. /\ pending \in [Sessions -> Entries]
      /\ reader \in [Sessions -> Work]
  BY DEF TypeOK
<1>1. /\ reader[t].pc \in {"load", "delete", "unroute", "forget"} => Old(t) # None
      /\ reader[t].pc \in {"unroute", "forget"} => Old(t) \notin Waiting(t)
  BY DEF SupersedingSound
<1>2. CASE reader'[t] = reader[t] /\ last'[t] = last[t]
  <2>1. Old(t)' = Old(t)
    BY <1>2 DEF Old
  <2>2. ASSUME reader[t].pc \in {"unroute", "forget"}, Old(t) \in Waiting(t)'
        PROVE  FALSE
    BY <1>1, <2>2, WaitingFrame DEF StorePending
  <2>3. QED
    BY <1>1, <1>2, <2>1, <2>2
<1>3. ASSUME NEW rd, NEW wanted, NEW k, NEW replace, Submit(t, rd, wanted, k, replace)
      PROVE  reader'[t].pc \notin {"delete", "unroute", "forget"} /\
             (reader'[t].pc = "load" => Old(t)' # None)
  <2>1. /\ last' = last
        /\ reader'[t].pc = FirstStep(t, k, replace) /\ reader'[t].key = k
    BY <1>0, <1>3 DEF Submit, maps
  <2>2. QED
    BY <2>1 DEF FirstStep, Old
<1>4. CASE ReplaceLoad(t)
  <2>1. /\ last' = last /\ pending' = pending /\ reader[t].pc = "load"
        /\ reader'[t].pc = AfterReplaceLoad(t) /\ reader'[t].key = reader[t].key
    BY <1>0, <1>4 DEF ReplaceLoad, Goto, maps
  <2>2. QED
    BY <1>1, <2>1 DEF AfterReplaceLoad, Old, Waiting
<1>5. CASE ReplaceDelete(t)
  <2>1. /\ last' = last /\ pending' = Without(t, Old(t)) /\ reader[t].pc = "delete"
        /\ reader'[t].pc = "unroute" /\ reader'[t].key = reader[t].key
    BY <1>0, <1>5 DEF ReplaceDelete, Goto
  <2>2. Old(t)' = Old(t)
    BY <2>1 DEF Old
  <2>3. Old(t) \notin DOMAIN Without(t, Old(t))[t]
    BY <1>0, WithoutEntry
  <2>4. QED
    BY <1>1, <2>1, <2>2, <2>3 DEF Waiting
<1>6. CASE ReplaceUnroute(t)
  <2>1. /\ last' = last /\ pending' = pending /\ reader[t].pc = "unroute"
        /\ reader'[t].pc = "forget" /\ reader'[t].key = reader[t].key
    BY <1>0, <1>6 DEF ReplaceUnroute, Goto
  <2>2. QED
    BY <1>1, <2>1 DEF Old, Waiting
<1>7. ASSUME \/ SubmitHeld(t) \/ ReaderExits(t) \/ ReplaceForget(t) \/ EnterHandler(t)
             \/ (\E ok \in BOOLEAN : LeaveHandler(t, ok))
             \/ StorePending(t) \/ RegisterRoute(t) \/ FinishSubmit(t)
      PROVE  reader'[t].pc \notin {"load", "delete", "unroute", "forget"}
  <2>1. ASSUME NEW ok, LeaveHandler(t, ok)
        PROVE  reader'[t].pc \in {"store", "finish"}
    BY <1>0, <2>1 DEF LeaveHandler
  <2>2. CASE FinishSubmit(t)
    BY <1>0, <2>2 DEF FinishSubmit, NoSubmit, NextRead
  <2>3. CASE SubmitHeld(t)
    BY <1>0, <2>3 DEF SubmitHeld, Goto, NextRead
  <2>4. CASE \/ ReaderExits(t) \/ ReplaceForget(t) \/ EnterHandler(t)
             \/ StorePending(t) \/ RegisterRoute(t)
    BY <1>0, <2>4 DEF ReaderExits, ReplaceForget, EnterHandler, StorePending,
       RegisterRoute, Goto
  <2>5. QED
    BY <1>7, <2>1, <2>2, <2>3, <2>4
<1>8. CASE ReaderStep(t)
  BY <1>3, <1>4, <1>5, <1>6, <1>7, <1>8 DEF ReaderStep, HandleSubmit
<1>9. QED
  BY <1>2, <1>8, OwnReader


\* A superseded id is gone for good.
LEMMA ReplacedStep ==
    ASSUME TypeOK, ReaderSound, FutureUnused, EntriesSound, SupersedingSound,
           ReplacedGone, KnownGenerated, ReportsSound, LastIsNewestAccepted, Next
    PROVE  ReplacedGone'
<1>0. /\ nextId \in 1 .. MaxId + 1 /\ MaxId \in Nat /\ replaced \subseteq Ids
      /\ \A s \in Sessions : last[s] \in [SubmitKeys -> Ids \union {None}]
      /\ \A s \in Sessions : reader[s].id \in 0 .. MaxId
  BY MaxIdAssumption DEF TypeOK
<1>1. nextId' \in {nextId, nextId + 1}
  BY SubmitsKept
<1>2. ASSUME NEW id \in Ids, id < nextId, NEW t \in Sessions,
             reader[t].id # id, id \notin Waiting(t)
      PROVE  reader'[t].id # id /\ id \notin Waiting(t)'
  <2>1. reader'[t].id \in {reader[t].id, 0, nextId}
    BY ReaderId
  <2>2. reader'[t].id # id
    BY <1>0, <1>2, <2>1 DEF Ids
  <2>3. id \notin Waiting(t)'
    BY <1>2, WaitingFrame
  <2>4. QED
    BY <2>2, <2>3
<1>3. ASSUME NEW s \in Sessions, ReplaceForget(s)
      PROVE  /\ Old(s) \in Ids /\ Old(s) < nextId
             /\ \A t \in Sessions : reader[t].id # Old(s) /\ Old(s) \notin Waiting(t)
  <2> DEFINE id == Old(s)
  <2>1. reader[s].pc = "forget"
    BY <1>3 DEF ReplaceForget
  <2>2. id # None /\ id \notin Waiting(s) /\ reader[s].key \in SubmitKeys
    BY <2>1 DEF SupersedingSound, ReaderSound
  <2>3. id \in Ids /\ submits[id].session = s /\ submits[id].ok
    BY <1>0, <2>2 DEF LastIsNewestAccepted, Old
  <2>4. id < nextId
    BY <1>0, <2>3, NoneAssumption DEF FutureUnused, Owner, Ids
  <2>5. reader[s].id # id
    BY <2>1, <2>3 DEF ReaderSound
  <2>6. ASSUME NEW t \in Sessions, t # s
        PROVE  reader[t].id # id /\ id \notin Waiting(t)
    <3>1. reader[t].id # id
      BY <2>3, <2>6 DEF ReaderSound, Owner, Ids
    <3>2. id \notin Waiting(t)
      BY <2>3, <2>6 DEF EntriesSound, Owner
    <3>3. QED
      BY <3>1, <3>2
  <2>7. QED
    BY <2>2, <2>3, <2>4, <2>5, <2>6
<1>4. ASSUME NEW id \in replaced'
      PROVE  /\ id \in Ids /\ id < nextId
             /\ \A s \in Sessions : reader[s].id # id /\ id \notin Waiting(s)
  <2>1. CASE id \in replaced
    BY <1>0, <2>1 DEF ReplacedGone
  <2>2. ASSUME NEW s \in Sessions, ReaderStep(s), ~ReplaceForget(s)
        PROVE  replaced' = replaced
    BY <2>2 DEF ReaderStep, Submit, SubmitHeld, HandleSubmit, ReaderExits, ReplaceLoad,
       ReplaceDelete, ReplaceUnroute, EnterHandler, LeaveHandler,
       StorePending, RegisterRoute, FinishSubmit, history
  <2>3. CASE id \notin replaced
    <3>1. PICK s \in Sessions : ReplaceForget(s)
      BY <1>4, <2>2, <2>3, ReaderFrame
    <3>2. id = Old(s)
      BY <1>4, <2>3, <3>1 DEF ReplaceForget
    <3>3. QED
      BY <1>3, <3>1, <3>2
  <2>4. QED
    BY <2>1, <2>3
<1>5. ASSUME NEW id \in replaced'
      PROVE  id < nextId'
  <2>1. id \in Ids /\ id < nextId
    BY <1>4, <1>5
  <2>2. QED
    BY <1>0, <1>1, <2>1 DEF Ids
<1>6. QED
  BY <1>2, <1>4, <1>5 DEF ReplacedGone


\* An id the application has been given belongs to a session, and stays so.
LEMMA KnownStep ==
    ASSUME TypeOK, ReaderSound, KnownGenerated, Next
    PROVE  KnownGenerated' /\ known \subseteq known'
<1>0. nextId \in 1 .. MaxId + 1 /\ MaxId \in Nat /\ known \subseteq Ids
  BY MaxIdAssumption DEF TypeOK
<1>1. known' = known \/ \E s \in Sessions : EnterHandler(s)
  <2>1. ASSUME NEW s \in Sessions, ReaderStep(s), ~EnterHandler(s)
        PROVE  known' = known
    BY <2>1 DEF ReaderStep, Submit, SubmitHeld, HandleSubmit, ReaderExits, ReplaceLoad,
       ReplaceDelete, ReplaceUnroute, ReplaceForget, LeaveHandler, StorePending,
       RegisterRoute, FinishSubmit, history
  <2>2. QED
    BY <2>1, ReaderFrame
<1>2. ASSUME NEW id \in Ids, id < nextId, submits[id].session \in Sessions
      PROVE  id < nextId' /\ submits'[id].session \in Sessions
  <2>1. submits'[id].session = submits[id].session /\ nextId' \in {nextId, nextId + 1}
    BY <1>2, SubmitsKept
  <2>2. QED
    BY <1>0, <1>2, <2>1 DEF Ids
<1>3. ASSUME NEW s \in Sessions, EnterHandler(s)
      PROVE  /\ known' = known \union {reader[s].id}
             /\ reader[s].id \in Ids /\ reader[s].id < nextId
             /\ submits[reader[s].id].session \in Sessions
  BY <1>0, <1>3 DEF EnterHandler, ReaderSound, Owner, Ids
<1>4. ASSUME NEW id \in known'
      PROVE  id \in Ids /\ id < nextId /\ submits[id].session \in Sessions
  BY <1>0, <1>1, <1>3, <1>4 DEF KnownGenerated, Owner
<1>5. QED
  BY <1>1, <1>2, <1>3, <1>4 DEF KnownGenerated, Owner

\* Reports stay tied to their session, and none about a superseded message gets
\* past the lookup of its entry.
LEMMA ReportsStep ==
    ASSUME TypeOK, ReaderSound, FutureUnused, EntriesSound, ReplacedGone,
           KnownGenerated, ReportsSound, Next
    PROVE  ReportsSound'
<1> DEFINE Sound(j) == j.pc # "idle" =>
        /\ j.id \in known
        /\ j.session = submits[j.id].session
        /\ j.late => j.id \in replaced
        /\ j.pc \in {"send", "queue"} =>
               /\ ~j.late
               /\ submits[j.id].wanted
               /\ ShouldSendDeliveryReceipt(submits[j.id].rd, j.success)
       SoundNext(j) == j.pc # "idle" =>
        /\ j.id \in known'
        /\ j.session = submits'[j.id].session
        /\ j.late => j.id \in replaced'
        /\ j.pc \in {"send", "queue"} =>
               /\ ~j.late
               /\ submits'[j.id].wanted
               /\ ShouldSendDeliveryReceipt(submits'[j.id].rd, j.success)
<1>0. /\ job \in [Reporters -> Job]
      /\ pending \in [Sessions -> Entries]
      /\ known \subseteq Ids
  BY DEF TypeOK
<1>1. ASSUME NEW r \in Reporters
      PROVE  Sound(job[r])
  BY <1>1 DEF ReportsSound, Owner
<1>2. ASSUME NEW j, Sound(j)
      PROVE  SoundNext(j)
  <2>1. CASE j.pc = "idle"
    BY <2>1
  <2>2. CASE j.pc # "idle"
    <3>1. /\ j.id \in known /\ j.session = submits[j.id].session
          /\ j.late => j.id \in replaced
          /\ j.pc \in {"send", "queue"} =>
               /\ ~j.late
               /\ submits[j.id].wanted
               /\ ShouldSendDeliveryReceipt(submits[j.id].rd, j.success)
      BY <1>2, <2>2
    <3>2. j.id \in Ids /\ j.id < nextId
      BY <1>0, <3>1 DEF KnownGenerated
    <3>3. /\ submits'[j.id].session = submits[j.id].session
          /\ submits'[j.id].wanted = submits[j.id].wanted
          /\ submits'[j.id].rd = submits[j.id].rd
      BY <3>2, SubmitsKept
    <3>4. known \subseteq known'
      BY KnownStep
    <3>5. replaced \subseteq replaced'
      <4>1. ASSUME NEW s \in Sessions, ReaderStep(s)
            PROVE  replaced \subseteq replaced'
        BY <4>1 DEF ReaderStep, Submit, SubmitHeld, HandleSubmit, ReaderExits,
           ReplaceLoad, ReplaceDelete, ReplaceUnroute, ReplaceForget, EnterHandler,
           LeaveHandler, StorePending, RegisterRoute, FinishSubmit, history
      <4>2. QED
        BY <4>1, ReaderFrame
    <3>6. ShouldSendDeliveryReceipt(submits'[j.id].rd, j.success)
            = ShouldSendDeliveryReceipt(submits[j.id].rd, j.success)
      BY <3>3
    <3>7. QED
      BY <3>1, <3>3, <3>4, <3>5, <3>6
  <2>3. QED
    BY <2>1, <2>2
<1>3. ASSUME NEW r \in Reporters, NEW t \in Reporters,
             (\E id \in Ids, success \in BOOLEAN : BeginReport(r, id, success)) \/ Report(r)
      PROVE  Sound(job'[t])
  <2>1. CASE t # r
    <3>1. job'[t] = job[t]
      BY <1>0, <1>3, <2>1 DEF BeginReport, Report, LoadPending, CheckSend, SendReceipt,
         SendFails, RemoveLoad, RemoveDelete, RemoveUnroute, Enter, Step
    <3>2. QED
      BY <1>1, <3>1
  <2>2. ASSUME NEW id, NEW success, BeginReport(r, id, success)
        PROVE  Sound(job'[r])
    BY <1>0, <2>2 DEF BeginReport, Owner
  <2>3. ASSUME NEW pc, job' = Enter(r, pc) \/ job' = Step(r, pc), job[r].pc # "idle",
               pc \notin {"send", "queue"} \/ job[r].pc \in {"send", "queue"}
        PROVE  Sound(job'[r])
    <3>1. Sound(job[r])
      BY <1>1
    <3>2. CASE job'[r].pc = "idle"
      BY <3>2
    <3>3. CASE job'[r].pc # "idle"
      <4>1. job[r] \in Job
        BY <1>0
      <4>2. job'[r] = [job[r] EXCEPT !.pc = pc]
        BY <1>0, <2>3, <3>3 DEF Enter, Step, NoJob
      <4>3. /\ job'[r].pc = pc /\ job'[r].id = job[r].id
            /\ job'[r].session = job[r].session /\ job'[r].late = job[r].late
            /\ job'[r].success = job[r].success
        BY <4>1, <4>2
      <4>4. QED
        BY <2>3, <3>1, <4>3
    <3>4. QED
      BY <3>2, <3>3
  <2>4. ASSUME LoadPending(r)
        PROVE  Sound(job'[r])
    <3>1. job' = Enter(r, AfterLoad(job[r])) /\ job[r].pc = "load"
      BY <2>4 DEF LoadPending
    <3>2. CASE AfterLoad(job[r]) # "send"
      <4>1. AfterLoad(job[r]) \notin {"send", "queue"}
        BY <3>2 DEF AfterLoad
      <4>2. QED
        BY <2>3, <3>1, <4>1
    <3>3. CASE AfterLoad(job[r]) = "send"
      <4> DEFINE id == job[r].id
                 s == job[r].session
      <4>1. id \in Waiting(s) /\ ShouldSendDeliveryReceipt(pending[s][id], job[r].success)
        BY <3>3 DEF AfterLoad
      <4>2. /\ id \in known /\ s = submits[id].session /\ s \in Sessions
            /\ job[r].late => id \in replaced
        BY <1>1, <3>1 DEF KnownGenerated, Owner
      <4>3. submits[id].wanted /\ pending[s][id] = submits[id].rd
        BY <4>1, <4>2 DEF EntriesSound
      <4>4. ~job[r].late
        BY <4>1, <4>2 DEF ReplacedGone
      <4>5. job[r] \in Job
        BY <1>0
      <4>6. job'[r] = [job[r] EXCEPT !.pc = "send"]
        BY <1>0, <3>1, <3>3 DEF Enter
      <4>7. /\ job'[r].id = id /\ job'[r].session = s
            /\ job'[r].late = job[r].late /\ job'[r].success = job[r].success
        BY <4>5, <4>6
      <4>8. ShouldSendDeliveryReceipt(submits[id].rd, job[r].success)
        BY <4>1, <4>3
      <4> HIDE DEF id, s
      <4>9. QED
        BY <4>2, <4>3, <4>4, <4>7, <4>8
    <3>4. QED
      BY <3>2, <3>3
  <2>5. ASSUME CheckSend(r)
        PROVE  Sound(job'[r])
    BY <2>3, <2>5 DEF CheckSend
  <2>6. ASSUME SendReceipt(r)
        PROVE  Sound(job'[r])
    BY <2>3, <2>6 DEF SendReceipt
  <2>7. ASSUME SendFails(r)
        PROVE  Sound(job'[r])
    BY <2>3, <2>7 DEF SendFails
  <2>8. ASSUME RemoveLoad(r)
        PROVE  Sound(job'[r])
    <3>1. AfterRemoveLoad(job[r]) \notin {"send", "queue"}
      BY DEF AfterRemoveLoad
    <3>2. QED
      BY <2>3, <2>8, <3>1 DEF RemoveLoad
  <2>9. ASSUME RemoveDelete(r)
        PROVE  Sound(job'[r])
    BY <2>3, <2>9 DEF RemoveDelete
  <2>10. ASSUME RemoveUnroute(r)
         PROVE  Sound(job'[r])
    BY <2>3, <2>10 DEF RemoveUnroute
  <2>11. QED
    BY <1>3, <2>1, <2>2, <2>4, <2>5, <2>6, <2>7, <2>8, <2>9, <2>10 DEF Report
<1>4. ASSUME NEW t \in Reporters
      PROVE  Sound(job'[t])
  BY <1>1, <1>3, <1>4, ReportFrame
<1>5. ASSUME NEW t \in Reporters
      PROVE  SoundNext(job'[t])
  BY <1>2, <1>4, <1>5
<1>6. QED
  BY <1>5 DEF ReportsSound, Owner

\* What will be superseded next is still the newest accepted submit of its key.
LEMMA LastStep ==
    ASSUME TypeOK, ReaderSound, FutureUnused, LastIsNewestAccepted, Next
    PROVE  LastIsNewestAccepted'
<1> SUFFICES ASSUME NEW t \in Sessions, NEW k \in SubmitKeys, last'[t][k] # None
             PROVE  /\ last'[t][k] \in Ids
                    /\ submits'[last'[t][k]].session = t
                    /\ submits'[last'[t][k]].key = k
                    /\ submits'[last'[t][k]].ok
                    /\ \A i \in Ids : /\ submits'[i].session = t /\ submits'[i].key = k
                                      /\ i > last'[t][k]
                          => ~submits'[i].ok \/ reader'[t].id = i
  BY DEF LastIsNewestAccepted
<1>0. /\ nextId \in 1 .. MaxId + 1 /\ MaxId \in Nat
      /\ submits \in [Ids -> Submitted]
      /\ last \in [Sessions -> [SubmitKeys -> Ids \union {None}]]
      /\ reader = [s \in Sessions |-> reader[s]]
  BY MaxIdAssumption DEF TypeOK
<1>1. CASE last'[t][k] = last[t][k]
  <2> DEFINE id == last[t][k]
  <2>1. /\ id \in Ids /\ submits[id].session = t /\ submits[id].key = k /\ submits[id].ok
        /\ \A i \in Ids : submits[i].session = t /\ submits[i].key = k /\ i > id
              => ~submits[i].ok \/ reader[t].id = i
    BY <1>0, <1>1 DEF LastIsNewestAccepted
  <2>2. id < nextId
    BY <1>0, <2>1, NoneAssumption DEF FutureUnused, Owner, Ids
  <2>3. submits'[id].session = t /\ submits'[id].key = k
    BY <2>1, <2>2, SubmitsKept
  <2>4. submits'[id].ok
    <3>1. ASSUME NEW s \in Sessions, reader[s].pc = "handling", reader[s].id = id
          PROVE  FALSE
      BY <2>1, <3>1 DEF ReaderSound
    <3>2. submits'[id].ok = submits[id].ok
      BY <2>1, <2>2, <3>1, SubmitsKept
    <3>3. QED
      BY <2>1, <3>2
  <2>5. ASSUME NEW i \in Ids, submits'[i].session = t, submits'[i].key = k, i > id,
               submits'[i].ok
        PROVE  reader'[t].id = i
    <3>1. CASE i < nextId
      <4>1. submits[i].session = t /\ submits[i].key = k
        BY <2>5, <3>1, SubmitsKept
      <4>2. ASSUME ~submits[i].ok
            PROVE  reader[t].id = i /\ reader[t].pc = "handling"
        <5>1. PICK s \in Sessions : reader[s].pc = "handling" /\ reader[s].id = i
          BY <2>5, <3>1, <4>2, SubmitsKept
        <5>2. submits[i].session = s
          BY <5>1 DEF ReaderSound, Owner
        <5>3. QED
          BY <4>1, <5>1, <5>2
      <4>3. reader[t].id = i
        BY <2>1, <2>5, <4>1, <4>2
      <4>4. reader[t].pc \notin {"read", "exited"}
        BY <4>3 DEF ReaderSound, Ids
      <4>5. ASSUME FinishSubmit(t)
            PROVE  FALSE
        <5>1. /\ reader[t].pc = "finish" /\ last' = Recorded(t)
          BY <4>5 DEF FinishSubmit
        <5>2. submits[i].ok /\ reader[t].ok
          BY <4>2, <4>3, <5>1 DEF ReaderSound
        <5>3. reader[t].key = k
          BY <4>1, <4>3, <5>1 DEF ReaderSound
        <5>4. last'[t][k] = i
          BY <1>0, <4>3, <5>1, <5>2, <5>3 DEF Recorded
        <5>5. QED
          BY <1>1, <2>1, <2>5, <5>4 DEF Ids
      <4>6. QED
        BY <4>3, <4>4, <4>5, ReaderId
    <3>2. CASE i >= nextId
      <4>1. submits[i].session # t
        BY <3>2, NoneAssumption DEF FutureUnused, Owner
      <4>2. ASSUME NEW s \in Sessions, NEW rd, NEW wanted, NEW key, NEW replace,
                   Submit(s, rd, wanted, key, replace)
            PROVE  FALSE
        <5>1. /\ submits' = [submits EXCEPT ![nextId] =
                     [session |-> s, rd |-> rd, wanted |-> wanted, key |-> key,
                      ok |-> FALSE]]
          BY <4>2 DEF Submit
        <5>2. CASE i = nextId
          BY <1>0, <2>5, <5>1, <5>2
        <5>3. CASE i # nextId
          BY <1>0, <2>5, <4>1, <5>1, <5>3
        <5>4. QED
          BY <5>2, <5>3
      <4>3. ASSUME NEW s \in Sessions, NEW ok, LeaveHandler(s, ok)
            PROVE  FALSE
        <5>1. submits' = [submits EXCEPT ![reader[s].id].ok = ok]
          BY <4>3 DEF LeaveHandler
        <5>2. submits'[i].session = submits[i].session
          BY <1>0, <5>1
        <5>3. QED
          BY <2>5, <4>1, <5>2
      <4>4. QED
        BY <2>5, <4>1, <4>2, <4>3, SubmitsFrame
    <3>3. QED
      BY <1>0, <3>1, <3>2 DEF Ids
  <2>6. QED
    BY <1>1, <2>1, <2>3, <2>4, <2>5
<1>2. CASE last'[t][k] # last[t][k]
  <2>1. ReaderStep(t)
    BY <1>2, OwnReader
  <2>2. ~ReplaceForget(t)
    <3>1. ASSUME ReplaceForget(t)
          PROVE  FALSE
      <4>1. last' = [last EXCEPT ![t][reader[t].key] = None]
        BY <3>1 DEF ReplaceForget
      <4>2. last'[t][k] \in {last[t][k], None}
        BY <1>0, <4>1
      <4>3. QED
        BY <1>2, <4>2
    <3>2. QED
      BY <3>1
  <2>3. FinishSubmit(t)
    BY <1>2, <2>1, <2>2 DEF ReaderStep, Submit, SubmitHeld, HandleSubmit, ReaderExits,
       ReplaceLoad, ReplaceDelete, ReplaceUnroute, EnterHandler, LeaveHandler,
       StorePending, RegisterRoute, maps
  <2>4. /\ reader[t].pc = "finish" /\ last' = Recorded(t) /\ submits' = submits
    BY <2>3 DEF FinishSubmit, history
  <2>5. reader[t].ok /\ reader[t].key = k /\ last'[t][k] = reader[t].id
    <3>1. reader[t].ok
      BY <1>2, <2>4 DEF Recorded
    <3>2. last' = [last EXCEPT ![t][reader[t].key] = reader[t].id]
      BY <2>4, <3>1 DEF Recorded
    <3>3. reader[t].key = k
      BY <1>0, <1>2, <3>2
    <3>4. QED
      BY <1>0, <3>1, <3>2, <3>3
  <2>6. /\ reader[t].id \in Ids /\ submits[reader[t].id].session = t
        /\ submits[reader[t].id].key = k /\ submits[reader[t].id].ok
        /\ \A i \in Ids : submits[i].session = t => i <= reader[t].id
    BY <1>0, <2>4, <2>5 DEF ReaderSound, Owner, Ids
  <2>7. ASSUME NEW i \in Ids, submits'[i].session = t, i > reader[t].id
        PROVE  FALSE
    BY <2>4, <2>6, <2>7 DEF Ids
  <2>8. QED
    BY <2>4, <2>5, <2>6, <2>7
<1>3. QED
  BY <1>1, <1>2

\* A receipt is queued for what is on record of its message, and stays justified.
LEMMA ReceiptStep ==
    ASSUME TypeOK, ReaderSound, FutureUnused, KnownGenerated, ReportsSound,
           ReceiptsObeyPolicy, NoReceiptAfterReplace, IsFiniteSet(receipts), Next
    PROVE  /\ ReceiptsObeyPolicy'
           /\ NoReceiptAfterReplace'
           /\ IsFiniteSet(receipts')
           /\ receipts' \subseteq [id : Ids, session : Sessions, success : BOOLEAN,
                                   late : BOOLEAN, nth : Nat]
<1> DEFINE T == [id : Ids, session : Sessions, success : BOOLEAN, late : BOOLEAN, nth : Nat]
           Policy(x) == /\ x.session = submits[x.id].session
                        /\ submits[x.id].wanted
                        /\ submits[x.id].rd % 4 \in (IF x.success THEN {1, 3} ELSE {1, 2})
           PolicyNext(x) == /\ x.session = submits'[x.id].session
                            /\ submits'[x.id].wanted
                            /\ submits'[x.id].rd % 4
                                  \in (IF x.success THEN {1, 3} ELSE {1, 2})
<1>0. receipts \subseteq T /\ job \in [Reporters -> Job] /\ known \subseteq Ids
  BY DEF TypeOK
<1>1. ASSUME NEW x \in T, Policy(x)
      PROVE  PolicyNext(x)
  <2>1. x.id \in Ids /\ x.session \in Sessions
    BY <1>1
  <2>2. x.id < nextId
    <3>1. submits[x.id].session \in Sessions
      BY <1>1, <2>1
    <3>2. x.id >= nextId => submits[x.id].session = None
      BY <2>1 DEF FutureUnused, Owner
    <3>3. nextId \in Nat /\ x.id \in Nat
      BY <2>1, MaxIdAssumption DEF TypeOK, Ids
    <3>4. QED
      BY <3>1, <3>2, <3>3, NoneAssumption
  <2>3. /\ submits'[x.id].session = submits[x.id].session
        /\ submits'[x.id].wanted = submits[x.id].wanted
        /\ submits'[x.id].rd = submits[x.id].rd
    BY <2>1, <2>2, SubmitsKept
  <2>4. QED
    BY <1>1, <2>3
<1>2. ASSUME NEW x \in receipts
      PROVE  x \in T /\ PolicyNext(x) /\ ~x.late
  <2>1. Policy(x) /\ ~x.late
    BY <1>2 DEF ReceiptsObeyPolicy, NoReceiptAfterReplace, Owner
  <2>2. x \in T
    BY <1>0, <1>2
  <2> HIDE DEF T, Policy, PolicyNext
  <2>3. QED
    BY <1>1, <2>1, <2>2
<1>3. ASSUME NEW r \in Reporters, SendReceipt(r)
      PROVE  \E x \in T : receipts' = receipts \union {x} /\ PolicyNext(x) /\ ~x.late
  <2> DEFINE j == job[r]
             n == 1 + Cardinality({y \in receipts : y.id = j.id})
             x == [id |-> j.id, session |-> j.session, success |-> j.success,
                   late |-> j.late, nth |-> n]
  <2>1. job[r].pc = "queue" /\ receipts' = receipts \union {x}
    BY <1>3 DEF SendReceipt
  <2>2. /\ job[r].id \in known
        /\ job[r].session = submits[job[r].id].session
        /\ ~job[r].late
        /\ submits[job[r].id].wanted
        /\ ShouldSendDeliveryReceipt(submits[job[r].id].rd, job[r].success)
    BY <2>1 DEF ReportsSound, Owner
  <2>3. job[r].id \in Ids /\ submits[job[r].id].session \in Sessions
    BY <1>0, <2>2 DEF KnownGenerated, Owner
  <2>4. job[r].success \in BOOLEAN /\ job[r].late \in BOOLEAN
    BY <1>0
  <2>5. Cardinality({y \in receipts : y.id = job[r].id}) \in Nat
    <3>1. IsFiniteSet({y \in receipts : y.id = job[r].id})
      BY FS_Subset
    <3>2. QED
      BY <3>1, FS_CardinalityType
  <2>6. x \in T
    BY <2>2, <2>3, <2>4, <2>5
  <2>7. Policy(x)
    BY <2>2 DEF ShouldSendDeliveryReceipt, ReceiptType
  <2>8. PolicyNext(x)
    <3> HIDE DEF x, T, Policy, PolicyNext
    <3>1. QED
      BY <1>1, <2>6, <2>7
  <2>9. ~x.late
    BY <2>2
  <2> HIDE DEF x, T, PolicyNext
  <2>10. QED
    BY <2>1, <2>6, <2>8, <2>9
<1>4. ASSUME NEW r \in Reporters,
             \/ \E id \in Ids, success \in BOOLEAN : BeginReport(r, id, success)
             \/ Report(r), ~SendReceipt(r)
      PROVE  receipts' = receipts
  BY <1>4 DEF BeginReport, Report, LoadPending, CheckSend, SendFails,
     RemoveLoad, RemoveDelete, RemoveUnroute, history
<1>5. \/ receipts' = receipts
      \/ \E x \in T : receipts' = receipts \union {x} /\ PolicyNext(x) /\ ~x.late
  <2> HIDE DEF T, PolicyNext
  <2>1. QED
    BY <1>3, <1>4, ReportFrame
<1>6. /\ IsFiniteSet(receipts')
      /\ \A x \in receipts' : x \in T /\ PolicyNext(x) /\ ~x.late
  <2> HIDE DEF T, PolicyNext
  <2>1. QED
    BY <1>2, <1>5, FS_AddElement
<1>7. QED
  BY <1>6 DEF ReceiptsObeyPolicy, NoReceiptAfterReplace, Owner

-----------------------------------------------------------------------------
(* Types. *)

\* The types of what only readers change.
LEMMA ReaderTypes ==
    ASSUME TypeOK, ReaderSound, LastIsNewestAccepted, SupersedingSound, Next
    PROVE  /\ nextId' \in 1 .. MaxId + 1
           /\ reader' \in [Sessions -> Work]
           /\ last' \in [Sessions -> [SubmitKeys -> Ids \union {None}]]
           /\ submits' \in [Ids -> Submitted]
           /\ known' \subseteq Ids /\ replaced' \subseteq Ids
<1> DEFINE Types == /\ nextId' \in 1 .. MaxId + 1
                    /\ reader' \in [Sessions -> Work]
                    /\ last' \in [Sessions -> [SubmitKeys -> Ids \union {None}]]
                    /\ submits' \in [Ids -> Submitted]
                    /\ known' \subseteq Ids
                    /\ replaced' \subseteq Ids
<1>0. /\ nextId \in 1 .. MaxId + 1 /\ MaxId \in Nat
      /\ reader \in [Sessions -> Work]
      /\ last \in [Sessions -> [SubmitKeys -> Ids \union {None}]]
      /\ submits \in [Ids -> Submitted]
      /\ known \subseteq Ids /\ replaced \subseteq Ids
  BY MaxIdAssumption DEF TypeOK
<1>1. CASE UNCHANGED <<nextId, reader, last, submits, known, replaced>>
  BY <1>0, <1>1
<1>2. ASSUME NEW s \in Sessions, NEW pc, reader' = Goto(s, pc),
             pc \in {"read", "delete", "unroute", "forget", "handle", "handling",
                     "register", "finish", "exited"}
      PROVE  reader' \in [Sessions -> Work]
  <2>1. reader' = [reader EXCEPT ![s] = [reader[s] EXCEPT !.pc = pc]]
    BY <1>0, <1>2 DEF Goto
  <2>2. [reader[s] EXCEPT !.pc = pc] \in Work
    BY <1>0, <1>2
  <2> HIDE DEF Work
  <2>3. QED
    BY <1>0, <2>1, <2>2
<1>3. ASSUME NEW s \in Sessions, reader[s].pc \notin {"read", "exited"}
      PROVE  reader[s].id \in Ids /\ reader[s].key \in SubmitKeys
  BY <1>0, <1>3 DEF ReaderSound, Ids
<1>4. ASSUME NEW s \in Sessions, NEW rd \in Octets, NEW wanted \in BOOLEAN,
             NEW k \in SubmitKeys, NEW replace \in BOOLEAN,
             Submit(s, rd, wanted, k, replace)
      PROVE  Types
  <2>1. nextId \in Ids /\ nextId' \in 1 .. MaxId + 1
    BY <1>0, <1>4 DEF Submit, Ids
  <2>2. [session |-> s, rd |-> rd, wanted |-> wanted, key |-> k, ok |-> FALSE] \in Submitted
    OBVIOUS
  <2>3. submits' \in [Ids -> Submitted]
    <3> HIDE DEF Submitted
    <3>1. QED
      BY <1>0, <1>4, <2>2 DEF Submit
  <2>4. FirstStep(s, k, replace) \in {"load", "handle"}
    BY DEF FirstStep
  <2>5. [pc |-> FirstStep(s, k, replace), id |-> nextId, rd |-> rd, wanted |-> wanted,
         key |-> k, replace |-> replace, ok |-> FALSE] \in Work
    BY <1>0, <2>1, <2>4 DEF Ids
  <2>6. reader' \in [Sessions -> Work]
    <3> HIDE DEF Work
    <3>1. QED
      BY <1>0, <1>4, <2>5 DEF Submit
  <2>7. UNCHANGED <<last, known, replaced>>
    BY <1>4 DEF Submit, maps
  <2>8. QED
    BY <1>0, <2>1, <2>3, <2>6, <2>7
<1>5. ASSUME NEW s \in Sessions, SubmitHeld(s)
      PROVE  Types
  <2>1. NextRead(s) \in {"read", "exited"}
    BY DEF NextRead
  <2>2. reader' \in [Sessions -> Work]
    BY <1>2, <1>5, <2>1 DEF SubmitHeld
  <2>3. nextId' \in 1 .. MaxId + 1 /\ UNCHANGED <<last, submits, known, replaced>>
    BY <1>0, <1>5 DEF SubmitHeld, maps, history, Ids
  <2>4. QED
    BY <1>0, <2>2, <2>3
<1>6. ASSUME NEW s \in Sessions,
             \/ ReplaceLoad(s) \/ ReplaceDelete(s) \/ ReplaceUnroute(s)
             \/ RegisterRoute(s) \/ ReaderExits(s)
      PROVE  Types
  <2>1. UNCHANGED <<nextId, last, submits, known, replaced>>
    BY <1>6 DEF ReplaceLoad, ReplaceDelete, ReplaceUnroute, RegisterRoute, ReaderExits,
       maps, history
  <2>2. reader' \in [Sessions -> Work]
    <3>1. AfterReplaceLoad(s) \in {"delete", "forget"}
      BY DEF AfterReplaceLoad
    <3>2. QED
      BY <1>2, <1>6, <3>1 DEF ReplaceLoad, ReplaceDelete, ReplaceUnroute, RegisterRoute,
         ReaderExits
  <2>3. QED
    BY <1>0, <2>1, <2>2
<1>7. ASSUME NEW s \in Sessions, ReplaceForget(s)
      PROVE  Types
  <2>1. reader' \in [Sessions -> Work]
    BY <1>2, <1>7 DEF ReplaceForget
  <2>2. Old(s) \in Ids
    <3>1. reader[s].key \in SubmitKeys /\ Old(s) # None
      BY <1>3, <1>7 DEF ReplaceForget, SupersedingSound
    <3>2. QED
      BY <1>0, <3>1 DEF Old
  <2>3. replaced' \subseteq Ids
    BY <1>0, <1>7, <2>2 DEF ReplaceForget
  <2>4. last' \in [Sessions -> [SubmitKeys -> Ids \union {None}]]
    BY <1>0, <1>7 DEF ReplaceForget
  <2>5. UNCHANGED <<nextId, submits, known>>
    BY <1>7 DEF ReplaceForget
  <2>6. QED
    BY <1>0, <2>1, <2>3, <2>4, <2>5
<1>8. ASSUME NEW s \in Sessions, EnterHandler(s) \/ StorePending(s)
      PROVE  Types
  <2>1. reader' \in [Sessions -> Work]
    BY <1>2, <1>8 DEF EnterHandler, StorePending
  <2>2. reader[s].id \in Ids
    BY <1>3, <1>8 DEF EnterHandler, StorePending
  <2>3. /\ UNCHANGED <<nextId, last, submits, replaced>>
        /\ known' \in {known, known \union {reader[s].id}}
    BY <1>8 DEF EnterHandler, StorePending, maps
  <2>4. QED
    BY <1>0, <2>1, <2>2, <2>3
<1>9. ASSUME NEW s \in Sessions, NEW ok \in BOOLEAN, LeaveHandler(s, ok)
      PROVE  Types
  <2> DEFINE w == [reader[s] EXCEPT !.ok = ok,
                       !.pc = IF reader[s].wanted THEN "store" ELSE "finish"]
  <2>1. reader[s].id \in Ids
    BY <1>3, <1>9 DEF LeaveHandler
  <2>2. /\ reader' = [reader EXCEPT ![s] = w]
        /\ submits' = [submits EXCEPT ![reader[s].id] = [submits[reader[s].id] EXCEPT !.ok = ok]]
        /\ UNCHANGED <<nextId, last, known, replaced>>
    BY <1>0, <1>9, <2>1 DEF LeaveHandler, maps
  <2>3. w \in Work
    <3> DEFINE pc == IF reader[s].wanted THEN "store" ELSE "finish"
    <3>1. reader[s] \in Work /\ w = [[reader[s] EXCEPT !.ok = ok] EXCEPT !.pc = pc]
      BY <1>0
    <3>2. [reader[s] EXCEPT !.ok = ok] \in Work
      BY <3>1
    <3>3. pc \in {"store", "finish"}
      OBVIOUS
    <3> HIDE DEF w, pc
    <3>4. QED
      BY <3>1, <3>2, <3>3
  <2>4. [submits[reader[s].id] EXCEPT !.ok = ok] \in Submitted
    BY <1>0, <2>1
  <2> HIDE DEF w, Work, Submitted
  <2>5. QED
    BY <1>0, <2>1, <2>2, <2>3, <2>4
<1>10. ASSUME NEW s \in Sessions, FinishSubmit(s)
       PROVE  Types
  <2> DEFINE w == [NoSubmit EXCEPT !.pc = NextRead(s)]
  <2>1. w \in Work
    <3>1. NextRead(s) \in {"read", "exited"} /\ 0 \in 0 .. MaxId
      BY <1>0 DEF NextRead
    <3>2. QED
      BY <3>1 DEF NoSubmit
  <2>2. reader' \in [Sessions -> Work]
    <3> HIDE DEF Work
    <3>1. QED
      BY <1>0, <1>10, <2>1 DEF FinishSubmit
  <2>3. reader[s].id \in Ids
    BY <1>3, <1>10 DEF FinishSubmit
  <2>4. last' \in [Sessions -> [SubmitKeys -> Ids \union {None}]]
    BY <1>0, <1>10, <2>3 DEF FinishSubmit, Recorded
  <2>5. UNCHANGED <<nextId, submits, known, replaced>>
    BY <1>10 DEF FinishSubmit, history
  <2>6. QED
    BY <1>0, <2>2, <2>4, <2>5
<1>11. ASSUME NEW s \in Sessions, ReaderStep(s)
       PROVE  Types
  <2> HIDE DEF Types
  <2>1. QED
    BY <1>4, <1>5, <1>6, <1>7, <1>8, <1>9, <1>10, <1>11 DEF ReaderStep, HandleSubmit
<1>12. QED
  BY <1>1, <1>11, ReaderFrame

\* The types of the route cache.
LEMMA RouteTypes ==
    ASSUME TypeOK, Next
    PROVE  route' \in [Ids -> Sessions \union {None}]
<1>0. route \in [Ids -> Sessions \union {None}]
  BY DEF TypeOK
<1>1. ASSUME NEW s \in Sessions, ReaderStep(s)
      PROVE  \/ route' = route
             \/ \E id : \E u \in Sessions \union {None} : route' = [route EXCEPT ![id] = u]
  BY <1>1 DEF ReaderStep, Submit, SubmitHeld, HandleSubmit, ReaderExits, ReplaceLoad,
     ReplaceDelete, ReplaceUnroute, ReplaceForget, EnterHandler, LeaveHandler,
     StorePending, RegisterRoute, FinishSubmit, maps
<1>2. ASSUME NEW s \in Sessions,
             \/ EvictSession(s) \/ StopCancels(s) \/ StopSession(s)
             \/ \E id \in Ids : ExpirePending(s, id)
      PROVE  route' = route \/ \E id : route' = [route EXCEPT ![id] = None]
  BY <1>2 DEF EvictSession, StopCancels, StopSession, StopUnbinds, StopUnroutes,
     StopDeletes, StopEnds, ExpirePending, maps
<1>3. ASSUME NEW r \in Reporters,
             \/ \E id \in Ids, success \in BOOLEAN : BeginReport(r, id, success)
             \/ Report(r)
      PROVE  route' = route \/ \E id : route' = [route EXCEPT ![id] = None]
  BY <1>3 DEF BeginReport, Report, LoadPending, CheckSend, SendReceipt, SendFails,
     RemoveLoad, RemoveDelete, RemoveUnroute, maps
<1>4. ASSUME TtlPasses
      PROVE  route' = [id \in Ids |-> None]
  BY <1>4 DEF TtlPasses
<1>5. ASSUME NEW id \in Ids, LoseRoute(id) \/ LookupStaleRoute(id)
      PROVE  route' = [route EXCEPT ![id] = None]
  BY <1>5 DEF LoseRoute, LookupStaleRoute
<1>6. QED
  BY <1>0, <1>1, <1>2, <1>3, <1>4, <1>5 DEF Next, ReaderStep

\* The types of what belongs to a session's end.
LEMMA SessionTypes ==
    ASSUME TypeOK, Next
    PROVE  /\ cached' \subseteq Sessions
           /\ stop' \in [Sessions -> {"no", "cancelled", "ranging", "done"}]
           /\ toVisit' \in [Sessions -> SUBSET Ids]
           /\ visiting' \in [Sessions -> Ids \union {None}]
<1>0. /\ cached \subseteq Sessions
      /\ stop \in [Sessions -> {"no", "cancelled", "ranging", "done"}]
      /\ toVisit \in [Sessions -> SUBSET Ids]
      /\ visiting \in [Sessions -> Ids \union {None}]
      /\ \A s \in Sessions : Waiting(s) \subseteq Ids
  <2>1. pending \in [Sessions -> Entries]
    BY DEF TypeOK
  <2>2. \A s \in Sessions : Waiting(s) \subseteq Ids
    BY <2>1, EntriesType DEF Waiting
  <2>3. QED
    BY <2>2 DEF TypeOK
<1>1. ASSUME NEW s \in Sessions, ReaderStep(s)
      PROVE  UNCHANGED sessionVars
  BY <1>1 DEF ReaderStep, Submit, SubmitHeld, HandleSubmit, ReaderExits, ReplaceLoad,
     ReplaceDelete, ReplaceUnroute, ReplaceForget, EnterHandler, LeaveHandler,
     StorePending, RegisterRoute, FinishSubmit
<1>2. ASSUME NEW s \in Sessions, EvictSession(s)
      PROVE  cached' \subseteq Sessions /\ UNCHANGED <<stop, toVisit, visiting>>
  BY <1>0, <1>2 DEF EvictSession
<1>3. ASSUME NEW s \in Sessions, StopCancels(s)
      PROVE  /\ stop' = [stop EXCEPT ![s] = "cancelled"]
             /\ UNCHANGED <<cached, toVisit, visiting>>
  BY <1>3 DEF StopCancels
<1>4. ASSUME NEW s \in Sessions, StopUnbinds(s)
      PROVE  /\ stop' = [stop EXCEPT ![s] = "ranging"]
             /\ toVisit' = [toVisit EXCEPT ![s] = Waiting(s)]
             /\ UNCHANGED <<cached, visiting>>
  BY <1>4 DEF StopUnbinds
<1>5. ASSUME NEW s \in Sessions, NEW id \in Ids, StopUnroutes(s, id)
      PROVE  /\ visiting' = [visiting EXCEPT ![s] = id]
             /\ UNCHANGED <<cached, stop, toVisit>>
  BY <1>5 DEF StopUnroutes
<1>6. ASSUME NEW s \in Sessions, StopDeletes(s)
      PROVE  /\ visiting' = [visiting EXCEPT ![s] = None]
             /\ UNCHANGED <<cached, stop, toVisit>>
  BY <1>6 DEF StopDeletes
<1>7. ASSUME NEW s \in Sessions, StopEnds(s)
      PROVE  /\ stop' = [stop EXCEPT ![s] = "done"]
             /\ toVisit' = [toVisit EXCEPT ![s] = {}]
             /\ UNCHANGED <<cached, visiting>>
  BY <1>7 DEF StopEnds
<1>8. ASSUME NEW s \in Sessions, \E id \in Ids : ExpirePending(s, id)
      PROVE  UNCHANGED sessionVars
  BY <1>8 DEF ExpirePending
<1>9. ASSUME NEW r \in Reporters,
             \/ \E id \in Ids, success \in BOOLEAN : BeginReport(r, id, success)
             \/ Report(r)
      PROVE  UNCHANGED sessionVars
  BY <1>9 DEF BeginReport, Report, LoadPending, CheckSend, SendReceipt, SendFails,
     RemoveLoad, RemoveDelete, RemoveUnroute
<1>10. ASSUME TtlPasses \/ \E id \in Ids : LoseRoute(id) \/ LookupStaleRoute(id)
       PROVE  UNCHANGED sessionVars
  BY <1>10 DEF TtlPasses, LoseRoute, LookupStaleRoute
<1>11. CASE UNCHANGED sessionVars
  BY <1>0, <1>11 DEF sessionVars
<1>12. CASE \E s \in Sessions :
               \/ EvictSession(s) \/ StopCancels(s) \/ StopUnbinds(s)
               \/ StopDeletes(s) \/ StopEnds(s)
               \/ \E id \in Ids : StopUnroutes(s, id)
  <2>1. PICK s \in Sessions : \/ EvictSession(s) \/ StopCancels(s) \/ StopUnbinds(s)
                              \/ StopDeletes(s) \/ StopEnds(s)
                              \/ \E id \in Ids : StopUnroutes(s, id)
    BY <1>12
  <2>2. CASE EvictSession(s)
    BY <1>0, <1>2, <2>2
  <2>3. CASE StopCancels(s)
    BY <1>0, <1>3, <2>3
  <2>4. CASE StopUnbinds(s)
    BY <1>0, <1>4, <2>4
  <2>5. CASE StopDeletes(s)
    BY <1>0, <1>6, <2>5
  <2>6. CASE StopEnds(s)
    BY <1>0, <1>7, <2>6
  <2>7. CASE \E id \in Ids : StopUnroutes(s, id)
    BY <1>0, <1>5, <2>7
  <2>8. QED
    BY <2>1, <2>2, <2>3, <2>4, <2>5, <2>6, <2>7
<1>13. QED
  BY <1>1, <1>8, <1>9, <1>10, <1>11, <1>12 DEF Next, ReaderStep, StopSession

\* The types of the reports in progress and of the aged entries.
LEMMA ReportTypes ==
    ASSUME TypeOK, KnownGenerated, Next
    PROVE  job' \in [Reporters -> Job] /\ aged' \subseteq Ids
<1>0. /\ job \in [Reporters -> Job] /\ aged \subseteq Ids /\ known \subseteq Ids
      /\ MaxId \in Nat
      /\ \A s \in Sessions : Waiting(s) \subseteq Ids
  <2>1. pending \in [Sessions -> Entries]
    BY DEF TypeOK
  <2>2. \A s \in Sessions : Waiting(s) \subseteq Ids
    BY <2>1, EntriesType DEF Waiting
  <2>3. QED
    BY <2>2, MaxIdAssumption DEF TypeOK
<1>1. aged' \subseteq Ids
  <2>1. CASE TtlPasses
    <3>1. aged' = UNION {Waiting(s) : s \in Sessions}
      BY <2>1 DEF TtlPasses
    <3>2. QED
      BY <1>0, <3>1
  <2>2. CASE ~TtlPasses
    <3>1. ASSUME NEW s \in Sessions, ReaderStep(s)
          PROVE  aged' = aged
      BY <3>1 DEF ReaderStep, Submit, SubmitHeld, HandleSubmit, ReaderExits, ReplaceLoad,
         ReplaceDelete, ReplaceUnroute, ReplaceForget, EnterHandler, LeaveHandler,
         StorePending, RegisterRoute, FinishSubmit
    <3>2. ASSUME NEW s \in Sessions,
                 \/ EvictSession(s) \/ StopCancels(s) \/ StopSession(s)
                 \/ \E id \in Ids : ExpirePending(s, id)
          PROVE  aged' = aged
      BY <3>2 DEF EvictSession, StopCancels, StopSession, StopUnbinds, StopUnroutes,
         StopDeletes, StopEnds, ExpirePending
    <3>3. ASSUME NEW r \in Reporters,
                 \/ \E id \in Ids, success \in BOOLEAN : BeginReport(r, id, success)
                 \/ Report(r)
          PROVE  aged' = aged
      BY <3>3 DEF BeginReport, Report, LoadPending, CheckSend, SendReceipt, SendFails,
         RemoveLoad, RemoveDelete, RemoveUnroute
    <3>4. ASSUME \E id \in Ids : LoseRoute(id) \/ LookupStaleRoute(id)
          PROVE  aged' = aged
      BY <3>4 DEF LoseRoute, LookupStaleRoute
    <3>5. aged' = aged
      BY <2>2, <3>1, <3>2, <3>3, <3>4 DEF Next, ReaderStep
    <3>6. QED
      BY <1>0, <3>5
  <2>3. QED
    BY <2>1, <2>2
<1>2. ASSUME NEW r \in Reporters, NEW j \in Job, job' = [job EXCEPT ![r] = j]
      PROVE  job' \in [Reporters -> Job]
  <2> HIDE DEF Job
  <2>1. QED
    BY <1>0, <1>2
<1>3. ASSUME NEW r \in Reporters,
             NEW pc \in {"idle", "load", "send", "queue", "remove", "delete", "unroute"},
             job' = Enter(r, pc) \/ job' = Step(r, pc)
      PROVE  job' \in [Reporters -> Job]
  <2>1. NoJob \in Job
    BY <1>0 DEF NoJob
  <2>2. [job[r] EXCEPT !.pc = pc] \in Job
    BY <1>0
  <2>3. \E j \in Job : job' = [job EXCEPT ![r] = j]
    <3> HIDE DEF Job
    <3>1. QED
      BY <1>0, <1>3, <2>1, <2>2 DEF Enter, Step
  <2>4. QED
    BY <1>2, <2>3
<1>4. ASSUME NEW r \in Reporters, NEW id \in Ids, NEW success \in BOOLEAN,
             BeginReport(r, id, success)
      PROVE  job' \in [Reporters -> Job]
  <2> DEFINE j == [pc |-> "load", id |-> id, session |-> Owner(id),
                   success |-> success, late |-> id \in replaced]
  <2>1. Owner(id) \in Sessions /\ id \in 0 .. MaxId
    BY <1>0, <1>4 DEF BeginReport, KnownGenerated, Ids
  <2>2. j \in Job
    BY <2>1
  <2>3. job' = [job EXCEPT ![r] = j]
    BY <1>4 DEF BeginReport
  <2>4. QED
    BY <1>2, <2>2, <2>3
<1>5. ASSUME NEW r \in Reporters, Report(r)
      PROVE  job' \in [Reporters -> Job]
  <2>1. AfterLoad(job[r]) \in {"idle", "send", "remove"}
    BY DEF AfterLoad
  <2>2. AfterRemoveLoad(job[r]) \in {"idle", "delete"}
    BY DEF AfterRemoveLoad
  <2>3. \E pc \in {"idle", "load", "send", "queue", "remove", "delete", "unroute"} :
            job' = Enter(r, pc) \/ job' = Step(r, pc)
    BY <1>5, <2>1, <2>2 DEF Report, LoadPending, CheckSend, SendReceipt, SendFails,
       RemoveLoad, RemoveDelete, RemoveUnroute
  <2>4. QED
    BY <1>3, <2>3
<1>6. QED
  BY <1>0, <1>1, <1>4, <1>5, ReportFrame

-----------------------------------------------------------------------------
(* The theorems. *)

\* The invariant holds at the start.
LEMMA InitIInv == Init => IInv
<1> SUFFICES ASSUME Init PROVE IInv
  OBVIOUS
<1>0. MaxId \in Nat
  BY MaxIdAssumption
<1>1. TypeOK
  <2>1. NoSubmit \in Work /\ NoJob \in Job
    BY <1>0 DEF NoSubmit, NoJob
  <2>2. [session |-> None, rd |-> 0, wanted |-> FALSE, key |-> None, ok |-> FALSE]
           \in Submitted
    OBVIOUS
  <2>3. [i \in {} |-> 0] \in Entries
    BY EntriesType
  <2> HIDE DEF Work, Job, Submitted
  <2>4. QED
    BY <1>0, <2>1, <2>2, <2>3 DEF Init, TypeOK
<1>2. \A s \in Sessions : Waiting(s) = {}
  BY DEF Init, Waiting
<1>3. \A s \in Sessions : reader[s].pc = "read" /\ reader[s].id = 0
  BY DEF Init, NoSubmit
<1>4. ReaderSound
  BY <1>3 DEF ReaderSound
<1>5. FutureUnused
  BY DEF Init, FutureUnused, Owner
<1>6. EntriesSound
  BY <1>2 DEF EntriesSound
<1>7. SupersedingSound
  BY <1>3 DEF SupersedingSound
<1>8. ReplacedGone /\ KnownGenerated
  BY DEF Init, ReplacedGone, KnownGenerated
<1>9. ReportsSound
  BY DEF Init, ReportsSound, NoJob
<1>10. LastIsNewestAccepted
  BY DEF Init, LastIsNewestAccepted
<1>11. ReceiptsObeyPolicy /\ NoReceiptAfterReplace
  BY DEF Init, ReceiptsObeyPolicy, NoReceiptAfterReplace
<1>12. IsFiniteSet(receipts)
  BY FS_EmptySet DEF Init
<1>13. QED
  BY <1>1, <1>4, <1>5, <1>6, <1>7, <1>8, <1>9, <1>10, <1>11, <1>12 DEF IInv

\* Every step keeps it.
LEMMA NextIInv == IInv /\ Next => IInv'
<1> SUFFICES ASSUME IInv, Next PROVE IInv'
  OBVIOUS
<1>1. /\ TypeOK /\ ReaderSound /\ FutureUnused /\ EntriesSound /\ SupersedingSound
      /\ ReplacedGone /\ KnownGenerated /\ ReportsSound /\ LastIsNewestAccepted
      /\ ReceiptsObeyPolicy /\ NoReceiptAfterReplace /\ IsFiniteSet(receipts)
  BY DEF IInv
<1>2. pending' \in [Sessions -> Entries]
  <2>1. CASE Sessions = {}
    <3>1. pending' = pending
      BY <2>1, <1>1, PendingFrame
    <3>2. QED
      BY <1>1, <3>1 DEF TypeOK
  <2>2. CASE Sessions # {}
    BY <1>1, <2>2, WaitingFrame
  <2>3. QED
    BY <2>1, <2>2
<1>3. /\ ReceiptsObeyPolicy' /\ NoReceiptAfterReplace' /\ IsFiniteSet(receipts')
      /\ receipts' \subseteq [id : Ids, session : Sessions, success : BOOLEAN,
                              late : BOOLEAN, nth : Nat]
  BY <1>1, ReceiptStep
<1>4. TypeOK'
  <2>1. /\ nextId' \in 1 .. MaxId + 1
        /\ reader' \in [Sessions -> Work]
        /\ last' \in [Sessions -> [SubmitKeys -> Ids \union {None}]]
        /\ submits' \in [Ids -> Submitted]
        /\ known' \subseteq Ids /\ replaced' \subseteq Ids
    BY <1>1, ReaderTypes
  <2>2. /\ cached' \subseteq Sessions
        /\ stop' \in [Sessions -> {"no", "cancelled", "ranging", "done"}]
        /\ toVisit' \in [Sessions -> SUBSET Ids]
        /\ visiting' \in [Sessions -> Ids \union {None}]
    BY <1>1, SessionTypes
  <2>3. route' \in [Ids -> Sessions \union {None}]
    BY <1>1, RouteTypes
  <2>4. job' \in [Reporters -> Job] /\ aged' \subseteq Ids
    BY <1>1, ReportTypes
  <2> HIDE DEF Work, Job, Submitted
  <2>5. QED
    BY <1>2, <1>3, <2>1, <2>2, <2>3, <2>4 DEF TypeOK
<1>5. ReaderSound' /\ FutureUnused' /\ EntriesSound'
  BY <1>1, ReaderStepSound, FutureStep, EntriesStep
<1>6. SupersedingSound' /\ ReplacedGone' /\ KnownGenerated'
  BY <1>1, SupersedingStep, ReplacedStep, KnownStep
<1>7. ReportsSound' /\ LastIsNewestAccepted'
  BY <1>1, ReportsStep, LastStep
<1>8. QED
  BY <1>3, <1>4, <1>5, <1>6, <1>7 DEF IInv

\* A step that changes nothing keeps it.
LEMMA StutterIInv == IInv /\ UNCHANGED vars => IInv'
<1> SUFFICES ASSUME IInv, UNCHANGED vars PROVE IInv'
  OBVIOUS
<1> USE DEF vars, maps, sessionVars, history
<1>1. TypeOK'
  BY DEF IInv, TypeOK
<1>2. ReaderSound' /\ FutureUnused' /\ ReplacedGone' /\ KnownGenerated'
  BY DEF IInv, ReaderSound, FutureUnused, ReplacedGone, KnownGenerated, Owner, Waiting
<1>3. EntriesSound' /\ SupersedingSound'
  BY DEF IInv, EntriesSound, SupersedingSound, Owner, Waiting, Old
<1>4. ReportsSound'
  BY DEF IInv, ReportsSound, Owner, ShouldSendDeliveryReceipt, ReceiptType
<1>5. LastIsNewestAccepted'
  BY DEF IInv, LastIsNewestAccepted
<1>6. ReceiptsObeyPolicy' /\ NoReceiptAfterReplace' /\ IsFiniteSet(receipts)'
  BY DEF IInv, ReceiptsObeyPolicy, NoReceiptAfterReplace, Owner
<1>7. QED
  BY <1>1, <1>2, <1>3, <1>4, <1>5, <1>6 DEF IInv

\* Whatever the readers, the reporters, the cleaner, the caches and Stop do to the
\* shared maps, what each of them has read and still means to act on stays true.
THEOREM Invariance == Spec => []IInv
<1>1. IInv /\ [Next]_vars => IInv'
  BY NextIInv, StutterIInv
<1>2. QED
  BY InitIInv, <1>1, PTL DEF Spec

\* Every variable keeps its type.
THEOREM TypeCorrect == Spec => []TypeOK
<1>1. IInv => TypeOK
  BY DEF IInv
<1>2. QED
  BY Invariance, <1>1, PTL

\* A receipt goes to the session that submitted its message, which wanted one, for
\* an outcome its registered_delivery asks about.
THEOREM PolicyObeyed == Spec => []ReceiptsObeyPolicy
<1>1. IInv => ReceiptsObeyPolicy
  BY DEF IInv
<1>2. QED
  BY Invariance, <1>1, PTL

\* A report begun after its message was superseded never sends a receipt.
THEOREM ReplacedStaysSilent == Spec => []NoReceiptAfterReplace
<1>1. IInv => NoReceiptAfterReplace
  BY DEF IInv
<1>2. QED
  BY Invariance, <1>1, PTL

\* replace_if_present supersedes the newest accepted submit of its key or nothing.
THEOREM NewestIsReplaced == Spec => []LastIsNewestAccepted
<1>1. IInv => LastIsNewestAccepted
  BY DEF IInv
<1>2. QED
  BY Invariance, <1>1, PTL

-----------------------------------------------------------------------------
(* An entry is stored once: the inductive invariants behind RoutesOutliveEntries, *)
(* AtMostOneReceipt and StopLeavesAtMostOne.                                       *)

\* No reader is still to store an entry under this id.
PastStore(id) ==
    \A s \in Sessions : reader[s].id = id => reader[s].pc \in {"register", "finish"}

\* So it is with every id in a map, and every id that a report has found in one.
StoredOnce ==
    /\ \A s \in Sessions : \A id \in Waiting(s) : PastStore(id)
    /\ \A r \in Reporters : job[r].pc \notin {"idle", "load"} => PastStore(job[r].id)
    /\ \A x \in receipts : PastStore(x.id)

\* A report drops a route only when the entry is gone, and gone for good.
UnroutedGone ==
    \A r \in Reporters : job[r].pc = "unroute" => job[r].id \notin Waiting(job[r].session)

\* What remains in the map of a session whose Stop has begun to look through it, other
\* than what Stop is to visit, is what the reader has stored since; and it stores no more.
Late(s) == Waiting(s) \ toVisit[s]
StopSound ==
    \A s \in Sessions :
        /\ stop[s] \in {"ranging", "done"} =>
              /\ reader[s].pc \notin {"register", "finish", "exited"} => Late(s) = {}
              /\ \E x \in Ids \union {None} : Late(s) \subseteq {x}
        /\ stop[s] = "done" => toVisit[s] = {}

LEMMA JobFrame ==
    ASSUME TypeOK, Next, NEW t \in Reporters
    PROVE  \/ job'[t] = job[t]
           \/ job'[t].pc \in {"idle", "load"}
           \/ /\ job[t].pc # "idle" /\ job'[t].pc # "load"
              /\ job'[t].id = job[t].id /\ job'[t].session = job[t].session
              /\ job[t].pc = "load" => job[t].id \in Waiting(job[t].session)
              /\ job'[t].pc = "unroute" => RemoveDelete(t)
              /\ job'[t].pc \in {"send", "queue"} => job[t].pc \in {"load", "send"}
<1>0. job \in [Reporters -> Job] /\ job[t] \in Job
  BY DEF TypeOK
<1>1. ASSUME NEW r \in Reporters,
             (\E id \in Ids, success \in BOOLEAN : BeginReport(r, id, success)) \/ Report(r),
             t # r
      PROVE  job'[t] = job[t]
  BY <1>0, <1>1 DEF BeginReport, Report, LoadPending, CheckSend, SendReceipt,
     SendFails, RemoveLoad, RemoveDelete, RemoveUnroute, Enter, Step
<1>2. ASSUME NEW id, NEW success, BeginReport(t, id, success)
      PROVE  job'[t].pc = "load"
  BY <1>0, <1>2 DEF BeginReport
<1>3. ASSUME NEW pc, job' = Enter(t, pc) \/ job' = Step(t, pc)
      PROVE  \/ job'[t].pc = "idle"
             \/ job'[t].pc = pc /\ job'[t].id = job[t].id /\ job'[t].session = job[t].session
  <2>1. CASE job' = Enter(t, "idle")
    BY <1>0, <2>1 DEF Enter, NoJob
  <2>2. CASE job'[t] = [job[t] EXCEPT !.pc = pc]
    BY <1>0, <2>2
  <2> QED
    BY <1>0, <1>3, <2>1, <2>2 DEF Enter, Step
<1>4. CASE LoadPending(t)
  <2>1. job[t].pc = "load" /\ job' = Enter(t, AfterLoad(job[t]))
    BY <1>4 DEF LoadPending
  <2>2. CASE AfterLoad(job[t]) = "idle"
    BY <1>0, <2>1, <2>2 DEF Enter, NoJob
  <2>3. CASE AfterLoad(job[t]) # "idle"
    <3>1. job[t].id \in Waiting(job[t].session) /\ AfterLoad(job[t]) \in {"send", "remove"}
      BY <2>3 DEF AfterLoad
    <3> QED
      BY <1>3, <2>1, <3>1
  <2> QED
    BY <2>2, <2>3
<1>5. CASE CheckSend(t) \/ SendReceipt(t) \/ SendFails(t)
  BY <1>3, <1>5 DEF CheckSend, SendReceipt, SendFails
<1>6. CASE RemoveLoad(t)
  <2>1. AfterRemoveLoad(job[t]) \in {"idle", "delete"}
    BY DEF AfterRemoveLoad
  <2> QED
    BY <1>3, <1>6, <2>1 DEF RemoveLoad
<1>7. CASE RemoveDelete(t) \/ RemoveUnroute(t)
  BY <1>3, <1>7 DEF RemoveDelete, RemoveUnroute
<1> QED
  BY <1>1, <1>2, <1>4, <1>5, <1>6, <1>7, ReportFrame DEF Report

\* What is past storing stays so: the reader goes on to other ids.
LEMMA PastStoreKept ==
    ASSUME TypeOK, ReaderSound, Next, NEW id \in Ids, id < nextId, PastStore(id)
    PROVE  PastStore(id)'
<1>0. nextId \in Nat /\ id \in Nat \ {0} /\ reader \in [Sessions -> Work]
  BY MaxIdAssumption DEF TypeOK, Ids
<1> SUFFICES ASSUME NEW t \in Sessions, reader'[t].id = id
             PROVE  reader'[t].pc \in {"register", "finish"}
  BY DEF PastStore
<1>1. reader'[t].id \in {reader[t].id, 0, nextId}
  BY ReaderId
<1>2. reader[t].id = id /\ reader[t].pc \in {"register", "finish"}
  BY <1>0, <1>1 DEF PastStore
<1>3. ASSUME ReaderStep(t)
      PROVE  RegisterRoute(t) \/ FinishSubmit(t)
  BY <1>2, <1>3 DEF ReaderStep, Submit, SubmitHeld, HandleSubmit, ReaderExits, ReplaceLoad,
     ReplaceDelete, ReplaceUnroute, ReplaceForget, EnterHandler, LeaveHandler,
     StorePending
<1>4. CASE RegisterRoute(t)
  BY <1>0, <1>4 DEF RegisterRoute, Goto
<1>5. CASE FinishSubmit(t)
  <2>1. reader'[t].id = 0
    BY <1>0, <1>5 DEF FinishSubmit, NoSubmit
  <2> QED
    BY <1>0, <2>1
<1>6. CASE reader'[t] = reader[t]
  BY <1>2, <1>6
<1> QED
  BY <1>3, <1>4, <1>5, <1>6, OwnReader

\* Ids in a map, in a report and with a receipt have been generated.
LEMMA Generated ==
    ASSUME IInv
    PROVE  /\ nextId \in Nat
           /\ \A s \in Sessions : \A id \in Waiting(s) : id \in Ids /\ id < nextId
           /\ \A r \in Reporters : job[r].pc # "idle" =>
                 job[r].id \in Ids /\ job[r].id < nextId /\ job[r].session \in Sessions
           /\ \A x \in receipts : x.id \in Ids /\ x.id < nextId /\ x.session \in Sessions
<1>0. nextId \in Nat /\ \A id \in Ids : id \in Nat
  BY MaxIdAssumption DEF IInv, TypeOK, Ids
<1>1. ASSUME NEW id \in Ids, Owner(id) \in Sessions
      PROVE  id < nextId
  BY <1>0, <1>1, NoneAssumption DEF IInv, FutureUnused
<1>2. ASSUME NEW s \in Sessions, NEW id \in Waiting(s)
      PROVE  id \in Ids /\ id < nextId
  <2>1. id \in Ids
    BY <1>2, EntriesType DEF IInv, TypeOK, Waiting
  <2> QED
    BY <1>1, <1>2, <2>1 DEF IInv, EntriesSound
<1>3. ASSUME NEW r \in Reporters, job[r].pc # "idle"
      PROVE  job[r].id \in Ids /\ job[r].id < nextId /\ job[r].session \in Sessions
  BY <1>3 DEF IInv, ReportsSound, KnownGenerated, TypeOK
<1>4. ASSUME NEW x \in receipts
      PROVE  x.id \in Ids /\ x.id < nextId /\ x.session \in Sessions
  <2>1. x.id \in Ids /\ x.session \in Sessions
    BY <1>4 DEF IInv, TypeOK
  <2> QED
    BY <1>1, <1>4, <2>1 DEF IInv, ReceiptsObeyPolicy
<1> QED
  BY <1>0, <1>2, <1>3, <1>4

\* Receipts are added by a report that is on its way to the queue.
LEMMA ReceiptsGrow ==
    ASSUME Next, NEW x \in receipts'
    PROVE  \/ x \in receipts
           \/ \E r \in Reporters :
                 /\ SendReceipt(r) /\ x.id = job[r].id /\ x.session = job[r].session
                 /\ x.nth = 1 + Cardinality({y \in receipts : y.id = x.id})
<1>1. ASSUME NEW r \in Reporters,
             \/ \E id \in Ids, success \in BOOLEAN : BeginReport(r, id, success)
             \/ Report(r), ~SendReceipt(r)
      PROVE  receipts' = receipts
  BY <1>1 DEF BeginReport, Report, LoadPending, CheckSend, SendFails,
     RemoveLoad, RemoveDelete, RemoveUnroute, history
<1>2. ASSUME NEW r \in Reporters, SendReceipt(r), x \notin receipts
      PROVE  /\ x.id = job[r].id /\ x.session = job[r].session
             /\ x.nth = 1 + Cardinality({y \in receipts : y.id = x.id})
  BY <1>2 DEF SendReceipt
<1> QED
  BY <1>1, <1>2, ReportFrame

\* A report acts on an id that was stored when it looked, and an id is stored once.
LEMMA StoredStep ==
    ASSUME IInv, StoredOnce, Next
    PROVE  StoredOnce'
<1>0. TypeOK /\ ReaderSound /\ KnownGenerated /\ ReportsSound
  BY DEF IInv
<1>1. ASSUME NEW t \in Sessions, NEW id \in Waiting(t)'
      PROVE  PastStore(id)'
  <2>1. CASE id \in Waiting(t)
    BY <1>0, <2>1, Generated, PastStoreKept DEF StoredOnce
  <2>2. CASE StorePending(t) /\ id = reader[t].id
    <3>1. /\ reader[t].pc = "store" /\ reader[t] \in Work
          /\ reader' = [reader EXCEPT ![t].pc = "register"]
          /\ reader \in [Sessions -> Work]
      BY <1>0, <2>2 DEF StorePending, Goto, TypeOK
    <3>2. Owner(id) = t
      BY <1>0, <2>2, <3>1 DEF ReaderSound
    <3>3. id \in Nat \ {0}
      BY <1>0, <2>2, <3>1, Generated DEF ReaderSound
    <3> SUFFICES ASSUME NEW s \in Sessions, reader'[s].id = id
                 PROVE  reader'[s].pc \in {"register", "finish"}
      BY DEF PastStore
    <3>4. CASE s = t
      BY <3>1, <3>4
    <3>5. CASE s # t
      <4>1. reader[s].id = id
        BY <3>1, <3>5
      <4>2. Owner(id) = s
        BY <1>0, <3>3, <4>1 DEF ReaderSound
      <4> QED
        BY <3>2, <3>5, <4>2
    <3> QED
      BY <3>4, <3>5
  <2> QED
    BY <1>0, <1>1, <2>1, <2>2, WaitingFrame
<1>2. ASSUME NEW r \in Reporters, job'[r].pc \notin {"idle", "load"}
      PROVE  PastStore(job[r].id)'
  <2>1. \/ job'[r] = job[r]
        \/ /\ job'[r].id = job[r].id /\ job[r].pc # "idle"
           /\ job[r].pc = "load" => job[r].id \in Waiting(job[r].session)
    BY <1>0, <1>2, JobFrame
  <2>2. job[r].id \in Ids /\ job[r].id < nextId /\ job[r].session \in Sessions
    BY <1>2, <2>1, Generated
  <2>3. PICK id \in Ids : id = job[r].id /\ id = job'[r].id
    BY <2>1, <2>2
  <2>4. id < nextId /\ PastStore(id)
    BY <1>2, <2>1, <2>2, <2>3 DEF StoredOnce
  <2>5. PastStore(id)'
    BY <1>0, <2>4, PastStoreKept
  <2> QED
    BY <2>3, <2>5 DEF PastStore
<1>3. ASSUME NEW x \in receipts'
      PROVE  PastStore(x.id)'
  <2>1. PICK id : id = x.id
    OBVIOUS
  <2>2. id \in Ids /\ id < nextId /\ PastStore(id)
    <3>1. CASE x \in receipts
      BY <2>1, <3>1, Generated DEF StoredOnce
    <3>2. ASSUME NEW r \in Reporters, SendReceipt(r), x.id = job[r].id
          PROVE  id \in Ids /\ id < nextId /\ PastStore(id)
      BY <2>1, <3>2, Generated DEF StoredOnce, SendReceipt
    <3> QED
      BY <3>1, <3>2, ReceiptsGrow
  <2>3. PastStore(id)'
    BY <1>0, <2>2, PastStoreKept
  <2> QED
    BY <2>1, <2>3
<1> QED
  BY <1>1, <1>2, <1>3 DEF StoredOnce

LEMMA UnroutedStep ==
    ASSUME IInv, StoredOnce, UnroutedGone, Next
    PROVE  UnroutedGone'
<1>0. TypeOK /\ ReaderSound /\ KnownGenerated /\ ReportsSound
  BY DEF IInv
<1> SUFFICES ASSUME NEW r \in Reporters, job'[r].pc = "unroute"
             PROVE  job'[r].id \notin DOMAIN pending'[job'[r].session]
  BY DEF UnroutedGone, Waiting
<1>1. CASE RemoveDelete(r) /\ job'[r].id = job[r].id /\ job'[r].session = job[r].session
  <2>1. job[r].session \in Sessions /\ pending \in [Sessions -> Entries]
    BY <1>0, <1>1, Generated DEF RemoveDelete, TypeOK
  <2>2. pending' = Without(job[r].session, job[r].id)
    BY <1>1 DEF RemoveDelete
  <2> QED
    BY <1>1, <2>1, <2>2, WithoutEntry
<1>2. CASE job'[r] = job[r]
  <2>1. job[r].session \in Sessions /\ job[r].id \notin Waiting(job[r].session)
    BY <1>2, Generated DEF UnroutedGone
  <2>2. PastStore(job[r].id)
    BY <1>2 DEF StoredOnce
  <2>3. PICK s \in Sessions, id \in {job[r].id} : s = job[r].session
    BY <2>1
  <2>4. ~(StorePending(s) /\ id = reader[s].id)
    BY <2>2, <2>3 DEF PastStore, StorePending
  <2>5. id \notin Waiting(s)'
    BY <1>0, <2>1, <2>3, <2>4, WaitingFrame
  <2> QED
    BY <1>2, <2>3, <2>5 DEF Waiting
<1> QED
  BY <1>0, <1>1, <1>2, JobFrame

\* Bookkeeping drops routes of ids without an entry, or of sessions that are stopped or
\* gone.
LEMMA RouteStep ==
    ASSUME IInv, UnroutedGone, Next,
           NEW s \in Sessions, NEW id \in Waiting(s),
           route[id] = s, route'[id] # s, stop[s] = "no", s \in cached
    PROVE  LoseRoute(id) \/ TtlPasses
<1>0. /\ route \in [Ids -> Sessions \union {None}] /\ id \in Ids
      /\ Owner(id) = s /\ ReaderSound /\ SupersedingSound /\ ReportsSound
  BY Generated DEF IInv, TypeOK, EntriesSound
<1>1. ASSUME NEW t \in Sessions, ReaderStep(t)
      PROVE  FALSE
  <2>1. CASE ReplaceUnroute(t)
    <3>1. reader[t].pc = "unroute" /\ Old(t) = id
      BY <1>0, <2>1 DEF ReplaceUnroute
    <3>2. Old(t) # None /\ Old(t) \notin Waiting(t) /\ reader[t].key \in SubmitKeys
      BY <1>0, <3>1 DEF SupersedingSound, ReaderSound
    <3>3. Owner(id) = t
      BY <3>1, <3>2 DEF IInv, LastIsNewestAccepted, Old, Owner
    <3> QED
      BY <1>0, <3>1, <3>2, <3>3
  <2>2. CASE RegisterRoute(t)
    <3>1. reader[t].id = id /\ reader[t].pc = "register" /\ t # s
      BY <1>0, <2>2 DEF RegisterRoute
    <3>2. Owner(id) = t
      BY <1>0, <3>1 DEF ReaderSound
    <3> QED
      BY <1>0, <3>1, <3>2
  <2>3. CASE route' = route
    BY <2>3
  <2> QED
    BY <1>1, <2>1, <2>2, <2>3 DEF ReaderStep, Submit, SubmitHeld, HandleSubmit,
       ReaderExits, ReplaceLoad, ReplaceDelete, ReplaceForget, EnterHandler, LeaveHandler,
       StorePending, FinishSubmit, maps
<1>2. ASSUME NEW t \in Sessions, NEW i \in Ids, StopUnroutes(t, i)
      PROVE  FALSE
  <2>1. i = id /\ stop[t] = "ranging" /\ i \in Waiting(t)
    BY <1>0, <1>2 DEF StopUnroutes
  <2>2. Owner(id) = t
    BY <2>1 DEF IInv, EntriesSound
  <2> QED
    BY <1>0, <2>1, <2>2
<1>3. ASSUME NEW r \in Reporters, RemoveUnroute(r)
      PROVE  FALSE
  <2>1. job[r].id = id /\ job[r].pc = "unroute"
    BY <1>0, <1>3 DEF RemoveUnroute
  <2>2. job[r].session = s
    BY <1>0, <2>1 DEF ReportsSound
  <2> QED
    BY <2>1, <2>2 DEF UnroutedGone
<1>4. ASSUME NEW i \in Ids, LookupStaleRoute(i)
      PROVE  FALSE
  BY <1>0, <1>4 DEF LookupStaleRoute
<1>5. ASSUME NEW i \in Ids, LoseRoute(i)
      PROVE  LoseRoute(id)
  <2>1. i = id
    BY <1>0, <1>5 DEF LoseRoute
  <2> QED
    BY <1>5, <2>1
<1>6. ASSUME NEW t \in Sessions,
             \/ EvictSession(t) \/ StopCancels(t) \/ StopUnbinds(t) \/ StopDeletes(t)
             \/ StopEnds(t)
             \/ \E i \in Ids : ExpirePending(t, i)
      PROVE  route' = route
  BY <1>6 DEF EvictSession, StopCancels, StopUnbinds, StopDeletes, StopEnds,
     ExpirePending, maps
<1>7. ASSUME NEW r \in Reporters,
             \/ \E i \in Ids, success \in BOOLEAN : BeginReport(r, i, success)
             \/ Report(r), ~RemoveUnroute(r)
      PROVE  route' = route
  BY <1>7 DEF BeginReport, Report, LoadPending, CheckSend, SendReceipt, SendFails,
     RemoveLoad, RemoveDelete, maps
<1> QED
  BY <1>1, <1>2, <1>3, <1>4, <1>5, <1>6, <1>7 DEF Next, ReaderStep, StopSession

\* With one reporter: an id that has had its receipt is in no map any more, or is
\* being removed, and no report is about to send another.
SentGone ==
    \A x \in receipts : \A r \in Reporters :
        /\ x.id \in Waiting(x.session) => job[r].pc \in {"remove", "delete"} /\ job[r].id = x.id
        /\ job[r].pc \in {"send", "queue"} => job[r].id # x.id

\* Once its context is cancelled, a reader that has stored its entry stores no other.
LEMMA ReaderLeaves ==
    ASSUME TypeOK, Next, NEW t \in Sessions, CtxDone(t),
           reader[t].pc \in {"register", "finish", "exited"}
    PROVE  reader'[t].pc \in {"register", "finish", "exited"}
<1>0. reader \in [Sessions -> Work] /\ reader[t] \in Work
  BY DEF TypeOK
<1>1. CASE ReaderStep(t)
  <2>1. RegisterRoute(t) \/ FinishSubmit(t)
    BY <1>1 DEF ReaderStep, Submit, SubmitHeld, HandleSubmit, ReaderExits, ReplaceLoad,
       ReplaceDelete, ReplaceUnroute, ReplaceForget, EnterHandler, LeaveHandler, StorePending
  <2>2. CASE RegisterRoute(t)
    BY <1>0, <2>2 DEF RegisterRoute, Goto
  <2>3. CASE FinishSubmit(t)
    <3>1. reader'[t] = [NoSubmit EXCEPT !.pc = "exited"]
      BY <1>0, <2>3 DEF FinishSubmit, NextRead
    <3> QED
      BY <3>1 DEF NoSubmit
  <2> QED
    BY <2>1, <2>2, <2>3
<1>2. CASE reader'[t] = reader[t]
  BY <1>2
<1> QED
  BY <1>1, <1>2, OwnReader

\* How far a session's Stop is changes with it alone.
LEMMA StopFrame ==
    ASSUME TypeOK, Next, NEW t \in Sessions
    PROVE  \/ stop'[t] = stop[t] /\ toVisit'[t] = toVisit[t]
           \/ stop'[t] = "cancelled"
           \/ /\ stop'[t] = "ranging" /\ toVisit'[t] = Waiting(t)
              /\ UNCHANGED <<pending, reader>>
           \/ /\ stop[t] = "ranging" /\ toVisit[t] \cap Waiting(t) = {}
              /\ stop'[t] = "done" /\ toVisit'[t] = {}
              /\ UNCHANGED <<pending, reader>>
<1>0. stop \in [Sessions -> {"no", "cancelled", "ranging", "done"}]
      /\ toVisit \in [Sessions -> SUBSET Ids]
  BY DEF TypeOK
<1>1. ASSUME NEW s \in Sessions, ReaderStep(s)
      PROVE  UNCHANGED <<stop, toVisit>>
  BY <1>1 DEF ReaderStep, Submit, SubmitHeld, HandleSubmit, ReaderExits, ReplaceLoad,
     ReplaceDelete, ReplaceUnroute, ReplaceForget, EnterHandler, LeaveHandler,
     StorePending, RegisterRoute, FinishSubmit, sessionVars
<1>2. ASSUME NEW s \in Sessions,
             \/ EvictSession(s) \/ StopDeletes(s)
             \/ \E id \in Ids : StopUnroutes(s, id) \/ ExpirePending(s, id)
      PROVE  UNCHANGED <<stop, toVisit>>
  BY <1>2 DEF EvictSession, StopDeletes, StopUnroutes, ExpirePending, sessionVars
<1>3. ASSUME NEW r \in Reporters,
             \/ \E id \in Ids, success \in BOOLEAN : BeginReport(r, id, success)
             \/ Report(r)
      PROVE  UNCHANGED <<stop, toVisit>>
  BY <1>3 DEF BeginReport, Report, LoadPending, CheckSend, SendReceipt, SendFails,
     RemoveLoad, RemoveDelete, RemoveUnroute, sessionVars
<1>4. ASSUME TtlPasses \/ \E id \in Ids : LoseRoute(id) \/ LookupStaleRoute(id)
      PROVE  UNCHANGED <<stop, toVisit>>
  BY <1>4 DEF TtlPasses, LoseRoute, LookupStaleRoute, sessionVars
<1>5. ASSUME NEW s \in Sessions, s # t, StopCancels(s) \/ StopUnbinds(s) \/ StopEnds(s)
      PROVE  stop'[t] = stop[t] /\ toVisit'[t] = toVisit[t]
  BY <1>0, <1>5 DEF StopCancels, StopUnbinds, StopEnds
<1>6. CASE StopCancels(t)
  BY <1>0, <1>6 DEF StopCancels
<1>7. CASE StopUnbinds(t)
  BY <1>0, <1>7 DEF StopUnbinds, maps
<1>8. CASE StopEnds(t)
  BY <1>0, <1>8 DEF StopEnds, maps
<1> QED
  BY <1>1, <1>2, <1>3, <1>4, <1>5, <1>6, <1>7, <1>8 DEF Next, ReaderStep, StopSession

LEMMA StopStep ==
    ASSUME IInv, StopSound, Next
    PROVE  StopSound'
<1>0. TypeOK /\ ReaderSound /\ KnownGenerated /\ ReportsSound
  BY DEF IInv
<1> SUFFICES
      ASSUME NEW t \in Sessions
      PROVE  /\ stop'[t] \in {"ranging", "done"} =>
                   /\ reader'[t].pc \notin {"register", "finish", "exited"} => Late(t)' = {}
                   /\ \E x \in Ids \union {None} : Late(t)' \subseteq {x}
             /\ stop'[t] = "done" => toVisit'[t] = {}
  BY DEF StopSound
<1>1. CASE stop'[t] = stop[t] /\ toVisit'[t] = toVisit[t]
  <2>1. stop[t] = "done" => toVisit[t] = {}
    BY DEF StopSound
  <2>2. ASSUME stop[t] \in {"ranging", "done"}, StorePending(t)
        PROVE  /\ reader'[t].pc \in {"register", "finish", "exited"}
               /\ \E x \in Ids \union {None} : Late(t)' \subseteq {x}
    <3>1. /\ reader[t].pc = "store" /\ reader[t].id \in Ids
          /\ reader' = [reader EXCEPT ![t].pc = "register"]
      <4> HIDE DEF Work, Job, Submitted
      <4>1. reader[t].id \in 1..nextId - 1
        BY <1>0, <2>2 DEF StorePending, ReaderSound
      <4>2. nextId \in 1..MaxId + 1
        BY <1>0 DEF TypeOK
      <4>3. reader[t].id \in Ids
        BY <4>1, <4>2, MaxIdAssumption DEF Ids
      <4> QED
        BY <2>2, <4>3 DEF StorePending, Goto
    <3>2. reader'[t].pc = "register"
      <4>1. reader \in [Sessions -> Work]
        BY <1>0 DEF TypeOK
      <4> QED
        BY <3>1, <4>1
    <3>3. Late(t) = {}
      BY <2>2, <3>1 DEF StopSound
    <3>4. Late(t)' \subseteq {reader[t].id}
      BY <1>0, <1>1, <3>3, WaitingFrame DEF Late
    <3> QED
      BY <3>1, <3>2, <3>4
  <2>3. ASSUME stop[t] \in {"ranging", "done"}, ~StorePending(t)
        PROVE  /\ reader'[t].pc \notin {"register", "finish", "exited"} => Late(t)' = {}
               /\ \E x \in Ids \union {None} : Late(t)' \subseteq {x}
    <3>1. Late(t)' \subseteq Late(t)
      BY <1>0, <1>1, <2>3, WaitingFrame DEF Late
    <3>2. CtxDone(t)
      BY <2>3 DEF CtxDone
    <3>3. reader'[t].pc \notin {"register", "finish", "exited"} =>
             reader[t].pc \notin {"register", "finish", "exited"}
      BY <1>0, <3>2, ReaderLeaves
    <3> QED
      BY <2>3, <3>1, <3>3 DEF StopSound
  <2> QED
    BY <1>1, <2>1, <2>2, <2>3
<1>2. CASE stop'[t] = "cancelled"
  BY <1>2
<1>3. CASE stop'[t] = "ranging" /\ toVisit'[t] = Waiting(t) /\ UNCHANGED <<pending, reader>>
  <2>1. Late(t)' = {}
    BY <1>3 DEF Late, Waiting
  <2> QED
    BY <1>3, <2>1
<1>4. CASE /\ stop[t] = "ranging" /\ toVisit[t] \cap Waiting(t) = {}
           /\ stop'[t] = "done" /\ toVisit'[t] = {}
           /\ UNCHANGED <<pending, reader>>
  <2>1. Late(t)' = Late(t)
    BY <1>4 DEF Late, Waiting
  <2> QED
    BY <1>4, <2>1 DEF StopSound
<1> QED
  BY <1>0, <1>1, <1>2, <1>3, <1>4, StopFrame

\* Sent by the only reporter there is, an id has but one receipt and no way back.
LEMMA SentStep ==
    ASSUME IInv, StoredOnce, \A p, q \in Reporters : p = q, SentGone, AtMostOneReceipt, Next
    PROVE  SentGone' /\ AtMostOneReceipt'
<1>0. /\ TypeOK /\ ReaderSound /\ KnownGenerated /\ ReportsSound
      /\ job \in [Reporters -> Job] /\ pending \in [Sessions -> Entries]
  BY DEF IInv, TypeOK
<1>1. ASSUME NEW x \in receipts, NEW r \in Reporters
      PROVE  job'[r].pc \in {"send", "queue"} => job'[r].id # x.id
  <2> SUFFICES ASSUME job'[r].pc \in {"send", "queue"}, job'[r].id = x.id PROVE FALSE
    OBVIOUS
  <2>1. CASE job'[r] = job[r]
    BY <1>1, <2>1 DEF SentGone
  <2>2. CASE /\ job[r].pc \in {"load", "send"} /\ job'[r].id = job[r].id
             /\ job[r].pc = "load" => job[r].id \in Waiting(job[r].session)
    <3>1. job[r].pc = "load" /\ job[r].id \in Waiting(job[r].session) /\ job[r].id = x.id
      BY <1>1, <2>2 DEF SentGone
    <3>2. job[r].session = Owner(x.id) /\ x.session = Owner(x.id)
      BY <1>0, <1>1, <3>1 DEF ReportsSound, IInv, ReceiptsObeyPolicy
    <3> QED
      BY <1>1, <3>1, <3>2 DEF SentGone
  <2> QED
    BY <1>0, <2>1, <2>2, JobFrame
<1>2. ASSUME NEW x \in receipts, NEW r \in Reporters, x.id \in Waiting(x.session)'
      PROVE  job'[r].pc \in {"remove", "delete"} /\ job'[r].id = x.id
  <2>1. x.session \in Sessions /\ PastStore(x.id) /\ x.session = Owner(x.id)
    BY <1>2, Generated DEF StoredOnce, IInv, ReceiptsObeyPolicy
  <2>2. PICK s \in Sessions, id \in {x.id} : s = x.session
    BY <2>1
  <2>3. ~(StorePending(s) /\ id = reader[s].id)
    BY <2>1, <2>2 DEF PastStore, StorePending
  <2>4. id \in Waiting(s)
    BY <1>0, <1>2, <2>2, <2>3, WaitingFrame
  <2>5. job[r].pc \in {"remove", "delete"} /\ job[r].id = id /\ job[r].session = s
    BY <1>0, <1>2, <2>1, <2>2, <2>4 DEF SentGone, ReportsSound
  <2>6. CASE RemoveLoad(r)
    <3>1. job' = Enter(r, "delete")
      BY <2>4, <2>5, <2>6 DEF RemoveLoad, AfterRemoveLoad
    <3>2. job[r] \in Job /\ job'[r] = [job[r] EXCEPT !.pc = "delete"]
      BY <1>0, <3>1 DEF Enter
    <3> QED
      BY <2>2, <2>5, <3>2
  <2>7. CASE RemoveDelete(r)
    <3>1. pending' = Without(s, id)
      BY <2>5, <2>7 DEF RemoveDelete
    <3>2. id \notin DOMAIN pending'[s]
      BY <1>0, <3>1, WithoutEntry
    <3> QED
      BY <1>2, <2>2, <3>2 DEF Waiting
  <2>8. CASE job'[r] = job[r]
    BY <2>2, <2>5, <2>8
  <2>9. ASSUME NEW p \in Reporters,
               \/ \E i \in Ids, success \in BOOLEAN : BeginReport(p, i, success)
               \/ Report(p)
        PROVE  RemoveLoad(r) \/ RemoveDelete(r)
    BY <2>5, <2>9 DEF BeginReport, Report, LoadPending, CheckSend, SendReceipt, SendFails,
       RemoveUnroute
  <2> QED
    BY <2>6, <2>7, <2>8, <2>9, ReportFrame
<1>3. ASSUME NEW r \in Reporters, SendReceipt(r)
      PROVE  /\ {y \in receipts : y.id = job[r].id} = {}
             /\ job'[r].pc = "remove" /\ job'[r].id = job[r].id
  <2>1. job[r].pc = "queue" /\ job' = [job EXCEPT ![r].pc = "remove"] /\ job[r] \in Job
    BY <1>0, <1>3 DEF SendReceipt, Step
  <2>2. {y \in receipts : y.id = job[r].id} = {}
    BY <1>3, <2>1 DEF SentGone
  <2> QED
    BY <1>0, <1>3, <2>1, <2>2
<1>4. SentGone'
  <2> SUFFICES ASSUME NEW x \in receipts', NEW r \in Reporters
               PROVE  /\ x.id \in Waiting(x.session)' =>
                            job'[r].pc \in {"remove", "delete"} /\ job'[r].id = x.id
                      /\ job'[r].pc \in {"send", "queue"} => job'[r].id # x.id
    BY DEF SentGone
  <2>1. CASE x \in receipts
    BY <1>1, <1>2, <2>1
  <2>2. ASSUME NEW p \in Reporters, SendReceipt(p), x.id = job[p].id
        PROVE  job'[r].pc = "remove" /\ job'[r].id = x.id
    <3>1. p = r
      OBVIOUS
    <3> QED
      BY <1>3, <2>2, <3>1
  <2> QED
    BY <2>1, <2>2, ReceiptsGrow
<1>5. AtMostOneReceipt'
  <2> SUFFICES ASSUME NEW x \in receipts' PROVE x.nth = 1
    BY DEF AtMostOneReceipt
  <2>1. ASSUME NEW r \in Reporters, SendReceipt(r), x.id = job[r].id,
               x.nth = 1 + Cardinality({y \in receipts : y.id = x.id})
        PROVE  x.nth = 1
    <3>1. {y \in receipts : y.id = x.id} = {}
      BY <1>3, <2>1
    <3> QED
      BY <2>1, <3>1, FS_EmptySet
  <2> QED
    BY <2>1, ReceiptsGrow DEF AtMostOneReceipt
<1> QED
  BY <1>4, <1>5

LEMMA StoredInitially == Init => StoredOnce /\ UnroutedGone /\ StopSound
<1> SUFFICES ASSUME Init PROVE StoredOnce /\ UnroutedGone /\ StopSound
  OBVIOUS
<1>1. \A s \in Sessions : Waiting(s) = {}
  BY DEF Init, Waiting
<1>2. \A r \in Reporters : job[r].pc = "idle"
  BY DEF Init, NoJob
<1> QED
  BY <1>1, <1>2 DEF Init, StoredOnce, UnroutedGone, StopSound

LEMMA StoredInductive ==
    ASSUME IInv, StoredOnce, UnroutedGone, StopSound, [Next]_vars
    PROVE  (StoredOnce /\ UnroutedGone /\ StopSound)'
<1>1. CASE Next
  BY <1>1, StoredStep, UnroutedStep, StopStep
<1>2. CASE UNCHANGED vars
  BY <1>2 DEF vars, maps, sessionVars, history, StoredOnce, UnroutedGone, StopSound, PastStore,
     Waiting, Late
<1> QED
  BY <1>1, <1>2

LEMMA StoredInvariance == Spec => [](IInv /\ StoredOnce /\ UnroutedGone /\ StopSound)
BY Invariance, StoredInitially, StoredInductive, PTL DEF Spec

\* While an entry is pending and its session lives, no superseding submit, no report, no
\* Stop and no lookup of any session takes its route away.
THEOREM RoutesKept == Spec => RoutesOutliveEntries
<1> DEFINE A == \A s \in Sessions : \A id \in Waiting(s) :
                   route[id] = s /\ route'[id] # s /\ stop[s] = "no" /\ s \in cached
                       => LoseRoute(id) \/ TtlPasses \/ id \notin DOMAIN pending'[s]
<1>1. IInv /\ UnroutedGone /\ [Next]_vars => [A]_vars
  BY RouteStep
<1> QED
  BY <1>1, StoredInvariance, PTL DEF Spec, RoutesOutliveEntries

\* Whatever the reader stores while Stop looks through the map, it leaves one entry.
THEOREM StopLeavesOne == Spec => []StopLeavesAtMostOne
<1>1. IInv /\ StopSound => StopLeavesAtMostOne
  <2> SUFFICES ASSUME StopSound, NEW s \in Sessions, stop[s] = "done"
               PROVE  Cardinality(Waiting(s)) <= 1
    BY DEF StopLeavesAtMostOne
  <2>1. PICK x \in Ids \union {None} : Waiting(s) \subseteq {x}
    BY DEF StopSound, Late
  <2>2. Cardinality({x}) = 1 /\ IsFiniteSet({x})
    BY FS_Singleton
  <2> QED
    BY <2>1, <2>2, FS_Subset
<1> QED
  BY <1>1, StoredInvariance, PTL

\* One goroutine that reports never sends two receipts for a message, though it may report
\* it again at any time: it removes the entry before it comes back, and the reader stores
\* none a second time.  (Two of them do send two: run receipts_twice.)
THEOREM OneReporterSendsOnce ==
    ASSUME \A p, q \in Reporters : p = q
    PROVE  Spec => []AtMostOneReceipt
<1>1. Init => SentGone /\ AtMostOneReceipt
  BY DEF Init, SentGone, AtMostOneReceipt
<1>2. IInv /\ StoredOnce /\ SentGone /\ AtMostOneReceipt /\ [Next]_vars
          => (SentGone /\ AtMostOneReceipt)'
  <2>1. IInv /\ StoredOnce /\ SentGone /\ AtMostOneReceipt /\ Next
            => (SentGone /\ AtMostOneReceipt)'
    BY SentStep
  <2>2. SentGone /\ AtMostOneReceipt /\ UNCHANGED vars => (SentGone /\ AtMostOneReceipt)'
    BY DEF vars, maps, history, SentGone, AtMostOneReceipt, Waiting
  <2> QED
    BY <2>1, <2>2
<1> QED
  BY <1>1, <1>2, StoredInvariance, PTL DEF Spec

=============================================================================
