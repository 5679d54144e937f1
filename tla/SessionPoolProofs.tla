------------------------- MODULE SessionPoolProofs -------------------------
(***************************************************************************)
(* Proofs about SessionPool for any number of threads, sessions and end    *)
(* points, with and without pooling.                                       *)
(***************************************************************************)
EXTENDS SessionPool, FiniteSetTheorems, TLAPS

(***************************************************************************)
(* The inductive invariant                                                 *)
(***************************************************************************)

UsePCs == {"members", "body", "using", "in_op", "release", "rel_lock"}

\* A Pooled_session points at a session exactly while it is being used.
HeldWhileUsing ==
  \A t \in User : held[t] # NULL <=> pc[t] \in UsePCs

\* close() only visits entries of m_pool, and locks only those with a handler.
CloseState ==
  /\ cpc # "idle" => todo \subseteq pool
  /\ cpc \in {"clean", "shut"} => cur \in pool /\ cleanup[cur] \in User

ClosedEmpty == closed => pool = {}

IInv ==
  /\ TypeOK /\ HeldWhileUsing /\ ExclusiveUse /\ HandlerIsUser
  /\ PoolEntriesValid /\ NoLeak /\ CloseState /\ ClosedEmpty

USE DEF PoolMutexFree, UsePCs, flags

LEMMA InitIInv == Init => IInv
<1> SUFFICES ASSUME Init PROVE IInv
  OBVIOUS
<1> USE DEF Init
<1>1. ep \in [Sess -> EP]
  <2>1. (CHOOSE e \in EP : TRUE) \in EP
    BY PoolAssumption
  <2> QED BY <2>1
<1>2. TypeOK
  BY <1>1, PoolAssumption, Zenon DEF TypeOK, PCs, Impls, Results
<1>3. HeldWhileUsing /\ ExclusiveUse /\ HandlerIsUser
  BY DEF HeldWhileUsing, ExclusiveUse, HandlerIsUser
<1>4. PoolEntriesValid /\ NoLeak /\ CloseState /\ ClosedEmpty
  BY DEF PoolEntriesValid, NoLeak, CloseState, ClosedEmpty
<1> QED BY <1>2, <1>3, <1>4 DEF IInv

\* A step that neither moves a session nor closes the pool.
LEMMA QuietStep ==
  ASSUME IInv, TypeOK', CloseState',
         UNCHANGED <<pool, cleanup, valid, closed, held>>,
         \A t \in User : pc'[t] \in UsePCs <=> pc[t] \in UsePCs
  PROVE  IInv'
  BY DEF IInv, HeldWhileUsing, ExclusiveUse, HandlerIsUser, PoolEntriesValid,
         NoLeak, InUse, ClosedEmpty

\* get_session() hands the unused session s to t, whatever it has removed from
\* the pool on the way.
LEMMA HandStep ==
  ASSUME IInv,
         NEW t \in User, NEW s \in Sess, NEW P \in SUBSET pool, NEW B \in SUBSET EP,
         Asking(t), ~closed, ~InUse(s), Hand(t, s, P, B), ep' \in [Sess -> EP]
  PROVE  IInv'
<1> USE DEF IInv, Asking, Hand, Obtain
<1>0. held[t] = NULL /\ t # NULL /\ s # NULL
  BY PoolAssumption DEF HeldWhileUsing
<1>1. TypeOK'
  BY Zenon DEF TypeOK, closeVars, PCs
<1>2. HeldWhileUsing'
  BY <1>0 DEF TypeOK, HeldWhileUsing
<1>3. ExclusiveUse'
  BY <1>0 DEF TypeOK, ExclusiveUse, InUse
<1>4. HandlerIsUser'
  BY <1>0, PoolAssumption DEF TypeOK, HandlerIsUser, InUse
<1>5. PoolEntriesValid'
  BY DEF TypeOK, PoolEntriesValid
<1>6. NoLeak'
  BY <1>0, PoolAssumption DEF TypeOK, NoLeak, InUse
<1>7. CloseState' /\ ClosedEmpty'
  BY DEF TypeOK, CloseState, ClosedEmpty, closeVars
<1> QED BY <1>1, <1>2, <1>3, <1>4, <1>5, <1>6, <1>7

\* get_session() removes sessions from the pool and hands out none.
LEMMA DropStep ==
  ASSUME IInv, NEW P \in SUBSET pool, NEW t \in User, Asking(t),
         pool' = P, valid' = valid \ (pool \ P), expired' = expired \cap P,
         blocked' \subseteq EP,
         pc' \in [User -> PCs], impl' \in [User -> Impls],
         pc' = [pc EXCEPT ![t] = pc'[t]],
         pc'[t] \in {"none", "cont", "enter"},
         UNCHANGED <<cleanup, ep, held, late, flags, result, mutex, closeVars>>
  PROVE  IInv'
<1> USE DEF IInv, Asking
<1>0. held[t] = NULL
  BY DEF HeldWhileUsing
<1>1. TypeOK'
  BY DEF TypeOK, closeVars
<1>2. HeldWhileUsing'
  BY <1>0 DEF TypeOK, HeldWhileUsing
<1>3. ExclusiveUse' /\ HandlerIsUser' /\ PoolEntriesValid'
  BY DEF TypeOK, ExclusiveUse, HandlerIsUser, PoolEntriesValid
<1>4. NoLeak'
  BY DEF TypeOK, NoLeak, InUse
<1>5. CloseState' /\ ClosedEmpty'
  BY DEF CloseState, ClosedEmpty, closeVars
<1> QED BY <1>1, <1>2, <1>3, <1>4, <1>5

USE DEF TimeToLive, Ends, BlockFailed, BlockVisited

\* The pools and block lists that get_session() computes on its way.
LEMMA PhaseTypes ==
  ASSUME TypeOK
  PROVE  /\ P1 \subseteq pool /\ P2 \subseteq P1 /\ P4 \subseteq P2
         /\ A1 \subseteq Idle(P1) /\ A3 \subseteq Idle(P2)
         /\ A1 \subseteq Sess /\ A3 \subseteq Sess /\ B2 \subseteq EP
  BY DEF TypeOK, P1, A1, P2, B2, A3, P4, Avail, Idle

LEMMA GetSessionStep ==
  ASSUME IInv, NEW t \in User, GetSession(t)
  PROVE  IInv'
<1> USE DEF IInv
<1>0. TypeOK /\ held[t] = NULL
  BY DEF HeldWhileUsing, GetSession, Asking, GetClosed, GetPooled, GetNew,
     GetPooledBlocked, GetNewBlocked, GetError, GetNull, GetUnpooled
<1>1. CASE GetClosed(t)
  BY <1>1, QuietStep
  DEF GetClosed, Asking, Throw, poolVars, closeVars, TypeOK, PCs, Impls, CloseState
<1>2. CASE GetPooled(t)
  <2>1. PICK s \in A1 : \E F \in SUBSET (A1 \ {s}) :
          Hand(t, s, P1 \ F, BlockFailed(blocked, F))
    BY <1>2, Zenon DEF GetPooled
  <2>2. PICK F \in SUBSET (A1 \ {s}) : Hand(t, s, P1 \ F, BlockFailed(blocked, F))
    BY <2>1, Zenon
  <2>3. s \in Sess /\ ~InUse(s) /\ P1 \ F \in SUBSET pool
    BY <1>0, PhaseTypes DEF Idle
  <2>4. BlockFailed(blocked, F) \in SUBSET EP
    BY <1>0, PhaseTypes DEF TypeOK
  <2> QED BY <1>0, <1>2, <2>2, <2>3, <2>4, HandStep, Zenon DEF GetPooled, TypeOK
<1>3. CASE GetNew(t)
  <2>1. PICK s \in Sess \ P2, e \in EP \ B2 : \E D \in SUBSET (EP \ (B2 \cup {e})) :
          /\ ~InUse(s) /\ Hand(t, s, P2, BlockVisited(B2, D, e))
          /\ ep' = [ep EXCEPT ![s] = e]
    BY <1>3, Zenon DEF GetNew
  <2>2. PICK D \in SUBSET (EP \ (B2 \cup {e})) :
          /\ ~InUse(s) /\ Hand(t, s, P2, BlockVisited(B2, D, e))
          /\ ep' = [ep EXCEPT ![s] = e]
    BY <2>1, Zenon
  <2>3. P2 \in SUBSET pool /\ BlockVisited(B2, D, e) \in SUBSET EP
    BY <1>0, PhaseTypes
  <2>4. ep' \in [Sess -> EP]
    BY <1>0, <2>2 DEF TypeOK
  <2> QED BY <1>3, <2>2, <2>3, <2>4, HandStep DEF GetNew
<1>4. CASE GetPooledBlocked(t)
  <2>1. PICK s \in A3 : \E F \in SUBSET (A3 \ {s}), B3 \in SUBSET EP :
          TriedNew(B3) /\ Hand(t, s, P2 \ F, BlockFailed(B3, F))
    BY <1>4, Zenon DEF GetPooledBlocked
  <2>2. PICK F \in SUBSET (A3 \ {s}), B3 \in SUBSET EP :
          Hand(t, s, P2 \ F, BlockFailed(B3, F))
    BY <2>1, Zenon
  <2>3. s \in Sess /\ ~InUse(s) /\ P2 \ F \in SUBSET pool
    BY <1>0, PhaseTypes DEF Idle
  <2>4. BlockFailed(B3, F) \in SUBSET EP
    BY <1>0, PhaseTypes DEF TypeOK
  <2> QED BY <1>0, <1>4, <2>2, <2>3, <2>4, HandStep, Zenon DEF GetPooledBlocked, TypeOK
<1>5. CASE GetNewBlocked(t)
  <2>1. PICK s \in Sess \ P4, e \in B2, B3 \in SUBSET EP : \E D \in SUBSET (B2 \ {e}) :
          /\ ~InUse(s)
          /\ Hand(t, s, P4, BlockVisited(BlockFailed(B3, A3), D, e))
          /\ ep' = [ep EXCEPT ![s] = e]
    BY <1>5, Zenon DEF GetNewBlocked
  <2>2. PICK D \in SUBSET (B2 \ {e}) :
          /\ ~InUse(s)
          /\ Hand(t, s, P4, BlockVisited(BlockFailed(B3, A3), D, e))
          /\ ep' = [ep EXCEPT ![s] = e]
    BY <2>1, Zenon
  <2>3. P4 \in SUBSET pool
    BY <1>0, PhaseTypes
  <2>4. BlockVisited(BlockFailed(B3, A3), D, e) \in SUBSET EP /\ e \in EP
    BY <1>0, PhaseTypes DEF TypeOK
  <2>5. ep' \in [Sess -> EP]
    BY <1>0, <2>2, <2>4 DEF TypeOK
  <2> QED BY <1>5, <2>2, <2>3, <2>4, <2>5, HandStep DEF GetNewBlocked
<1>6. CASE GetError(t)
  <2>1. P4 \in SUBSET pool
    BY <1>0, PhaseTypes
  <2>2. blocked' \subseteq EP
    BY <1>0, <1>6, PhaseTypes DEF GetError, TypeOK
  <2> QED BY <1>6, <2>1, <2>2, DropStep, Zenon DEF GetError, Throw, TypeOK, PCs, Impls
<1>7. CASE GetNull(t)
  <2>1. P4 \in SUBSET pool
    BY <1>0, PhaseTypes
  <2>2. blocked' \subseteq EP
    BY <1>0, <1>7, PhaseTypes DEF GetNull, TypeOK
  <2> QED BY <1>7, <2>1, <2>2, DropStep, Zenon DEF GetNull, Throw, TypeOK, PCs, Impls
<1>8. CASE GetUnpooled(t)
  <2>1. CASE Throw(t) /\ UNCHANGED poolVars
    BY <1>8, <2>1, QuietStep
    DEF GetUnpooled, Asking, Throw, poolVars, closeVars, TypeOK, PCs, Impls, CloseState
  <2>2. CASE ~(Throw(t) /\ UNCHANGED poolVars)
    <3>1. PICK s \in Fresh, e \in EP :
            /\ valid' = valid \cup {s}
            /\ ep' = [ep EXCEPT ![s] = e]
            /\ Obtain(t, s)
            /\ UNCHANGED <<pool, cleanup, expired, blocked>>
      BY <1>8, <2>2 DEF GetUnpooled
    <3>2. s \in Sess /\ s \notin pool /\ ~InUse(s) /\ s # NULL
      BY PoolAssumption DEF Fresh
    <3> USE DEF Obtain
    <3>3. TypeOK'
      BY <3>1, <3>2 DEF TypeOK, closeVars, PCs
    <3>4. HeldWhileUsing'
      BY <1>8, <3>1, <3>2 DEF TypeOK, HeldWhileUsing, GetUnpooled, Asking
    <3>5. ExclusiveUse'
      BY <1>0, <3>1, <3>2 DEF TypeOK, ExclusiveUse, InUse
    <3>6. HandlerIsUser'
      BY <1>0, <3>1, <3>2, PoolAssumption DEF TypeOK, HandlerIsUser
    <3>7. PoolEntriesValid' /\ CloseState' /\ ClosedEmpty'
      BY <3>1 DEF PoolEntriesValid, CloseState, ClosedEmpty, closeVars
    <3>8. NoLeak'
      BY <1>0, <3>1, <3>2, PoolAssumption DEF TypeOK, NoLeak, InUse
    <3> QED BY <3>3, <3>4, <3>5, <3>6, <3>7, <3>8
  <2> QED BY <2>1, <2>2
<1> QED
  BY <1>1, <1>2, <1>3, <1>4, <1>5, <1>6, <1>7, <1>8 DEF GetSession

\* What the other steps of a thread do: only a release moves a session.
LEMMA ThreadStep ==
  ASSUME IInv, NEW t \in User,
         \/ Construct(t) \/ EnterWait(t) \/ WaitTimeout(t) \/ SpuriousWakeup(t)
         \/ ConstructMembers(t) \/ CheckValid(t) \/ BeginOp(t) \/ EndOp(t)
         \/ CloseSession(t) \/ DestroySession(t) \/ ReleaseNotify(t)
         \/ DeadlinePasses(t)
  PROVE  IInv'
<1> USE DEF IInv, poolVars, closeVars
<1>1. CloseState'
  BY DEF CloseState, Construct, EnterWait, WaitTimeout, SpuriousWakeup,
     ConstructMembers, CheckValid, BeginOp, EndOp, CloseSession,
     DestroySession, ReleaseNotify, DeadlinePasses
<1>2. UNCHANGED <<pool, cleanup, valid, closed, held>>
  BY DEF Construct, EnterWait, WaitTimeout, SpuriousWakeup,
     ConstructMembers, CheckValid, BeginOp, EndOp, CloseSession,
     DestroySession, ReleaseNotify, DeadlinePasses
<1>3. CASE Construct(t) \/ EnterWait(t) \/ WaitTimeout(t) \/ SpuriousWakeup(t)
  <2>1. TypeOK'
    BY <1>3 DEF TypeOK, PCs, Impls, Construct, EnterWait, WaitTimeout, SpuriousWakeup
  <2>2. \A u \in User : pc'[u] \in UsePCs <=> pc[u] \in UsePCs
    BY <1>3 DEF TypeOK, Construct, EnterWait, WaitTimeout, SpuriousWakeup
  <2> QED BY <1>1, <1>2, <2>1, <2>2, QuietStep, Zenon
<1>4. CASE ConstructMembers(t) \/ CheckValid(t) \/ BeginOp(t) \/ DestroySession(t)
  <2>1. TypeOK'
    BY <1>4 DEF TypeOK, PCs, Impls, ConstructMembers, CheckValid, BeginOp,
       DestroySession
  <2>2. \A u \in User : pc'[u] \in UsePCs <=> pc[u] \in UsePCs
    BY <1>4 DEF TypeOK, ConstructMembers, CheckValid, BeginOp, DestroySession
  <2> QED BY <1>1, <1>2, <2>1, <2>2, QuietStep, Zenon
<1>5. CASE EndOp(t) \/ CloseSession(t)
  <2>1. TypeOK'
    BY <1>5 DEF TypeOK, PCs, Impls, Results, Stored, EndOp, CloseSession
  <2>2. \A u \in User : pc'[u] \in UsePCs <=> pc[u] \in UsePCs
    BY <1>5 DEF TypeOK, EndOp, CloseSession
  <2> QED BY <1>1, <1>2, <2>1, <2>2, QuietStep, Zenon
<1>6. CASE ReleaseNotify(t) \/ DeadlinePasses(t)
  <2>1. TypeOK'
    BY <1>6 DEF TypeOK, PCs, Impls, ReleaseNotify, DeadlinePasses, Waiting
  <2>2. \A u \in User : pc'[u] \in UsePCs <=> pc[u] \in UsePCs
    BY <1>6 DEF TypeOK, ReleaseNotify, DeadlinePasses, Waiting
  <2> QED BY <1>1, <1>2, <2>1, <2>2, QuietStep, Zenon
<1> QED BY <1>3, <1>4, <1>5, <1>6

LEMMA ReleaseCheckStep ==
  ASSUME IInv, NEW t \in User, ReleaseCheck(t)
  PROVE  IInv'
<1> USE DEF IInv, ReleaseCheck
<1>0. held[t] \in Sess
  BY DEF TypeOK, HeldWhileUsing
<1>1. TypeOK'
  BY DEF TypeOK, PCs, Impls, closeVars
<1>2. CASE ~closed
  <2>1. CloseState'
    BY <1>2 DEF CloseState, closeVars
  <2> QED BY <1>1, <1>2, <2>1, QuietStep DEF TypeOK
<1>3. CASE closed
  <2>1. HeldWhileUsing'
    BY <1>3 DEF TypeOK, HeldWhileUsing
  <2>2. ExclusiveUse'
    BY <1>3 DEF TypeOK, ExclusiveUse
  <2>3. HandlerIsUser' /\ PoolEntriesValid' /\ CloseState' /\ ClosedEmpty'
    BY <1>3 DEF HandlerIsUser, PoolEntriesValid, CloseState, ClosedEmpty, closeVars
  <2>4. NoLeak'
    BY <1>3 DEF TypeOK, NoLeak, InUse
  <2> QED BY <1>1, <2>1, <2>2, <2>3, <2>4
<1> QED BY <1>2, <1>3

LEMMA ReleaseSessionStep ==
  ASSUME IInv, NEW t \in User, ReleaseSession(t)
  PROVE  IInv'
<1> USE DEF IInv, ReleaseSession
<1> DEFINE s == held[t]
           gone == (Idle(pool) \cap expired) \ {s}
<1>0. s \in Sess /\ s # NULL /\ NULL \notin User
  BY PoolAssumption DEF TypeOK, HeldWhileUsing
<1>1. /\ pool' = pool \ gone
      /\ cleanup' = IF s \in pool THEN [cleanup EXCEPT ![s] = NULL] ELSE cleanup
      /\ expired' = expired \ (gone \cup {s})
      /\ valid' = valid \ (gone \cup ({s} \ pool))
      /\ held' = [held EXCEPT ![t] = NULL]
  OBVIOUS
<1>2. gone \subseteq pool /\ s \notin gone /\ \A x \in gone : ~InUse(x)
  BY DEF Idle
<1> HIDE DEF s, gone
<1>3. TypeOK'
  BY <1>0, <1>1 DEF TypeOK, PCs, Impls, closeVars
<1>4. HeldWhileUsing'
  BY <1>0, <1>1 DEF TypeOK, HeldWhileUsing
<1>5. ExclusiveUse'
  BY <1>0, <1>1 DEF TypeOK, ExclusiveUse
<1>6. HandlerIsUser'
  <2> SUFFICES ASSUME NEW x \in pool', NEW u \in User
               PROVE  cleanup'[x] = u <=> held'[u] = x
    BY DEF HandlerIsUser
  <2>1. x \in pool /\ x \in Sess /\ (cleanup[x] = u <=> held[u] = x)
    BY <1>1 DEF TypeOK, HandlerIsUser
  <2>2. CASE x = s
    BY <1>0, <1>1, <2>1, <2>2 DEF TypeOK, ExclusiveUse, s
  <2>3. CASE x # s
    BY <1>0, <1>1, <2>1, <2>3, PoolAssumption DEF TypeOK, s
  <2> QED BY <2>2, <2>3
<1>7. PoolEntriesValid'
  BY <1>1, <1>2 DEF PoolEntriesValid
<1>8. NoLeak'
  <2> SUFFICES ASSUME NEW x \in valid', x \notin pool'
               PROVE  InUse(x)'
    BY DEF NoLeak
  <2>1. x \in valid /\ x \notin pool /\ x # s
    BY <1>1
  <2>2. PICK u \in User : held[u] = x
    BY <2>1 DEF NoLeak, InUse
  <2> QED BY <1>1, <2>1, <2>2 DEF TypeOK, InUse, s
<1>9. CloseState' /\ ClosedEmpty'
  BY <1>1 DEF CloseState, ClosedEmpty, closeVars
<1> QED BY <1>3, <1>4, <1>5, <1>6, <1>7, <1>8, <1>9

\* close() erases the entry s; v are the sessions that stay valid.
LEMMA EraseStep ==
  ASSUME IInv, NEW s \in pool, NEW v \in SUBSET Sess, Erase(s, v),
         \/ v = valid \ {s}
         \/ v = valid /\ InUse(s),
         TypeOK', CloseState', UNCHANGED <<closed, userVars>>
  PROVE  IInv'
<1> USE DEF IInv, Erase, userVars
<1>1. HeldWhileUsing' /\ ExclusiveUse'
  BY DEF HeldWhileUsing, ExclusiveUse
<1>2. HandlerIsUser' /\ ClosedEmpty'
  BY DEF HandlerIsUser, ClosedEmpty
<1>3. PoolEntriesValid'
  BY DEF PoolEntriesValid
<1>4. NoLeak'
  BY DEF NoLeak, InUse
<1> QED BY <1>1, <1>2, <1>3, <1>4

LEMMA ClosePoolStep ==
  ASSUME IInv, ClosePool
  PROVE  IInv'
<1> USE DEF IInv
<1>1. CASE CloseBegin \/ CloseNextPass
  <2>1. TypeOK' /\ CloseState'
    BY <1>1, Zenon DEF TypeOK, CloseState, CloseBegin, CloseNextPass, poolVars, userVars
  <2> QED BY <1>1, <2>1, QuietStep DEF CloseBegin, CloseNextPass, poolVars, userVars
<1>2. ASSUME NEW s \in Sess, CloseSkip(s) \/ CloseLock(s)
      PROVE  IInv'
  <2>1. TypeOK' /\ CloseState'
    BY <1>2 DEF TypeOK, CloseState, CloseSkip, CloseLock, Closer, poolVars, userVars
  <2> QED BY <1>2, <2>1, QuietStep DEF CloseSkip, CloseLock, poolVars, userVars
<1>3. ASSUME NEW s \in Sess, CloseUnused(s)
      PROVE  IInv'
  <2>1. TypeOK'
    BY <1>3 DEF TypeOK, CloseUnused, Erase, userVars
  <2>2. s \in pool /\ CloseState'
    BY <1>3, Zenon DEF CloseState, CloseUnused, Erase
  <2> QED BY <1>3, <2>1, <2>2, EraseStep DEF CloseUnused, TypeOK
<1>4. CASE CloseShut \/ CloseCleanup
  <2>1. cur \in pool /\ cur \in Sess /\ cleanup[cur] \in User
    BY <1>4 DEF CloseState, TypeOK, CloseShut, CloseCleanup
  <2>2. InUse(cur)
    BY <2>1 DEF HandlerIsUser, InUse
  <2>3. TypeOK'
    BY <1>4, <2>1
    DEF TypeOK, CloseShut, CloseCleanup, CloseErase, Erase, Stored, Results,
        poolVars, userVars
  <2>4. CloseState'
    BY <1>4, <2>1 DEF CloseState, CloseShut, CloseCleanup, CloseErase, Erase, poolVars
  <2>5. CASE cpc' = "shut"
    <3>1. CloseCleanup /\ UNCHANGED <<poolVars, closed, userVars>>
      BY <1>4, <2>5 DEF CloseShut, CloseCleanup, CloseErase
    <3> QED BY <2>3, <2>4, <3>1, QuietStep DEF poolVars, userVars
  <2>6. CASE cpc' # "shut"
    <3>1. CloseErase(valid) \/ CloseErase(valid \ {cur})
      BY <1>4, <2>6, Zenon DEF CloseShut, CloseCleanup
    <3> QED BY <2>1, <2>2, <2>3, <2>4, <3>1, EraseStep DEF CloseErase, TypeOK
  <2> QED BY <2>5, <2>6
<1>5. CASE CloseFinish
  <2> USE DEF CloseFinish, poolVars
  <2>1. TypeOK'
    BY <1>5 DEF TypeOK, PCs
  <2>2. HeldWhileUsing' /\ ExclusiveUse' /\ HandlerIsUser'
    BY <1>5 DEF TypeOK, HeldWhileUsing, ExclusiveUse, HandlerIsUser
  <2>3. PoolEntriesValid' /\ NoLeak' /\ CloseState' /\ ClosedEmpty'
    BY <1>5 DEF PoolEntriesValid, NoLeak, InUse, CloseState, ClosedEmpty
  <2> QED BY <2>1, <2>2, <2>3
<1> QED BY <1>1, <1>2, <1>3, <1>4, <1>5 DEF ClosePool

LEMMA ClockStep ==
  ASSUME IInv,
         (\E s \in Sess : SessionExpires(s)) \/ (\E e \in EP : BlockExpires(e))
  PROVE  IInv'
<1> USE DEF IInv, SessionExpires, BlockExpires, userVars, closeVars
<1>1. TypeOK'
  BY DEF TypeOK
<1>2. CloseState'
  BY DEF CloseState
<1> QED BY <1>1, <1>2, QuietStep

LEMMA NextIInv == IInv /\ [Next]_vars => IInv'
<1> SUFFICES ASSUME IInv, [Next]_vars PROVE IInv'
  OBVIOUS
<1>1. CASE UNCHANGED vars
  <2> USE DEF vars, poolVars, userVars, closeVars
  <2>1. TypeOK' /\ CloseState'
    BY <1>1 DEF IInv, TypeOK, CloseState
  <2> QED BY <1>1, <2>1, QuietStep
<1>2. ASSUME NEW t \in User, Runs(t) PROVE IInv'
  BY <1>2, GetSessionStep, ThreadStep, ReleaseCheckStep, ReleaseSessionStep DEF Runs
<1>3. ASSUME NEW t \in User,
             \/ Construct(t) \/ SpuriousWakeup(t) \/ BeginOp(t)
             \/ CloseSession(t) \/ DestroySession(t) \/ DeadlinePasses(t)
      PROVE  IInv'
  BY <1>3, ThreadStep
<1>4. CASE ClosePool
  BY <1>4, ClosePoolStep
<1>5. CASE (\E s \in Sess : SessionExpires(s)) \/ (\E e \in EP : BlockExpires(e))
  BY <1>5, ClockStep
<1> QED BY <1>1, <1>2, <1>3, <1>4, <1>5 DEF Next

\* The invariant from which all the other results follow.
THEOREM Inductive == Spec => []IInv
  BY InitIInv, NextIInv, PTL DEF Spec

(***************************************************************************)
(* Results                                                                 *)
(***************************************************************************)

\* Every variable of the model keeps its type.
THEOREM TypeCorrect == Spec => []TypeOK
  BY Inductive, PTL DEF IInv

\* No CDK session is used by two threads, for any pool and any number of
\* threads: the use_count() == 1 test of get_pooled_session suffices.
THEOREM Exclusion == Spec => []ExclusiveUse
  BY Inductive, PTL DEF IInv

\* The m_cleanup handler of a pool entry is the Session_impl that uses it.
THEOREM HandlerMatches == Spec => []HandlerIsUser
  BY Inductive, PTL DEF IInv

\* m_pool holds open sessions only: try_session never reaches its bare throw.
THEOREM EntriesValid == Spec => []PoolEntriesValid
  BY Inductive, PTL DEF IInv

\* Every open session is in m_pool or in use.
THEOREM LeakFree == Spec => []NoLeak
  BY Inductive, PTL DEF IInv

\* set_pool_opts() runs before the pool is used: no step changes its options.
LEMMA OptionsFixed ==
  ASSUME [Next]_vars
  PROVE  m_max' = m_max /\ m_pool_enable' = m_pool_enable
<1>1. ASSUME NEW t \in User, Runs(t)
      PROVE  m_max' = m_max /\ m_pool_enable' = m_pool_enable
  BY <1>1, Zenon
  DEF Runs, GetSession, GetClosed, GetPooled, GetNew, GetPooledBlocked,
      GetNewBlocked, GetError, GetNull, GetUnpooled, Throw, Obtain, Hand,
      EnterWait, WaitTimeout, ConstructMembers, CheckValid, EndOp, ReleaseCheck,
      ReleaseSession, ReleaseNotify
<1>2. ASSUME NEW t \in User,
             \/ Construct(t) \/ SpuriousWakeup(t) \/ BeginOp(t)
             \/ CloseSession(t) \/ DestroySession(t) \/ DeadlinePasses(t)
      PROVE  m_max' = m_max /\ m_pool_enable' = m_pool_enable
  BY <1>2 DEF Construct, SpuriousWakeup, BeginOp, CloseSession, DestroySession,
     DeadlinePasses
<1>3. ClosePool => m_max' = m_max /\ m_pool_enable' = m_pool_enable
  BY Zenon DEF ClosePool, CloseBegin, CloseCleanup, CloseShut, CloseErase, CloseNextPass,
     CloseFinish, CloseUnused, CloseSkip, CloseLock, Erase
<1> QED BY <1>1, <1>2, <1>3 DEF Next, SessionExpires, BlockExpires, vars

LEMMA SizeStep ==
  ASSUME IInv, IInv', SizeBound, [Next]_vars
  PROVE  SizeBound'
<1> USE PoolAssumption DEF SizeBound
<1>1. IsFiniteSet(pool) /\ Cardinality(pool) \in Nat
  BY FS_Subset, FS_CardinalityType DEF IInv, TypeOK
<1>m. m_max' = m_max /\ m_max \in Nat
  BY OptionsFixed DEF IInv, TypeOK
<1>2. CASE pool' \subseteq pool
  <2>1. Cardinality(pool') <= Cardinality(pool) /\ IsFiniteSet(pool')
    BY <1>1, <1>2, FS_Subset
  <2>2. Cardinality(pool') \in Nat
    BY <2>1, FS_CardinalityType
  <2> QED BY <1>1, <1>m, <2>1, <2>2
<1>3. ASSUME NEW s \in Sess, NEW P \in SUBSET pool, Cardinality(P) < m_max,
             pool' = P \cup {s}
      PROVE  SizeBound'
  <2>1. IsFiniteSet(P) /\ Cardinality(P) \in Nat
    BY <1>1, FS_Subset, FS_CardinalityType
  <2>2. Cardinality(P \cup {s}) = IF s \in P THEN Cardinality(P) ELSE Cardinality(P) + 1
    BY <2>1, FS_AddElement, Zenon
  <2> QED BY <1>m, <1>3, <2>1, <2>2
<1>4. CASE ~(pool' \subseteq pool)
  <2>1. PICK t \in User : GetNew(t) \/ GetNewBlocked(t)
    <3>1. ASSUME NEW t \in User, GetSession(t), ~GetNew(t), ~GetNewBlocked(t)
          PROVE  pool' \subseteq pool
      <4>1. P1 \subseteq pool /\ P2 \subseteq pool /\ P4 \subseteq pool
            /\ A1 \subseteq pool /\ A3 \subseteq pool
        BY PhaseTypes DEF IInv, Idle
      <4> QED BY <3>1, <4>1, Zenon
          DEF GetSession, GetClosed, GetPooled, GetPooledBlocked, GetError,
              GetNull, GetUnpooled, Hand, poolVars
    <3>2. ASSUME NEW t \in User, Runs(t), ~GetSession(t)
          PROVE  pool' \subseteq pool
      BY <3>2, Zenon DEF Runs, EnterWait, WaitTimeout, ConstructMembers, CheckValid, EndOp,
         ReleaseCheck, ReleaseSession, ReleaseNotify, poolVars
    <3>3. ASSUME NEW t \in User,
                 \/ Construct(t) \/ SpuriousWakeup(t) \/ BeginOp(t)
                 \/ CloseSession(t) \/ DestroySession(t) \/ DeadlinePasses(t)
          PROVE  pool' \subseteq pool
      BY <3>3 DEF Construct, SpuriousWakeup, BeginOp, CloseSession, DestroySession,
         DeadlinePasses, poolVars
    <3>4. CASE ClosePool
      BY <1>4, <3>4, Zenon
      DEF ClosePool, CloseBegin, CloseCleanup, CloseShut, CloseErase, CloseNextPass,
          CloseFinish, CloseUnused, CloseSkip, CloseLock, Erase, poolVars
    <3>5. CASE UNCHANGED vars
      BY <1>4, <3>5 DEF vars, poolVars
    <3> QED BY <1>4, <3>1, <3>2, <3>3, <3>4, <3>5
        DEF Next, SessionExpires, BlockExpires
  <2>2. CASE GetNew(t)
    <3>1. PICK s \in Sess : pool' = P2 \cup {s}
      BY <2>2 DEF GetNew, Hand
    <3> QED BY <1>3, <2>2, <3>1, PhaseTypes DEF GetNew, IInv
  <2>3. CASE GetNewBlocked(t)
    <3>1. PICK s \in Sess : pool' = P4 \cup {s}
      BY <2>3 DEF GetNewBlocked, Hand
    <3> QED BY <1>3, <2>3, <3>1, PhaseTypes DEF GetNewBlocked, IInv
  <2> QED BY <2>1, <2>2, <2>3
<1> QED BY <1>2, <1>4

\* The pool never holds more than m_max sessions, whatever fails or expires.
THEOREM SizeBounded == Spec => []SizeBound
<1>1. Init => SizeBound
  BY PoolAssumption, FS_EmptySet DEF Init, SizeBound
<1>2. IInv /\ IInv' /\ SizeBound /\ [Next]_vars => SizeBound'
  BY SizeStep
<1> QED BY <1>1, <1>2, Inductive, PTL DEF Spec

\* Only get_session() sends a thread to wait, and then every session the pool
\* may hold is used by another thread.
THEOREM WaitsOnlyWhenFull == Spec => NullOnlyWhenFull
<1>1. ASSUME IInv, [Next]_vars, NEW t \in User, pc[t] = "cont", pc'[t] = "enter"
      PROVE  /\ Cardinality(pool') >= m_max
             /\ \A s \in pool' : \E u \in User \ {t} : held[u] = s
  <2>0. ASSUME NEW u \in User, GetSession(u), ~GetNull(u) PROVE pc'[t] = pc[t] \/ pc'[t] # "enter"
    BY <1>1, <2>0
    DEF IInv, TypeOK, GetSession, GetClosed, GetPooled, GetNew, GetPooledBlocked,
        GetNewBlocked, GetError, GetUnpooled, Throw, Obtain, Hand
  <2>1. GetNull(t)
    <3>1. ASSUME NEW u \in User, Runs(u), ~GetSession(u) PROVE FALSE
      BY <1>1, <3>1
      DEF IInv, TypeOK, Runs, EnterWait, WaitTimeout, ConstructMembers, CheckValid,
          EndOp, ReleaseCheck, ReleaseSession, ReleaseNotify, Waiting
    <3>2. ASSUME NEW u \in User,
                 \/ Construct(u) \/ SpuriousWakeup(u) \/ BeginOp(u)
                 \/ CloseSession(u) \/ DestroySession(u) \/ DeadlinePasses(u)
          PROVE  FALSE
      BY <1>1, <3>2
      DEF IInv, TypeOK, Construct, SpuriousWakeup, BeginOp, CloseSession,
          DestroySession, DeadlinePasses
    <3>3. CASE ClosePool
      BY <1>1, <3>3, Zenon
      DEF ClosePool, CloseBegin, CloseCleanup, CloseShut, CloseErase, CloseNextPass,
          CloseFinish, CloseUnused, CloseSkip, CloseLock, userVars
    <3>4. CASE UNCHANGED vars
      BY <1>1, <3>4 DEF vars, userVars
    <3>5. PICK u \in User : GetNull(u)
      BY <1>1, <2>0, <3>1, <3>2, <3>3, <3>4
      DEF Next, SessionExpires, BlockExpires, userVars
    <3> QED BY <1>1, <3>5, Zenon DEF IInv, TypeOK, GetNull, Throw
  <2>2. pool' = P4 /\ Cardinality(P4) >= m_max
    BY <2>1, Zenon DEF GetNull
  <2>3. \A s \in P4 : s \in Sess /\ InUse(s)
    BY <1>1, PhaseTypes DEF P4, A3, Idle, Avail, IInv, TypeOK
  <2>4. held[t] = NULL
    BY <1>1, Zenon DEF IInv, HeldWhileUsing
  <2> QED BY <2>2, <2>3, <2>4, PoolAssumption DEF InUse
<1>2. IInv /\ [Next]_vars =>
        [\A t \in User : pc[t] = "cont" /\ pc'[t] = "enter" =>
           /\ Cardinality(pool') >= m_max
           /\ \A s \in pool' : \E u \in User \ {t} : held[u] = s]_vars
  BY <1>1
<1> QED BY <1>2, Inductive, PTL DEF Spec, NullOnlyWhenFull

\* Nothing is taken from a closed pool.
THEOREM ClosedStaysClosed == Spec => ClosedForGood
<1>1. ASSUME IInv, IInv', [Next]_vars, closed
      PROVE  /\ pool' = {} /\ closed'
             /\ m_pool_enable => \A t \in User : held'[t] \in {held[t], NULL}
  <2>1. closed'
    BY <1>1, Zenon
    DEF Next, Runs, GetSession, GetClosed, GetPooled, GetNew,
        GetPooledBlocked, GetNewBlocked, GetError, GetNull, GetUnpooled,
        Throw, Obtain, Hand, EnterWait,
        WaitTimeout, ConstructMembers, CheckValid, EndOp, ReleaseCheck,
        ReleaseSession, ReleaseNotify, Construct, SpuriousWakeup, BeginOp,
        CloseSession, DestroySession, DeadlinePasses, ClosePool, CloseBegin,
        CloseCleanup, CloseShut, CloseErase, CloseNextPass, CloseFinish,
        CloseUnused, CloseSkip, CloseLock, SessionExpires, BlockExpires, vars
  <2>2. pool' = {}
    BY <1>1, <2>1 DEF IInv, ClosedEmpty
  <2>3. ASSUME m_pool_enable, NEW t \in User PROVE held'[t] \in {held[t], NULL}
    BY <1>1, <2>3, Zenon
    DEF IInv, TypeOK, Next, Runs, GetSession, GetClosed, GetPooled, GetNew,
        GetPooledBlocked, GetNewBlocked, GetError, GetNull, GetUnpooled,
        Throw, EnterWait,
        WaitTimeout, ConstructMembers, CheckValid, EndOp, ReleaseCheck,
        ReleaseSession, ReleaseNotify, Construct, SpuriousWakeup, BeginOp,
        CloseSession, DestroySession, DeadlinePasses, ClosePool, CloseBegin,
        CloseCleanup, CloseShut, CloseErase, CloseNextPass, CloseFinish,
        CloseUnused, CloseSkip, CloseLock, SessionExpires, BlockExpires,
        vars, userVars
  <2> QED BY <2>1, <2>2, <2>3
<1>2. IInv /\ IInv' /\ [Next]_vars =>
        [closed => /\ pool' = {} /\ closed'
                   /\ m_pool_enable => \A t \in User : held'[t] \in {held[t], NULL}]_vars
  BY <1>1
<1> QED BY <1>2, Inductive, PTL DEF Spec, ClosedForGood
=============================================================================
