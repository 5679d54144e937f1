--------------------------- MODULE PoolRefinement ---------------------------
(***************************************************************************)
(* The session pool implements the allocator of PoolAbstract, for any      *)
(* number of threads, sessions and end points, with and without pooling:   *)
(* every step of SessionPool is a step of the allocator or leaves its      *)
(* variables unchanged.                                                    *)
(***************************************************************************)
EXTENDS SessionPoolProofs

USE DEF PoolMutexFree, UsePCs, flags, TimeToLive

(***************************************************************************)
(* The invariant of SessionPoolProofs says nothing of the sessions in use  *)
(* being counted by the pool.  They are, until close() starts to erase     *)
(* them; after that none is handed out.                                    *)
(***************************************************************************)

\* While sessions can be handed out, those in use are entries of m_pool.
HeldInPool ==
  m_pool_enable /\ ~closed /\ cpc = "idle" =>
    \A t \in User : held[t] # NULL => held[t] \in pool

\* With pooling disabled m_pool stays empty.
DisabledEmpty == ~m_pool_enable => pool = {}

RInv == IInv /\ SizeBound /\ HeldInPool /\ DisabledEmpty

\* The steps of a thread that move no session.
Quiet(t) ==
  \/ GetClosed(t) \/ Construct(t) \/ EnterWait(t) \/ WaitTimeout(t)
  \/ SpuriousWakeup(t) \/ ConstructMembers(t) \/ CheckValid(t) \/ BeginOp(t)
  \/ EndOp(t) \/ CloseSession(t) \/ DestroySession(t) \/ ReleaseNotify(t)
  \/ DeadlinePasses(t)

\* What a step does to m_pool and to the references of the threads, in the
\* terms of the allocator.
Taken(t) ==
  \E s \in Sess :
    /\ held[t] = NULL /\ ~InUse(s)
    /\ held' = [held EXCEPT ![t] = s]
    /\ closed' = closed /\ cpc' = cpc /\ cpc = "idle"
    /\ \/ /\ m_pool_enable /\ ~closed
          /\ \E P \in SUBSET pool :
               /\ pool' = P \cup {s}
               /\ \A x \in pool \ P : ~InUse(x)
       \/ ~m_pool_enable /\ pool' = pool

Given(t) ==
  /\ held[t] # NULL
  /\ held' = [held EXCEPT ![t] = NULL]
  /\ closed' = closed /\ cpc' = cpc
  /\ pool' \subseteq pool
  /\ \A x \in pool \ pool' : ~InUse(x)

Dropped ==
  /\ held' = held /\ closed' = closed
  /\ pool' \subseteq pool
  /\ cpc' = "idle" =>
       cpc = "idle" /\ \A x \in pool \ pool' : ~InUse(x)

LEMMA GetSessionEffect ==
  ASSUME IInv, NEW t \in User, GetSession(t)
  PROVE  Taken(t) \/ Dropped
<1>0. held[t] = NULL /\ cpc = "idle" /\ TypeOK
  BY DEF IInv, HeldWhileUsing, GetSession, Asking, GetClosed, GetPooled, GetNew,
     GetPooledBlocked, GetNewBlocked, GetError, GetNull, GetUnpooled
<1>1. /\ P1 \subseteq pool /\ P2 \subseteq pool /\ P4 \subseteq pool
      /\ A1 \subseteq Sess /\ A3 \subseteq Sess
      /\ \A x \in A1 \cup A3 : ~InUse(x)
  BY <1>0, PhaseTypes DEF Idle
<1>2. \A x \in (pool \ P1) \cup (pool \ P2) \cup (pool \ P4) : ~InUse(x)
  BY <1>0, <1>1 DEF P1, P2, P4, A1, A3, Idle, Avail
<1>3. ASSUME NEW s \in Sess, NEW P \in SUBSET pool, ~InUse(s),
             m_pool_enable, ~closed, \A x \in pool \ P : ~InUse(x),
             pool' = P \cup {s}, Obtain(t, s)
      PROVE  Taken(t)
  BY <1>0, <1>3, Zenon DEF Taken, Obtain, closeVars
<1>4. CASE GetClosed(t)
  BY <1>4, <1>0 DEF GetClosed, Throw, Dropped, poolVars, closeVars
<1>5. CASE GetPooled(t)
  <2>1. PICK s \in A1 : \E F \in SUBSET (A1 \ {s}) :
          Hand(t, s, P1 \ F, BlockFailed(blocked, F))
    BY <1>5, Zenon DEF GetPooled
  <2>2. PICK F \in SUBSET (A1 \ {s}) : Hand(t, s, P1 \ F, BlockFailed(blocked, F))
    BY <2>1
  <2>3. P1 \ F \in SUBSET pool /\ \A x \in pool \ (P1 \ F) : ~InUse(x)
    BY <1>1, <1>2
  <2> QED BY <1>1, <1>3, <1>5, <2>2, <2>3, Zenon DEF GetPooled, Hand
<1>6. CASE GetNew(t)
  <2>1. PICK s \in Sess : ~InUse(s) /\ pool' = P2 \cup {s} /\ Obtain(t, s)
    BY <1>6 DEF GetNew, Hand
  <2> QED BY <1>1, <1>2, <1>3, <1>6, <2>1 DEF GetNew
<1>7. CASE GetPooledBlocked(t)
  <2>1. PICK s \in A3 : \E F \in SUBSET (A3 \ {s}), B3 \in SUBSET EP :
          TriedNew(B3) /\ Hand(t, s, P2 \ F, BlockFailed(B3, F))
    BY <1>7, Zenon DEF GetPooledBlocked
  <2>2. PICK F \in SUBSET (A3 \ {s}), B3 \in SUBSET EP :
          Hand(t, s, P2 \ F, BlockFailed(B3, F))
    BY <2>1
  <2>3. P2 \ F \in SUBSET pool /\ \A x \in pool \ (P2 \ F) : ~InUse(x)
    BY <1>1, <1>2
  <2> QED BY <1>1, <1>3, <1>7, <2>2, <2>3, Zenon DEF GetPooledBlocked, Hand
<1>8. CASE GetNewBlocked(t)
  <2>1. PICK s \in Sess : ~InUse(s) /\ pool' = P4 \cup {s} /\ Obtain(t, s)
    BY <1>8 DEF GetNewBlocked, Hand
  <2> QED BY <1>1, <1>2, <1>3, <1>8, <2>1 DEF GetNewBlocked
<1>9. CASE GetError(t) \/ GetNull(t)
  BY <1>0, <1>1, <1>2, <1>9 DEF GetError, GetNull, Throw, Dropped, closeVars
<1>10. CASE GetUnpooled(t)
  <2>1. CASE Throw(t) /\ UNCHANGED poolVars
    BY <1>0, <2>1 DEF Throw, Dropped, poolVars, closeVars
  <2>2. CASE ~(Throw(t) /\ UNCHANGED poolVars)
    <3>1. PICK s \in Fresh : Obtain(t, s) /\ UNCHANGED pool
      BY <1>10, <2>2 DEF GetUnpooled
    <3> QED BY <1>0, <1>10, <3>1, Zenon DEF GetUnpooled, Taken, Obtain, Fresh, closeVars
  <2> QED BY <2>1, <2>2
<1> QED BY <1>4, <1>5, <1>6, <1>7, <1>8, <1>9, <1>10 DEF GetSession

LEMMA ReleaseEffect ==
  ASSUME IInv, NEW t \in User, ReleaseCheck(t) \/ ReleaseSession(t)
  PROVE  Given(t) \/ Dropped
<1>0. held[t] # NULL
  BY DEF IInv, HeldWhileUsing, ReleaseCheck, ReleaseSession
<1>1. CASE ReleaseCheck(t)
  BY <1>0, <1>1 DEF ReleaseCheck, Given, Dropped, closeVars
<1>2. CASE ReleaseSession(t)
  <2>1. \A x \in pool \ pool' : ~InUse(x)
    BY <1>2 DEF ReleaseSession, Idle
  <2> QED BY <1>0, <1>2, <2>1 DEF ReleaseSession, Given, closeVars
<1> QED BY <1>1, <1>2

LEMMA QuietEffect ==
  ASSUME NEW t \in User, Quiet(t)
  PROVE  Dropped
  BY DEF Quiet, Dropped, GetClosed, Throw, Construct, EnterWait, WaitTimeout,
     SpuriousWakeup, ConstructMembers, CheckValid, BeginOp, EndOp, CloseSession,
     DestroySession, ReleaseNotify, DeadlinePasses, poolVars, closeVars

LEMMA CloseEffect ==
  ASSUME ClosePool
  PROVE  Dropped \/ CloseFinish
<1>1. CASE CloseBegin \/ CloseNextPass \/ \E s \in Sess : CloseSkip(s) \/ CloseLock(s)
  BY <1>1 DEF CloseBegin, CloseNextPass, CloseSkip, CloseLock, Dropped, poolVars,
     userVars
<1>2. CASE CloseCleanup \/ CloseShut \/ \E s \in Sess : CloseUnused(s)
  BY <1>2 DEF CloseCleanup, CloseShut, CloseUnused, CloseErase, Erase, Dropped,
     poolVars, userVars
<1> QED BY <1>1, <1>2 DEF ClosePool

\* Every step is one of the effects above.
LEMMA Effects ==
  ASSUME IInv, [Next]_vars
  PROVE  \/ \E t \in User : Taken(t) \/ Given(t)
         \/ Dropped \/ CloseFinish
<1>1. ASSUME NEW t \in User, Runs(t)
      PROVE  Taken(t) \/ Given(t) \/ Dropped
  BY <1>1, GetSessionEffect, ReleaseEffect, QuietEffect DEF Runs, Quiet
<1>2. ASSUME NEW t \in User,
             \/ Construct(t) \/ SpuriousWakeup(t) \/ BeginOp(t)
             \/ CloseSession(t) \/ DestroySession(t) \/ DeadlinePasses(t)
      PROVE  Dropped
  BY <1>2, QuietEffect DEF Quiet
<1>3. CASE (\E s \in Sess : SessionExpires(s)) \/ (\E e \in EP : BlockExpires(e))
  BY <1>3 DEF SessionExpires, BlockExpires, Dropped, userVars, closeVars
<1>4. CASE UNCHANGED vars
  BY <1>4 DEF vars, Dropped, poolVars, userVars, closeVars
<1> QED BY <1>1, <1>2, <1>3, <1>4, CloseEffect DEF Next

LEMMA InitRInv == Init => RInv
<1> SUFFICES ASSUME Init PROVE RInv
  OBVIOUS
<1>1. SizeBound
  BY PoolAssumption, FS_EmptySet DEF Init, SizeBound
<1>2. HeldInPool /\ DisabledEmpty
  BY DEF Init, HeldInPool, DisabledEmpty
<1> QED BY <1>1, <1>2, InitIInv DEF RInv

LEMMA NextRInv == RInv /\ [Next]_vars => RInv'
<1> SUFFICES ASSUME RInv, [Next]_vars PROVE RInv'
  OBVIOUS
<1> USE DEF RInv
<1>1. IInv' /\ SizeBound'
  BY NextIInv, SizeStep
<1>2. m_pool_enable' = m_pool_enable
  BY OptionsFixed
<1>3. HeldInPool' /\ DisabledEmpty'
  <2>1. CASE Dropped
    BY <1>2, <2>1 DEF Dropped, HeldInPool, DisabledEmpty, InUse
  <2>2. CASE CloseFinish
    BY <1>2, <2>2 DEF CloseFinish, HeldInPool, DisabledEmpty, poolVars
  <2>3. ASSUME NEW t \in User, Given(t)
        PROVE  HeldInPool' /\ DisabledEmpty'
    BY <1>2, <2>3 DEF Given, HeldInPool, DisabledEmpty, InUse, IInv, TypeOK
  <2>4. ASSUME NEW t \in User, Taken(t)
        PROVE  HeldInPool' /\ DisabledEmpty'
    BY <1>2, <2>4 DEF Taken, HeldInPool, DisabledEmpty, InUse, IInv, TypeOK
  <2> QED BY <2>1, <2>2, <2>3, <2>4, Effects
<1> QED BY <1>1, <1>3

\* The initial states of the pool are initial states of the allocator.
LEMMA InitMaps == Init => Allocator!Init
  BY DEF Init, Allocator!Init, Unused

\* A thread gets a session: the sessions that are held after that are entries
\* of m_pool, of which there are at most m_max.
LEMMA TakeMaps ==
  ASSUME RInv, RInv', NEW t \in User, Taken(t), m_max' = m_max,
         m_pool_enable' = m_pool_enable
  PROVE  Allocator!Next
<1> USE DEF RInv
<1>1. PICK s \in Sess :
        /\ held[t] = NULL /\ ~InUse(s)
        /\ held' = [held EXCEPT ![t] = s]
        /\ closed' = closed /\ cpc' = cpc /\ cpc = "idle"
        /\ \/ /\ m_pool_enable /\ ~closed
              /\ \E P \in SUBSET pool : pool' = P \cup {s}
           \/ ~m_pool_enable /\ pool' = pool
  BY Zenon DEF Taken
<1>2. s \in Sess \ Allocator!Held
  BY <1>1 DEF Allocator!Held, InUse
<1>3. Unused' \subseteq Unused \ {s}
  <2> SUFFICES ASSUME NEW x \in pool', ~InUse(x)'
               PROVE  x \in Unused /\ x # s
    BY DEF Unused
  <2>1. x # s
    BY <1>1 DEF InUse, IInv, TypeOK
  <2>2. \A u \in User : held[u] # x
    BY <1>1, PoolAssumption DEF InUse, IInv, TypeOK
  <2> QED BY <1>1, <2>1, <2>2 DEF Unused, InUse
<1>4. m_pool_enable => Cardinality(Allocator!Held') <= m_max
  <2> SUFFICES ASSUME m_pool_enable
               PROVE  Cardinality(Allocator!Held') <= m_max
    OBVIOUS
  <2>1. Allocator!Held' \subseteq pool'
    BY <1>1 DEF Allocator!Held, HeldInPool
  <2>2. IsFiniteSet(pool') /\ Cardinality(pool') <= m_max
    BY PoolAssumption, FS_Subset DEF IInv, TypeOK, SizeBound
  <2>3. /\ IsFiniteSet(Allocator!Held')
        /\ Cardinality(Allocator!Held') <= Cardinality(pool')
    BY <2>1, <2>2, FS_Subset
  <2>4. /\ Cardinality(Allocator!Held') \in Nat /\ Cardinality(pool') \in Nat
        /\ m_max \in Nat
    BY <2>2, <2>3, FS_CardinalityType, PoolAssumption DEF IInv, TypeOK
  <2> QED BY <2>2, <2>3, <2>4
<1>5. ASSUME NEW S PROVE Allocator!Cardinality(S) = Cardinality(S)
  BY DEF Allocator!Cardinality, Cardinality
<1>6. Allocator!Take(t)
  BY <1>1, <1>2, <1>3, <1>4, <1>5, Zenon DEF Allocator!Take
<1> QED BY <1>6 DEF Allocator!Next

\* A thread lets its session go: it may stay for the next one, unless the
\* pool is closed or pooling is disabled.
LEMMA GiveMaps ==
  ASSUME RInv, RInv', NEW t \in User, Given(t), m_max' = m_max,
         m_pool_enable' = m_pool_enable
  PROVE  Allocator!Next
<1> USE DEF RInv, Given
<1>1. Unused' \subseteq Unused \cup {held[t]}
  BY DEF Unused, InUse, IInv, TypeOK
<1>2. closed \/ ~m_pool_enable => Unused' = {}
  BY DEF Unused, IInv, ClosedEmpty, DisabledEmpty
<1>3. Allocator!Give(t)
  BY <1>1, <1>2 DEF Allocator!Give
<1> QED BY <1>3 DEF Allocator!Next

\* Every step of the pool is a step of the allocator.
LEMMA NextMaps ==
  ASSUME RInv, RInv', [Next]_vars
  PROVE  Allocator!Next
<1>0. m_max' = m_max /\ m_pool_enable' = m_pool_enable /\ IInv
  BY OptionsFixed DEF RInv
<1>1. CASE Dropped
  <2>1. Unused' \subseteq Unused
    BY <1>1 DEF Dropped, Unused, InUse
  <2>2. Allocator!Drop
    BY <1>1, <2>1 DEF Dropped, Allocator!Drop
  <2> QED BY <1>0, <2>2 DEF Allocator!Next
<1>2. CASE CloseFinish
  <2>1. Unused = {} /\ Unused' = {} /\ held' = held /\ closed'
    BY <1>2 DEF CloseFinish, Unused, poolVars
  <2>2. Allocator!Close
    BY <1>2, <2>1 DEF CloseFinish, Allocator!Close
  <2> QED BY <1>0, <2>2 DEF Allocator!Next
<1> QED BY <1>0, <1>1, <1>2, Effects, TakeMaps, GiveMaps

\* The pool implements the allocator: a thread gets a session nobody holds,
\* at most m_max sessions are held, and a closed pool hands out none.
THEOREM PoolImplementsAllocator == Spec => AllocatesSessions
<1>1. RInv /\ RInv' /\ [Next]_vars => [Allocator!Next]_(Allocator!vars)
  BY NextMaps
<1> QED
  BY <1>1, InitRInv, NextRInv, InitMaps, PTL
  DEF Spec, AllocatesSessions, Allocator!Spec

\* A thread that gets a session on a block-listed end point had no better one
\* left: the sessions on other end points that were idle have failed, and their
\* end points are block-listed now.
LEMMA LastResortStep ==
  ASSUME RInv, [Next]_vars, NEW t \in User,
         held[t] = NULL, held'[t] # NULL, ep'[held'[t]] \in blocked
  PROVE  Ends(A1) \subseteq blocked'
<1> USE DEF RInv, Ends, BlockFailed, BlockVisited
<1>0. TypeOK
  BY DEF IInv
<1>1. /\ A1 \subseteq Sess /\ B2 \subseteq EP
      /\ \A x \in A1 : ep[x] \notin blocked
      /\ blocked \subseteq B2 /\ Ends(A1) \subseteq B2
  BY <1>0, PhaseTypes DEF A1, Avail, B2
<1>2. GetSession(t)
  <2>1. ASSUME NEW u \in User, Runs(u), ~GetSession(u)
        PROVE  held'[t] \in {held[t], NULL}
    BY <1>0, <2>1 DEF TypeOK, Runs, EnterWait, WaitTimeout, ConstructMembers,
       CheckValid, EndOp, ReleaseCheck, ReleaseSession, ReleaseNotify
  <2>2. ASSUME NEW u \in User,
               \/ Construct(u) \/ SpuriousWakeup(u) \/ BeginOp(u)
               \/ CloseSession(u) \/ DestroySession(u) \/ DeadlinePasses(u)
        PROVE  held'[t] = held[t]
    BY <2>2 DEF Construct, SpuriousWakeup, BeginOp, CloseSession, DestroySession,
       DeadlinePasses
  <2>3. ASSUME ClosePool \/ UNCHANGED vars
               \/ (\E s \in Sess : SessionExpires(s)) \/ (\E e \in EP : BlockExpires(e))
        PROVE  held'[t] = held[t]
    BY <2>3, Zenon DEF ClosePool, CloseBegin, CloseCleanup, CloseShut, CloseErase,
       CloseNextPass, CloseFinish, CloseUnused, CloseSkip, CloseLock,
       SessionExpires, BlockExpires, vars, userVars
  <2>4. ASSUME NEW u \in User, GetSession(u), u # t
        PROVE  held'[t] = held[t]
    BY <1>0, <2>4 DEF TypeOK, GetSession, GetClosed, GetPooled, GetNew,
       GetPooledBlocked, GetNewBlocked, GetError, GetNull, GetUnpooled, Throw,
       Obtain, Hand
  <2> QED BY <2>1, <2>2, <2>3, <2>4 DEF Next
<1>3. CASE GetPooled(t)
  <2>1. PICK s \in A1 : held' = [held EXCEPT ![t] = s] /\ ep' = ep
    BY <1>3, Zenon DEF GetPooled, Hand, Obtain
  <2> QED BY <1>0, <1>1, <2>1 DEF TypeOK
<1>4. CASE GetNew(t)
  <2>1. PICK s \in Sess, e \in EP \ B2 :
          held' = [held EXCEPT ![t] = s] /\ ep' = [ep EXCEPT ![s] = e]
    BY <1>4, Zenon DEF GetNew, Hand, Obtain
  <2> QED BY <1>0, <1>1, <2>1 DEF TypeOK
<1>5. CASE GetPooledBlocked(t)
  <2>1. PICK B3 \in SUBSET EP : TriedNew(B3) /\ B3 \subseteq blocked'
    BY <1>5 DEF GetPooledBlocked, Hand
  <2>2. B2 \subseteq B3
    BY <2>1 DEF TriedNew
  <2> QED BY <1>1, <2>1, <2>2
<1>6. CASE GetNewBlocked(t)
  <2>1. PICK s \in Sess, e \in B2, B3 \in SUBSET EP :
          /\ TriedNew(B3) /\ B3 \ {e} \subseteq blocked'
          /\ held' = [held EXCEPT ![t] = s] /\ ep' = [ep EXCEPT ![s] = e]
    BY <1>6, Zenon DEF GetNewBlocked, Hand, Obtain
  <2>2. B2 \subseteq B3
    BY <2>1 DEF TriedNew
  <2>3. e \in blocked
    BY <1>0, <2>1 DEF TypeOK
  <2> QED BY <1>1, <2>1, <2>2, <2>3
<1>7. CASE GetUnpooled(t)
  <2>1. A1 = {}
    BY <1>7 DEF GetUnpooled, DisabledEmpty, A1, Avail, Idle, P1
  <2> QED BY <2>1
<1> QED BY <1>0, <1>2, <1>3, <1>4, <1>5, <1>6, <1>7
    DEF TypeOK, GetSession, GetClosed, GetError, GetNull, Throw

\* Block-listed end points are the last resort of get_session(), whatever the
\* number of end points and whichever of them fail.
THEOREM BlockListRespected == Spec => BlockListedIsLastResort
<1>1. RInv /\ [Next]_vars =>
        [\A t \in User :
           held[t] = NULL /\ held'[t] # NULL /\ ep'[held'[t]] \in blocked
             => Ends(A1) \subseteq blocked']_vars
  BY LastResortStep
<1> QED BY <1>1, InitRInv, NextRInv, PTL DEF Spec, BlockListedIsLastResort
=============================================================================
