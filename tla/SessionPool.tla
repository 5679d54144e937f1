---------------------------- MODULE SessionPool ----------------------------
(***************************************************************************)
(* The session pool of the X DevAPI client (common/session.h and           *)
(* common/session.cc): application threads take a CDK session from the     *)
(* pool by constructing a Session_impl, use it, and give it back, while    *)
(* another thread may call Session_pool::close().                          *)
(*                                                                         *)
(* Each application thread owns at most one Session_impl at a time, so     *)
(* the thread stands for its Session_impl: cleanup[s] = t says that the    *)
(* m_cleanup handler of the pool entry s points at t's Session_impl.       *)
(*                                                                         *)
(* m_pool_mutex is held by close() from its first to its last step; every  *)
(* other use of it is a single step, enabled only while close() is not     *)
(* running.  m_reelase_mutex only protects single steps.  Clock values are *)
(* abstracted to whether a deadline has passed.                            *)
(***************************************************************************)
EXTENDS Naturals, FiniteSets

CONSTANTS User,       \* application threads (and their Session_impl)
          Sess,       \* identities of CDK sessions; a dead one can be re-used
          EP,         \* end points of the multi-source
          MaxSizes,   \* values of m_max and m_pool_enable that set_pool_opts()
          PoolEnable, \* may set
          NULL

ASSUME PoolAssumption ==
  /\ MaxSizes \subseteq Nat \ {0}
  /\ PoolEnable \subseteq BOOLEAN
  /\ NULL \notin User \cup Sess
  /\ IsFiniteSet(Sess)
  /\ EP # {}

VARIABLES
  pool,      \* keys of m_pool
  cleanup,   \* Sess_data::m_cleanup of each session
  expired,   \* idle sessions whose m_deadline has passed
  ep,        \* end point each session is connected to (cdk::Session::id)
  blocked,   \* unexpired entries of m_block_list
  valid,     \* sessions that were created and not closed (m_isvalid)
  closed,    \* m_pool_closed
  m_pool_enable, m_max,
  pc,        \* what each application thread is doing
  impl,      \* life cycle of the thread's Session_impl
  held,      \* the CDK session its Pooled_session points at
  late,      \* threads whose Pooled_session::m_deadline has passed
  result,    \* state of Session_impl::m_current_result
  mutex,     \* owner of Session_impl::m_mutex
  cpc, todo, first, cur   \* close(): step, entries left in this pass,
                          \* first_iteration, entry being cleaned up

poolVars  == <<pool, cleanup, expired, ep, blocked, valid>>
flags     == <<closed, m_pool_enable, m_max>>
userVars  == <<pc, impl, held, late>>
closeVars == <<cpc, todo, first, cur>>
vars == <<poolVars, flags, userVars, result, mutex, closeVars>>

PCs == {"none", "ctor", "cont", "enter", "waiting", "members", "body",
        "using", "in_op", "release", "rel_lock", "notify"}
Impls == {"none", "partial", "live", "dying"}
\* No result is registered; one that can be stored; one whose rows end in a server
\* error, which deregisters it and is then thrown; one whose next result set is
\* an error, which is thrown whenever the result is stored.
Results == {"none", "pending", "row_error", "rset_error"}
Throws(r) == r \in {"row_error", "rset_error"}
Stored(r) == IF r = "rset_error" THEN r ELSE "none"
Closer == "closer"

\* The variables have the values that the members of Session_pool,
\* Pooled_session and Session_impl can have; the block list names end points.
TypeOK ==
  /\ pool \subseteq Sess
  /\ cleanup \in [Sess -> User \cup {NULL}]
  /\ expired \subseteq Sess
  /\ ep \in [Sess -> EP]
  /\ blocked \subseteq EP
  /\ valid \subseteq Sess
  /\ closed \in BOOLEAN /\ m_pool_enable \in BOOLEAN /\ m_max \in MaxSizes
  /\ pc \in [User -> PCs]
  /\ impl \in [User -> Impls]
  /\ held \in [User -> Sess \cup {NULL}]
  /\ late \subseteq User
  /\ result \in [User -> Results]
  /\ mutex \in [User -> {"free", "user", Closer}]
  /\ cpc \in {"idle", "sweep", "clean", "shut"}
  /\ todo \subseteq Sess
  /\ first \in BOOLEAN
  /\ cur \in Sess \cup {NULL}

Init ==
  /\ pool = {} /\ expired = {} /\ blocked = {} /\ valid = {}
  /\ cleanup = [s \in Sess |-> NULL]
  /\ ep = [s \in Sess |-> CHOOSE e \in EP : TRUE]
  /\ closed = FALSE /\ m_pool_enable \in PoolEnable /\ m_max \in MaxSizes
  /\ pc = [t \in User |-> "none"]
  /\ impl = [t \in User |-> "none"]
  /\ held = [t \in User |-> NULL]
  /\ late = {}
  /\ result = [t \in User |-> "none"]
  /\ mutex = [t \in User |-> "free"]
  /\ cpc = "idle" /\ todo = {} /\ first = TRUE /\ cur = NULL

InUse(s) == \E u \in User : held[u] = s
Idle(P) == {s \in P : ~InUse(s)}          \* use_count() == 1
Fresh == {s \in Sess \ pool : ~InUse(s)}  \* identities for a new cdk::Session
Ends(S) == {ep[s] : s \in S}
PoolMutexFree == cpc = "idle"

(***************************************************************************)
(* Getting a session                                                       *)
(***************************************************************************)

\* Session_impl(pool): the Pooled_session member is constructed first and sets
\* its deadline; the remaining members of Session_impl do not exist yet.
Construct(t) ==
  /\ pc[t] = "none"
  /\ pc' = [pc EXCEPT ![t] = "ctor"]
  /\ impl' = [impl EXCEPT ![t] = "partial"]
  /\ late' = late \ {t}
  /\ UNCHANGED <<poolVars, flags, held, result, mutex, closeVars>>

\* do_cont() is called by the Pooled_session constructor and then in do_wait().
Asking(t) == pc[t] \in {"ctor", "cont"} /\ PoolMutexFree

\* do_cont() has a session: the constructor goes on to the other members of
\* Session_impl, do_wait() returns to the body of the Session_impl constructor.
Obtain(t, s) ==
  /\ held' = [held EXCEPT ![t] = s]
  /\ pc' = [pc EXCEPT ![t] = IF @ = "ctor" THEN "members" ELSE "body"]
  /\ UNCHANGED <<impl, late, flags, result, mutex, closeVars>>

\* An exception leaves the constructor: there is no Session_impl.
Throw(t) ==
  /\ pc' = [pc EXCEPT ![t] = "none"]
  /\ impl' = [impl EXCEPT ![t] = "none"]
  /\ UNCHANGED <<held, late, flags, result, mutex, closeVars>>

\* time_to_live_cleanup() erases the idle sessions past their deadline.
TimeToLive(P) == P \ (Idle(P) \cap expired)

Hand_unlisted(t, s, P, B) ==  \* a new session is not entered in m_pool
  /\ pool' = P
  /\ cleanup' = [cleanup EXCEPT ![s] = t]
  /\ blocked' = B
  /\ expired' = (expired \cap P) \ {s}
  /\ valid' = (valid \ (pool \ P)) \cup {s}
  /\ Obtain(t, s)

\* The effect on the pool of get_session() having reset or removed sessions:
\* P and B are the new m_pool and block list, s is the session handed to t.
Hand(t, s, P, B) ==
  /\ pool' = P \cup {s}
  /\ cleanup' = [cleanup EXCEPT ![s] = t]
  /\ blocked' = B
  /\ expired' = (expired \cap P) \ {s}
  /\ valid' = (valid \ (pool \ P)) \cup {s}
  /\ Obtain(t, s)


\* get_pooled_session() and try_session(): of the sessions A, those in F are
\* tried and fail to reset, which removes them and block-lists their end point.
BlockFailed(B, F) == B \cup Ends(F)

\* A new cdk::Session: of the end points C accepted by the filter, those in D
\* fail and are block-listed, then e is connected and leaves the block list.
BlockVisited(B, D, e) == (B \cup D) \ {e}

Avail_nofilter(P, filter) == Idle(P)  \* block list ignored in the first phase

\* The sessions get_pooled_session(filter_block_listed) considers.
Avail(P, filter) == {s \in Idle(P) : filter => ep[s] \notin blocked}

\* All attempts with an available session of P fail: what is left of the pool.
P1 == TimeToLive(pool)
A1 == Avail(P1, TRUE)
P2 == P1 \ A1
B2 == BlockFailed(blocked, A1)
A3 == Idle(P2)
P4 == P2 \ A3

GetClosed(t) ==
  /\ Asking(t) /\ m_pool_enable /\ closed
  /\ Throw(t)
  /\ UNCHANGED poolVars

\* A session whose end point is not block-listed is re-used.
GetPooled(t) ==
  /\ Asking(t) /\ m_pool_enable /\ ~closed
  /\ \E s \in A1 : \E F \in SUBSET (A1 \ {s}) :
       Hand(t, s, P1 \ F, BlockFailed(blocked, F))
  /\ UNCHANGED ep

GetNew_off_by_one(t) ==  \* room is tested with <=
  /\ Asking(t) /\ m_pool_enable /\ ~closed
  /\ Cardinality(P2) <= m_max
  /\ \E s \in Sess \ P2, e \in EP \ B2 :
       /\ ~InUse(s)
       /\ Hand(t, s, P2, BlockVisited(B2, {}, e))
       /\ ep' = [ep EXCEPT ![s] = e]

\* There is room for a session on an end point that is not block-listed.
GetNew(t) ==
  /\ Asking(t) /\ m_pool_enable /\ ~closed
  /\ Cardinality(P2) < m_max
  /\ \E s \in Sess \ P2, e \in EP \ B2 : \E D \in SUBSET (EP \ (B2 \cup {e})) :
       /\ ~InUse(s)
       /\ Hand(t, s, P2, BlockVisited(B2, D, e))
       /\ ep' = [ep EXCEPT ![s] = e]

\* The block list after the first attempt to create a session was skipped or
\* failed: end points D were tried, all of them or up to a bail-out error.
TriedNew(B3) ==
  \/ Cardinality(P2) >= m_max /\ B3 = B2
  \/ /\ Cardinality(P2) < m_max
     /\ \E D \in SUBSET (EP \ B2) : (D # {} \/ EP \subseteq B2) /\ B3 = B2 \cup D

\* A session on a block-listed end point is re-used.
GetPooledBlocked(t) ==
  /\ Asking(t) /\ m_pool_enable /\ ~closed
  /\ \E s \in A3 : \E F \in SUBSET (A3 \ {s}), B3 \in SUBSET EP :
       TriedNew(B3) /\ Hand(t, s, P2 \ F, BlockFailed(B3, F))
  /\ UNCHANGED ep

\* There is room for a session on an end point that was block-listed.
GetNewBlocked(t) ==
  /\ Asking(t) /\ m_pool_enable /\ ~closed
  /\ Cardinality(P4) < m_max
  /\ \E s \in Sess \ P4, e \in B2, B3 \in SUBSET EP : \E D \in SUBSET (B2 \ {e}) :
       /\ ~InUse(s) /\ TriedNew(B3)
       /\ Hand(t, s, P4, BlockVisited(BlockFailed(B3, A3), D, e))
       /\ ep' = [ep EXCEPT ![s] = e]

\* The last attempt to create a session failed too: its error propagates.
GetError(t) ==
  /\ Asking(t) /\ m_pool_enable /\ ~closed
  /\ Cardinality(P4) < m_max
  /\ \E B3 \in SUBSET EP, D \in SUBSET B2 :
       /\ TriedNew(B3) /\ (D # {} \/ B2 = {})
       /\ blocked' = BlockFailed(B3, A3) \cup D
  /\ pool' = P4 /\ expired' = expired \cap P4 /\ valid' = valid \ (pool \ P4)
  /\ Throw(t)
  /\ UNCHANGED <<cleanup, ep>>

GetNull_stale(t) ==      \* the size is read before failed sessions are removed
  /\ Asking(t) /\ m_pool_enable /\ ~closed /\ t \notin late
  /\ Cardinality(pool) >= m_max
  /\ pool' = P4 /\ expired' = expired \cap P4 /\ valid' = valid \ (pool \ P4)
  /\ pc' = [pc EXCEPT ![t] = IF @ = "ctor" THEN "cont" ELSE "enter"]
  /\ impl' = [impl EXCEPT ![t] = "live"]
  /\ UNCHANGED <<cleanup, ep, blocked, held, late, flags, result, mutex, closeVars>>

\* No session and no room: do_cont() throws after the deadline; otherwise the
\* constructor continues to wait() and do_wait() goes on to wait for a release.
GetNull(t) ==
  /\ Asking(t) /\ m_pool_enable /\ ~closed
  /\ Cardinality(P4) >= m_max
  /\ \E B3 \in SUBSET EP : TriedNew(B3) /\ blocked' = BlockFailed(B3, A3)
  /\ pool' = P4 /\ expired' = expired \cap P4 /\ valid' = valid \ (pool \ P4)
  /\ UNCHANGED <<cleanup, ep>>
  /\ \/ t \in late /\ Throw(t)
     \/ /\ t \notin late
        /\ pc' = [pc EXCEPT ![t] = IF @ = "ctor" THEN "cont" ELSE "enter"]
        /\ impl' = [impl EXCEPT ![t] = "live"]
        /\ UNCHANGED <<held, late, flags, result, mutex, closeVars>>

\* Pooling is disabled: every session is new and is not kept in m_pool.
GetUnpooled(t) ==
  /\ Asking(t) /\ ~m_pool_enable
  /\ \/ \E s \in Fresh, e \in EP :
          /\ valid' = valid \cup {s}
          /\ ep' = [ep EXCEPT ![s] = e]
          /\ Obtain(t, s)
          /\ UNCHANGED <<pool, cleanup, expired, blocked>>
     \/ Throw(t) /\ UNCHANGED poolVars

GetSession(t) ==
  \/ GetClosed(t) \/ GetPooled(t) \/ GetNew(t) \/ GetPooledBlocked(t)
  \/ GetNewBlocked(t) \/ GetError(t) \/ GetNull(t) \/ GetUnpooled(t)
(***************************************************************************)
(* Waiting for a session: the loop of do_wait()                            *)
(***************************************************************************)

EnterWait_unchecked(t) ==  \* m_pool_closed is not tested before waiting
  /\ pc[t] = "enter"
  /\ pc' = [pc EXCEPT ![t] = "waiting"]
  /\ UNCHANGED <<poolVars, flags, impl, held, late, result, mutex, closeVars>>

\* Takes m_reelase_mutex; a pool closed meanwhile is noticed here and do_cont()
\* then throws.
EnterWait(t) ==
  /\ pc[t] = "enter"
  /\ pc' = [pc EXCEPT ![t] = IF closed THEN "cont" ELSE "waiting"]
  /\ UNCHANGED <<poolVars, flags, impl, held, late, result, mutex, closeVars>>

\* wait_until() reports a timeout.
WaitTimeout(t) ==
  /\ pc[t] = "waiting" /\ t \in late
  /\ pc' = [pc EXCEPT ![t] = "none"]
  /\ impl' = [impl EXCEPT ![t] = "none"]
  /\ UNCHANGED <<poolVars, flags, held, late, result, mutex, closeVars>>

\* A condition variable may wake up without a notification.
SpuriousWakeup(t) ==
  /\ pc[t] = "waiting"
  /\ pc' = [pc EXCEPT ![t] = "cont"]
  /\ UNCHANGED <<poolVars, flags, impl, held, late, result, mutex, closeVars>>

Waiting == {t \in User : pc[t] = "waiting"}

(***************************************************************************)
(* Using a session                                                         *)
(***************************************************************************)

\* The members declared after m_sess, the mutex among them, are constructed.
ConstructMembers(t) ==
  /\ pc[t] = "members"
  /\ pc' = [pc EXCEPT ![t] = "body"]
  /\ impl' = [impl EXCEPT ![t] = "live"]
  /\ UNCHANGED <<poolVars, flags, held, late, result, mutex, closeVars>>

\* The constructor's last check: if close() has closed the session meanwhile it
\* throws, which destroys the members (the mutex first, m_sess last).
CheckValid(t) ==
  /\ pc[t] = "body"
  /\ \/ /\ held[t] \in valid
        /\ pc' = [pc EXCEPT ![t] = "using"] /\ UNCHANGED impl
     \/ /\ held[t] \notin valid
        /\ pc' = [pc EXCEPT ![t] = "release"]
        /\ impl' = [impl EXCEPT ![t] = "dying"]
  /\ UNCHANGED <<poolVars, flags, held, late, result, mutex, closeVars>>

\* execute(), get_row() and the other operations run under Session_impl::lock().
BeginOp(t) ==
  /\ pc[t] = "using" /\ mutex[t] = "free"
  /\ pc' = [pc EXCEPT ![t] = "in_op"]
  /\ mutex' = [mutex EXCEPT ![t] = "user"]
  /\ UNCHANGED <<poolVars, flags, impl, held, late, result, closeVars>>

EndOp_locked(t) ==       \* the session lock is not released
  /\ pc[t] = "in_op"
  /\ pc' = [pc EXCEPT ![t] = "using"]
  /\ UNCHANGED <<poolVars, flags, impl, held, late, result, mutex, closeVars>>

\* The operation may leave a result registered with the session, unless the
\* session is closed; one that throws is gone only when its error has been seen.
EndOp(t) ==
  /\ pc[t] = "in_op"
  /\ pc' = [pc EXCEPT ![t] = "using"]
  /\ mutex' = [mutex EXCEPT ![t] = "free"]
  /\ \E r \in Results :
       /\ held[t] \notin valid \/ Throws(result[t]) => r \in {result[t], "none"}
       /\ result' = [result EXCEPT ![t] = r]
  /\ UNCHANGED <<poolVars, flags, impl, held, late, closeVars>>

\* Session::close(): release() first runs cleanup(), which stores a registered
\* result under the session lock; if that throws, the session is not released.
CloseSession(t) ==
  /\ pc[t] = "using"
  /\ result[t] # "none" => mutex[t] = "free"
  /\ result' = [result EXCEPT ![t] = Stored(@)]
  /\ pc' = [pc EXCEPT ![t] = IF Throws(result[t]) THEN @ ELSE "release"]
  /\ UNCHANGED <<poolVars, flags, impl, held, late, mutex, closeVars>>

\* The last reference to the Session_impl goes away without close(): results
\* refer to it, so there are none, and m_mutex is destroyed before m_sess.
DestroySession(t) ==
  /\ pc[t] = "using" /\ result[t] = "none"
  /\ pc' = [pc EXCEPT ![t] = "release"]
  /\ impl' = [impl EXCEPT ![t] = "dying"]
  /\ UNCHANGED <<poolVars, flags, held, late, result, mutex, closeVars>>

(***************************************************************************)
(* Returning a session: Pooled_session::release, Session_pool::            *)
(* release_session                                                         *)
(***************************************************************************)

\* m_pool_closed is read without a lock.  If set, nothing is given back and the
\* session goes away with its last owner.
ReleaseCheck(t) ==
  /\ pc[t] = "release"
  /\ \/ /\ closed
        /\ pc' = [pc EXCEPT ![t] = "none"]
        /\ impl' = [impl EXCEPT ![t] = "none"]
        /\ held' = [held EXCEPT ![t] = NULL]
        /\ valid' = valid \ {held[t]}
     \/ /\ ~closed
        /\ pc' = [pc EXCEPT ![t] = "rel_lock"]
        /\ UNCHANGED <<impl, held, valid>>
  /\ UNCHANGED <<pool, cleanup, expired, ep, blocked, flags, late, result,
                 mutex, closeVars>>

ReleaseSession_handler(t) ==  \* m_cleanup is not reset
  /\ pc[t] = "rel_lock" /\ PoolMutexFree
  /\ held' = [held EXCEPT ![t] = NULL]
  /\ pc' = [pc EXCEPT ![t] = "notify"]
  /\ valid' = valid \ ({held[t]} \ pool)
  /\ UNCHANGED <<pool, cleanup, expired, ep, blocked, flags, impl, late,
                 result, mutex, closeVars>>

ReleaseSession_leak(t) ==     \* a session that is not in m_pool stays open
  /\ pc[t] = "rel_lock" /\ PoolMutexFree
  /\ held' = [held EXCEPT ![t] = NULL]
  /\ cleanup' = [cleanup EXCEPT ![held[t]] = NULL]
  /\ pc' = [pc EXCEPT ![t] = "notify"]
  /\ UNCHANGED <<pool, expired, ep, blocked, valid, flags, impl, late,
                 result, mutex, closeVars>>

\* Under m_pool_mutex the entry gets a new deadline and loses its handler, the
\* reference of the Pooled_session is dropped, and expired sessions are erased.
\* A session that is not in m_pool is destroyed.
ReleaseSession(t) ==
  /\ pc[t] = "rel_lock" /\ PoolMutexFree
  /\ LET s == held[t]
         gone == (Idle(pool) \cap expired) \ {s}
     IN /\ pool' = pool \ gone
        /\ cleanup' = IF s \in pool THEN [cleanup EXCEPT ![s] = NULL] ELSE cleanup
        /\ expired' = expired \ (gone \cup {s})
        /\ valid' = valid \ (gone \cup ({s} \ pool))
  /\ held' = [held EXCEPT ![t] = NULL]
  /\ pc' = [pc EXCEPT ![t] = "notify"]
  /\ UNCHANGED <<ep, blocked, flags, impl, late, result, mutex, closeVars>>

\* notify_one(), after m_pool_mutex was released and without m_reelase_mutex;
\* then the Session_impl is gone.
ReleaseNotify(t) ==
  /\ pc[t] = "notify"
  /\ \/ Waiting = {} /\ pc' = [pc EXCEPT ![t] = "none"]
     \/ \E w \in Waiting : pc' = [pc EXCEPT ![t] = "none", ![w] = "cont"]
  /\ impl' = [impl EXCEPT ![t] = "none"]
  /\ UNCHANGED <<poolVars, flags, held, late, result, mutex, closeVars>>

(***************************************************************************)
(* Session_pool::close()                                                   *)
(***************************************************************************)

CloseBegin ==
  /\ cpc = "idle"
  /\ cpc' = "sweep" /\ todo' = pool /\ first' = TRUE
  /\ UNCHANGED <<poolVars, flags, userVars, result, mutex, cur>>

Erase_kept(s, v) ==      \* the closed session stays in m_pool
  /\ valid' = v
  /\ UNCHANGED <<pool, expired, cleanup, ep, blocked>>

\* The entry s leaves m_pool; v are the sessions that stay valid.
Erase(s, v) ==
  /\ pool' = pool \ {s}
  /\ expired' = expired \ {s}
  /\ valid' = v
  /\ UNCHANGED <<cleanup, ep, blocked>>

\* An entry without a handler is not in use: it is closed and erased.
CloseUnused(s) ==
  /\ cpc = "sweep" /\ s \in todo /\ cleanup[s] = NULL
  /\ Erase(s, valid \ {s})
  /\ todo' = todo \ {s}
  /\ UNCHANGED <<flags, userVars, result, mutex, cpc, first, cur>>

\* try_lock() fails in the first pass: the entry is left for the next one.
CloseSkip(s) ==
  /\ cpc = "sweep" /\ s \in todo /\ cleanup[s] # NULL
  /\ first /\ mutex[cleanup[s]] # "free"
  /\ todo' = todo \ {s}
  /\ UNCHANGED <<poolVars, flags, userVars, result, mutex, cpc, first, cur>>

\* try_lock() succeeds, or lock() does in a later pass (which waits for it).
CloseLock(s) ==
  /\ cpc = "sweep" /\ s \in todo /\ cleanup[s] # NULL
  /\ mutex[cleanup[s]] = "free"
  /\ mutex' = [mutex EXCEPT ![cleanup[s]] = Closer]
  /\ cpc' = "clean" /\ cur' = s
  /\ UNCHANGED <<poolVars, flags, userVars, result, todo, first>>

\* The entry cur leaves m_pool and the session lock is released.
CloseErase(v) ==
  /\ Erase(cur, v)
  /\ mutex' = [mutex EXCEPT ![cleanup[cur]] = "free"]
  /\ cpc' = "sweep" /\ todo' = todo \ {cur} /\ cur' = NULL
  /\ UNCHANGED <<flags, userVars, first>>

\* cleanup() stores the registered result.  If it throws, the exception is
\* swallowed and the session is erased without having been closed.
CloseCleanup ==
  /\ cpc = "clean"
  /\ LET t == cleanup[cur] IN
       /\ result' = [result EXCEPT ![t] = Stored(@)]
       /\ \/ Throws(result[t]) /\ CloseErase(valid)
          \/ /\ ~Throws(result[t])
             /\ cpc' = "shut"
             /\ UNCHANGED <<poolVars, flags, userVars, mutex, todo, first, cur>>

\* cdk::Session::close(), then the entry is erased.
CloseShut ==
  /\ cpc = "shut"
  /\ CloseErase(valid \ {cur})
  /\ UNCHANGED result

CloseNextPass ==
  /\ cpc = "sweep" /\ todo = {} /\ pool # {}
  /\ todo' = pool /\ first' = FALSE
  /\ UNCHANGED <<poolVars, flags, userVars, result, mutex, cpc, cur>>

\* All waiting threads are woken up while m_reelase_mutex is held.
CloseFinish ==
  /\ cpc = "sweep" /\ pool = {}
  /\ closed' = TRUE
  /\ pc' = [t \in User |-> IF pc[t] = "waiting" THEN "cont" ELSE pc[t]]
  /\ cpc' = "idle" /\ todo' = {} /\ first' = TRUE
  /\ UNCHANGED <<poolVars, m_pool_enable, m_max, impl, held, late, result, mutex,
                 cur>>

ClosePool ==
  \/ CloseBegin \/ CloseCleanup \/ CloseShut \/ CloseNextPass \/ CloseFinish
  \/ \E s \in Sess : CloseUnused(s) \/ CloseSkip(s) \/ CloseLock(s)

(***************************************************************************)
(* Time passes: a deadline of the pool, of the block list or of a          *)
(* Pooled_session is reached.  A session's deadline matters only while it  *)
(* is idle: releasing it sets a new one.                                   *)
(***************************************************************************)

SessionExpires(s) ==
  /\ s \in Idle(pool) \ expired
  /\ expired' = expired \cup {s}
  /\ UNCHANGED <<pool, cleanup, ep, blocked, valid, flags, userVars, result,
                 mutex, closeVars>>

BlockExpires(e) ==
  /\ e \in blocked
  /\ blocked' = blocked \ {e}
  /\ UNCHANGED <<pool, cleanup, expired, ep, valid, flags, userVars, result,
                 mutex, closeVars>>

DeadlinePasses(t) ==
  /\ pc[t] \in {"ctor", "cont", "enter", "waiting"} /\ t \notin late
  /\ late' = late \cup {t}
  /\ UNCHANGED <<poolVars, flags, pc, impl, held, result, mutex, closeVars>>

\* What the thread does by itself once its caller has asked for it.
Runs(t) ==
  \/ GetSession(t) \/ EnterWait(t) \/ WaitTimeout(t)
  \/ ConstructMembers(t) \/ CheckValid(t) \/ EndOp(t)
  \/ ReleaseCheck(t) \/ ReleaseSession(t) \/ ReleaseNotify(t)

Next ==
  \/ \E t \in User :
       \/ Runs(t) \/ Construct(t) \/ SpuriousWakeup(t)
       \/ BeginOp(t) \/ CloseSession(t) \/ DestroySession(t)
       \/ DeadlinePasses(t)
  \/ ClosePool
  \/ \E s \in Sess : SessionExpires(s)
  \/ \E e \in EP : BlockExpires(e)

Spec == Init /\ [][Next]_vars

\* A thread that can run does run, close() included, and one that waits for
\* m_pool_mutex or for a session mutex gets it if the mutex is free again and
\* again.  Time need not pass.
Fairness ==
  /\ \A t \in User : /\ WF_vars(Runs(t))
                     /\ SF_vars(GetSession(t)) /\ SF_vars(ReleaseSession(t))
  /\ WF_vars(CloseCleanup) /\ WF_vars(CloseShut)
  /\ WF_vars(CloseNextPass) /\ WF_vars(CloseFinish)
  /\ \A s \in Sess : WF_vars(CloseUnused(s)) /\ WF_vars(CloseSkip(s))
                     /\ SF_vars(CloseLock(s))
LiveSpec == Spec /\ Fairness

-----------------------------------------------------------------------------
(***************************************************************************)
(* Properties                                                              *)
(***************************************************************************)

\* A CDK session is never in the hands of two application threads: the
\* use_count() == 1 test of get_pooled_session sees every Pooled_session.
ExclusiveUse ==
  \A t, u \in User : held[t] # NULL /\ held[t] = held[u] => t = u

\* The handler of a pool entry is the Session_impl that uses the session and no
\* other: release_session removes it together with the last use, so close()
\* never calls the handler of a session nobody uses.
HandlerIsUser ==
  \A s \in pool, t \in User : cleanup[s] = t <=> held[t] = s

\* m_pool never exceeds its configured size.
SizeBound == Cardinality(pool) <= m_max

\* Every entry of m_pool is an open session, so that the bare "throw;" of
\* try_session (reset() succeeded but is_valid() is false) is never reached.
PoolEntriesValid == pool \subseteq valid

\* An open session is in m_pool or in use, never forgotten: what close() erases
\* without closing, and what is released after close() or with pooling
\* disabled, is destroyed when its user lets it go.
NoLeak == \A s \in valid : s \in pool \/ InUse(s)

\* get_session() hands out a session on a block-listed end point only when every
\* end point for which it had a better session has become block-listed too.
BlockListedIsLastResort ==
  [][\A t \in User :
       held[t] = NULL /\ held'[t] # NULL /\ ep'[held'[t]] \in blocked
         => Ends(A1) \subseteq blocked']_vars

\* A thread goes to wait only when all the sessions the pool may have are in
\* use by other threads.
NullOnlyWhenFull ==
  [][\A t \in User : pc[t] = "cont" /\ pc'[t] = "enter" =>
       /\ Cardinality(pool') >= m_max
       /\ \A s \in pool' : \E u \in User \ {t} : held[u] = s]_vars

\* After close() has completed the pool stays empty, and unless pooling is
\* disabled no thread gets a session any more: m_pool_closed is set under
\* m_pool_mutex and tested under it by get_session().
ClosedForGood ==
  [][closed => /\ pool' = {} /\ closed'
               /\ m_pool_enable => \A t \in User : held'[t] \in {held[t], NULL}]_vars

\* close() terminates: it holds m_pool_mutex while it waits for session locks,
\* and no holder of a session lock needs m_pool_mutex.
CloseTerminates == cpc # "idle" ~> cpc = "idle"

\* The sessions of the pool that nobody refers to.
Unused == {s \in pool : ~InUse(s)}

Allocator == INSTANCE PoolAbstract WITH avail <- Unused

\* The pool implements the allocator of PoolAbstract: whatever the two rounds of
\* get_session(), the releasing threads and close() do to m_pool and to the
\* references in between, a thread gets a session that nobody holds, at most
\* m_max are held at a time, and none is given out by a closed pool.
AllocatesSessions == Allocator!Spec

\* No thread keeps waiting for a session of a closed pool, even if its deadline
\* never passes: m_pool_closed is tested and set under m_reelase_mutex.
CloseWakesWaiters ==
  \A t \in User : closed /\ pc[t] \in {"cont", "enter", "waiting"} ~> pc[t] = "none"

\* A thread does not sleep while a session is available, when close() is not
\* running and no other thread is on the way to take a session or to notify.
NoLostWakeup ==
  \A t \in User :
    /\ pc[t] = "waiting" /\ PoolMutexFree
    /\ \A u \in User \ {t} : pc[u] \in {"none", "using", "waiting"}
    => Idle(pool) = {}
=============================================================================
