---------------------------- MODULE PoolAbstract ----------------------------
(***************************************************************************)
(* What the session pool promises to the threads that use it: an allocator *)
(* of sessions.  A session has at most one holder; a thread gets one that  *)
(* nobody holds, from those kept open or a new one; not more than m_max    *)
(* are held at a time; none is given out once the pool is closed.          *)
(***************************************************************************)
EXTENDS Naturals, FiniteSets

CONSTANTS User, Sess, NULL

VARIABLES
  avail,    \* sessions that are kept open for the next thread
  held,     \* the session each thread holds
  closed,   \* the pool was closed
  m_pool_enable, m_max

vars == <<avail, held, closed, m_pool_enable, m_max>>

Held == {held[t] : t \in User} \ {NULL}

Init == avail = {} /\ held = [t \in User |-> NULL] /\ closed = FALSE

(* Sessions that fail or expire may be dropped on the way.                 *)
Take(t) ==
  /\ held[t] = NULL
  /\ m_pool_enable => ~closed
  /\ \E s \in Sess \ Held :
       /\ held' = [held EXCEPT ![t] = s]
       /\ avail' \subseteq avail \ {s}
  /\ m_pool_enable => Cardinality(Held') <= m_max
  /\ UNCHANGED closed

Give(t) ==
  /\ held[t] # NULL
  /\ held' = [held EXCEPT ![t] = NULL]
  /\ avail' \subseteq avail \cup {held[t]}
  /\ closed \/ ~m_pool_enable => avail' = {}
  /\ UNCHANGED closed

Drop ==
  /\ avail' \subseteq avail
  /\ UNCHANGED <<held, closed>>

Close ==
  /\ avail = {}
  /\ closed' = TRUE
  /\ UNCHANGED <<avail, held>>

Next ==
  /\ (\E t \in User : Take(t) \/ Give(t)) \/ Drop \/ Close
  /\ UNCHANGED <<m_pool_enable, m_max>>

Spec == Init /\ [][Next]_vars
=============================================================================
