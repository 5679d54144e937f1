------------------------------ MODULE OpProofs ------------------------------
(***************************************************************************)
(* Proofs about OpExecution: the accounting of prepared-statement ids, for *)
(* any number of operations, definitions, parameters and ids.              *)
(*                                                                         *)
(* The many actions have only six kinds of effects on the ids (Effect); a  *)
(* lemma shows that each step has one of them, and the invariant is then   *)
(* shown for each kind of effect.                                          *)
(***************************************************************************)
EXTENDS OpExecution, FiniteSetTheorems, TLAPS

(* Types of the variables that the ids depend on.                          *)
IdTypes ==
  /\ def \in [Ops -> AllDefs \cup {NONE}]
  /\ m_stmt_id \in [Ops -> Cells \cup {NONE}]
  /\ cell \in [Cells -> Ids \cup {0}]
  /\ stmt_ids \subseteq Ids /\ m_stmt_id_cleanup \subseteq Ids
  /\ m_max_pstmt \in Nat
  /\ ps \in {"UNKNOWN", "YES", "NO"}
  /\ setting \in Settings

(* IdsAccounted, one fact at a time.                                       *)
Accounted ==
  /\ \A p \in Ops : m_stmt_id[p] # NONE => cell[m_stmt_id[p]] \in stmt_ids
  /\ \A i \in stmt_ids : \E p \in Ops : m_stmt_id[p] # NONE /\ cell[m_stmt_id[p]] = i
  /\ \A o, p \in Ops :
       m_stmt_id[o] # NONE /\ m_stmt_id[p] # NONE /\ cell[m_stmt_id[o]] = cell[m_stmt_id[p]]
         => m_stmt_id[o] = m_stmt_id[p]
  /\ \A i \in stmt_ids : i \notin m_stmt_id_cleanup

(* An operation that does not exist holds no id.                           *)
NoHolder == \A o \in Ops : def[o] = NONE => m_stmt_id[o] = NONE

(* What the session and the server know of each other.                     *)
Support ==
  /\ ps = "NO" => ~setting.supported
  /\ ~setting.supported => \A i \in Ids : server[i] = NONE

(* The inductive invariant. IdsAccounted is not inductive by itself: that  *)
(* NewOp finds no id needs NoHolder, that an Unsupported step leaks        *)
(* nothing and that UnsupportedIsFinal holds need Support.                 *)
IInv == IdTypes /\ Accounted /\ NoHolder /\ Support /\ NoServerLeak /\ CapRespected

-----------------------------------------------------------------------------
(* The effects.                                                            *)

(* What the effects are about, besides the pointers of the operations.     *)
Rest == <<cell, stmt_ids, m_stmt_id_cleanup, m_max_pstmt, server>>

(* A copy shares the id.                                                   *)
Copied(o, p) ==
  /\ m_stmt_id[p] = NONE
  /\ m_stmt_id' = [m_stmt_id EXCEPT ![p] = m_stmt_id[o]]
  /\ UNCHANGED Rest /\ ps' = ps

(* An operation lets go of its id, whoever else holds it.                  *)
LetGo(o) ==
  /\ m_stmt_id' = [m_stmt_id EXCEPT ![o] = NONE]
  /\ cell' = Freed(o)

(* release_stmt_id(): the id is to be cleaned up if this was its last      *)
(* holder.                                                                 *)
Released(o) ==
  /\ LetGo(o)
  /\ stmt_ids' = stmt_ids \ Held(o)
  /\ m_stmt_id_cleanup' = m_stmt_id_cleanup \cup Held(o)
  /\ UNCHANGED <<m_max_pstmt, server, ps>>

(* reset_state() after the expectation failed: the server never had the    *)
(* statement.                                                              *)
Unsupported(o) ==
  /\ LetGo(o)
  /\ ps # "NO" /\ ps' = "NO" /\ ~setting.supported
  /\ stmt_ids' = stmt_ids \ Held(o)
  /\ m_max_pstmt' = IF SoleOwner(o) THEN Cardinality(stmt_ids') ELSE m_max_pstmt
  /\ UNCHANGED <<m_stmt_id_cleanup, server>>

(* What remains on the server when id was created.                         *)
Remains(o, id) ==
  \A i \in Ids : server'[i] # NONE => i = id \/ (server[i] # NONE /\ i \notin Deallocated(o, id))

(* create_stmt_id() and the id is kept.                                    *)
Acquired(o, id, c) ==
  /\ CreateStmtId(o, id, c)
  /\ m_stmt_id' = [m_stmt_id EXCEPT ![o] = c]
  /\ cell' = [cell EXCEPT ![c] = id]
  /\ stmt_ids' = stmt_ids \cup {id}
  /\ m_stmt_id_cleanup' = CleanupAfter(o)
  /\ m_max_pstmt' = m_max_pstmt
  /\ Remains(o, id)
  /\ ~setting.supported => server' = ServerAfter(o, id)
  /\ ps' = PsAfter(o, id) \/ (setting.supported /\ ps' = "YES")

(* create_stmt_id() and error_stmt_id(): the server did not prepare the    *)
(* statement.                                                              *)
Refused(o, id, c) ==
  /\ CreateStmtId(o, id, c)
  /\ LetGo(o)
  /\ stmt_ids' = stmt_ids \ {id}
  /\ m_stmt_id_cleanup' = CleanupAfter(o)
  /\ m_max_pstmt' = Cardinality(stmt_ids')
  /\ Remains(o, id) /\ server'[id] = NONE
  /\ server' = [ServerAfter(o, id) EXCEPT ![id] = NONE]
  /\ ps' = IF setting.supported \/ PsAfter(o, id) = "YES" THEN "YES" ELSE "NO"

(* No effect but that the support of prepared statements may be found out. *)
Kept == UNCHANGED <<m_stmt_id, Rest>> /\ (ps' = ps \/ (ps # "NO" /\ ps' = "YES"))

(* A step has one of these effects.                                        *)
Effect ==
  \/ Kept
  \/ \E o, p \in Ops : Copied(o, p)
  \/ \E o \in Ops : Released(o) \/ Unsupported(o)
  \/ \E o \in Ops, id \in Ids, c \in Cells : Acquired(o, id, c) \/ Refused(o, id, c)

(* What the assumption on the constants says.                              *)
LEMMA Constants ==
  /\ NONE \notin Cells /\ NONE \notin AllDefs /\ MaxId \in Nat /\ IsFiniteSet(Ids)
  /\ \A s \in Settings : s.defs \subseteq Defs
BY OpAssumption, FS_Interval DEF Ids

(* Who is not the sole owner of an id gives none back.                     *)
LEMMA NotSole ==
  ASSUME IdTypes, NEW o \in Ops, ~SoleOwner(o)
  PROVE  Held(o) = {} /\ Freed(o) = cell
BY DEF Held, Freed, IdTypes

(* A direct execution gives the id back, if there is one: after the first  *)
(* state change of use_prepared_statement(), and by the pointer reset      *)
(* otherwise.                                                              *)
LEMMA DirectEffect ==
  ASSUME IInv, NEW o \in Ops, ExecuteDirect(o)
  PROVE  Released(o)
<1>1. m_stmt_id' = [m_stmt_id EXCEPT ![o] = NONE] /\ server' = server
  BY DEF ExecuteDirect
<1>2. CASE m_prepare_state[o] = "PS_EXECUTE"
  BY <1>1, <1>2 DEF ExecuteDirect, ReleaseStmtId, Released, LetGo
<1>3. CASE m_prepare_state[o] # "PS_EXECUTE"
  <2>1. ~SoleOwner(o) /\ UNCHANGED idVars
    BY <1>3 DEF ExecuteDirect, SoleOwner
  <2> QED BY <1>1, <2>1, NotSole DEF Released, LetGo, idVars, IInv
<1> QED BY <1>2, <1>3

(* The outcomes of a prepare and execute pipeline.                         *)
LEMMA PrepareEffect ==
  ASSUME IInv, NEW o \in Ops, ExecutePrepare(o)
  PROVE  Effect
<1>1. PICK id \in Ids, c \in Cells :
        /\ CreateStmtId(o, id, c)
        /\ PrepareNotSent(o, id, c) \/ PrepareRefused(o, id) \/ PrepareDone(o, id, c)
  BY DEF ExecutePrepare
<1>2. \A i \in Ids : ServerAfter(o, id)[i] # NONE => server[i] # NONE /\ i \notin Deallocated(o, id)
  BY DEF ServerAfter
<1>3. CASE PrepareNotSent(o, id, c)
  BY <1>1, <1>2, <1>3, Zenon DEF PrepareNotSent, Acquired, Remains, Effect
<1>4. CASE PrepareRefused(o, id)
  <2>1. server' = [ServerAfter(o, id) EXCEPT ![id] = NONE]
    BY <1>4 DEF PrepareRefused
  <2>2. Remains(o, id) /\ server'[id] = NONE
    BY <1>2, <2>1 DEF Remains, ServerAfter
  <2> QED BY <1>1, <1>4, <2>1, <2>2, Zenon DEF PrepareRefused, Refused, LetGo, Effect
<1>5. CASE PrepareDone(o, id, c)
  <2>1. server' = [ServerAfter(o, id) EXCEPT ![id] = StmtOf(o)]
    BY <1>5 DEF PrepareDone
  <2>2. Remains(o, id)
    BY <1>2, <2>1 DEF Remains, ServerAfter
  <2> QED BY <1>1, <1>5, <2>2, Zenon DEF PrepareDone, Acquired, Effect
<1> QED BY <1>1, <1>3, <1>4, <1>5

(* The outcomes of executing a prepared statement.                         *)
LEMMA PreparedEffect ==
  ASSUME IInv, NEW o \in Ops, ExecutePrepared(o)
  PROVE  Effect
<1>1. m_stmt_id_cleanup' = m_stmt_id_cleanup /\ server' = server
  BY DEF ExecutePrepared
<1>2. CASE ExecuteMessage(o)
  BY <1>1, <1>2 DEF ExecuteMessage, Effect, Kept, Rest
<1>3. CASE ExecuteUnsupported(o)
  BY <1>1, <1>3, Zenon DEF ExecuteUnsupported, Unsupported, LetGo, Effect
<1>4. CASE ExecuteNothing(o)
  BY <1>1, <1>4 DEF ExecuteNothing, Effect, Kept, Rest
<1> QED BY <1>2, <1>3, <1>4 DEF ExecutePrepared

(* Each step has one of the effects.                                       *)
LEMMA StepEffect ==
  ASSUME IInv, [Next]_vars
  PROVE  Effect
<1>1. CASE UNCHANGED vars \/ DropResult
  BY <1>1 DEF vars, idVars, DropResult, Effect, Kept, Rest
<1>2. ASSUME NEW o \in Ops,
             NewOp(o) \/ SetDef(o) \/ set_limit(o) \/ clear_limit(o) \/ set_offset(o)
               \/ clear_offset(o) \/ ExecuteAgain(o) \/ ExecuteBlocked(o)
      PROVE  Effect
  BY <1>2 DEF NewOp, SetDef, set_limit, clear_limit, set_offset, clear_offset, LimitCall,
              ExecuteAgain, ExecuteBlocked, NoExecution, idVars, Effect, Kept, Rest
<1>3. ASSUME NEW o \in Ops, DestroyOp(o) PROVE Effect
  BY <1>3, Zenon DEF DestroyOp, ReleaseStmtId, NoExecution, Released, LetGo, Effect
<1>4. ASSUME NEW o \in Ops, NEW p \in Ops, CopyOp(o, p) PROVE Effect
  BY <1>4, Zenon DEF CopyOp, NoExecution, idVars, Copied, Rest, Effect, IInv, NoHolder
<1>5. ASSUME NEW o \in Ops, NEW n \in Names, add_param(o, n) PROVE Effect
  BY <1>5 DEF add_param, NoExecution, idVars, Effect, Kept, Rest
<1>6. ASSUME NEW o \in Ops, ExecuteDirect(o) PROVE Effect
  BY <1>6, DirectEffect DEF Effect
<1> QED BY <1>1, <1>2, <1>3, <1>4, <1>5, <1>6, PrepareEffect, PreparedEffect DEF Next

(* The server and the application stay the same.                           *)
LEMMA SettingFixed ==
  ASSUME [Next]_vars
  PROVE  setting' = setting
BY DEF Next, vars, DropResult, NewOp, DestroyOp, SetDef, set_limit, clear_limit, set_offset,
       clear_offset, LimitCall, ExecuteAgain, ExecuteBlocked, ExecuteDirect, ExecutePrepare,
       ExecutePrepared, CopyOp, add_param, NoExecution

(* Only operations that exist have ids: an operation gets one when it is   *)
(* executed or copied, and loses it when it is destroyed.                  *)
LEMMA DefStep ==
  ASSUME IInv, [Next]_vars
  PROVE  def' \in [Ops -> AllDefs \cup {NONE}] /\ NoHolder'
<1> USE DEF IInv, IdTypes, NoHolder
<1>1. CASE UNCHANGED <<def, m_stmt_id>>
  BY <1>1
<1>2. ASSUME NEW o \in Ops, NEW d \in Offered, def' = [def EXCEPT ![o] = d], m_stmt_id' = m_stmt_id
      PROVE  def' \in [Ops -> AllDefs \cup {NONE}] /\ NoHolder'
  <2>1. d \in AllDefs /\ d # NONE
    BY Constants DEF Offered, AllDefs
  <2> QED BY <1>2, <2>1
<1>3. ASSUME NEW o \in Ops, def[o] # NONE, def' = def,
             \A p \in Ops \ {o} : m_stmt_id'[p] = m_stmt_id[p]
      PROVE  def' \in [Ops -> AllDefs \cup {NONE}] /\ NoHolder'
  BY <1>3
<1>4. ASSUME NEW o \in Ops, DestroyOp(o)
      PROVE  def' \in [Ops -> AllDefs \cup {NONE}] /\ NoHolder'
  BY <1>4 DEF DestroyOp
<1>5. ASSUME NEW o \in Ops, NEW p \in Ops, CopyOp(o, p)
      PROVE  def' \in [Ops -> AllDefs \cup {NONE}] /\ NoHolder'
  BY <1>5 DEF CopyOp
<1>6. CASE UNCHANGED vars \/ DropResult
  BY <1>1, <1>6 DEF vars, opDef, DropResult
<1>7. ASSUME NEW o \in Ops, NewOp(o) \/ SetDef(o)
      PROVE  def' \in [Ops -> AllDefs \cup {NONE}] /\ NoHolder'
  BY <1>2, <1>7 DEF NewOp, SetDef
<1>8. ASSUME NEW o \in Ops,
             set_limit(o) \/ clear_limit(o) \/ set_offset(o) \/ clear_offset(o)
               \/ ExecuteAgain(o) \/ ExecuteBlocked(o) \/ \E n \in Names : add_param(o, n)
      PROVE  def' \in [Ops -> AllDefs \cup {NONE}] /\ NoHolder'
  BY <1>1, <1>8 DEF set_limit, clear_limit, set_offset, clear_offset, LimitCall,
                    ExecuteAgain, ExecuteBlocked, add_param, opDef
<1>9. ASSUME NEW o \in Ops, ExecuteDirect(o) \/ ExecutePrepare(o) \/ ExecutePrepared(o)
      PROVE  def' \in [Ops -> AllDefs \cup {NONE}] /\ NoHolder'
  <2>1. def[o] # NONE /\ def' = def
    BY <1>9 DEF ExecuteDirect, ExecutePrepare, ExecutePrepared, Ready, opDef
  <2>2. \A p \in Ops \ {o} : m_stmt_id'[p] = m_stmt_id[p]
    BY <1>9 DEF ExecuteDirect, ExecutePrepare, ExecutePrepared, PrepareNotSent, PrepareRefused,
                PrepareDone, ExecuteMessage, ExecuteUnsupported, ExecuteNothing
  <2> QED BY <1>3, <2>1, <2>2
<1> QED BY <1>4, <1>5, <1>6, <1>7, <1>8, <1>9 DEF Next

-----------------------------------------------------------------------------
(* The invariant under each effect.                                        *)

(* create_stmt_id() hands out an id that is not in use, unless the         *)
(* operation is the only one that holds it.                                *)
LEMMA NewId ==
  ASSUME IInv, NEW o \in Ops, NEW id \in Ids, NEW c \in Cells, CreateStmtId(o, id, c)
  PROVE  \/ SoleOwner(o) /\ c = m_stmt_id[o] /\ id = cell[c] /\ id \in stmt_ids
         \/ /\ ~SoleOwner(o) /\ HasRoom
            /\ id \notin stmt_ids
            /\ \A p \in Ops : m_stmt_id[p] # c
<1> USE DEF IInv, IdTypes, Accounted
<1>1. CASE SoleOwner(o)
  BY <1>1, Constants DEF CreateStmtId, SoleOwner
<1>2. CASE ~SoleOwner(o)
  <2>1. HasRoom /\ NextId(id) /\ c \in FreeCells
    BY <1>2 DEF CreateStmtId
  <2>2. id \notin stmt_ids
    BY <2>1 DEF NextId, Ids
  <2> QED BY <1>2, <2>1, <2>2 DEF FreeCells
<1> QED BY <1>1, <1>2

(* The ids after an operation has let go of its own.                       *)
LEMMA LetGoAccounted ==
  ASSUME IInv, NEW o \in Ops, LetGo(o), stmt_ids' = stmt_ids \ Held(o),
         m_stmt_id_cleanup' \subseteq m_stmt_id_cleanup \cup Held(o)
  PROVE  /\ m_stmt_id' \in [Ops -> Cells \cup {NONE}]
         /\ cell' \in [Cells -> Ids \cup {0}]
         /\ Accounted'
<1> USE DEF IInv, IdTypes, LetGo
<1>1. m_stmt_id' \in [Ops -> Cells \cup {NONE}] /\ cell' \in [Cells -> Ids \cup {0}]
  BY DEF Freed
<1>2. CASE SoleOwner(o)
  <2>1. /\ m_stmt_id[o] \in Cells
        /\ Held(o) = {cell[m_stmt_id[o]]}
        /\ \A p \in Ops \ {o} : /\ m_stmt_id'[p] = m_stmt_id[p] /\ m_stmt_id[p] # m_stmt_id[o]
                                /\ m_stmt_id[p] # NONE => cell'[m_stmt_id[p]] = cell[m_stmt_id[p]]
        /\ m_stmt_id'[o] = NONE
    BY <1>2 DEF SoleOwner, Held, Freed
  <2>2. \A p \in Ops : m_stmt_id'[p] # NONE =>
          /\ p # o /\ m_stmt_id[p] # NONE /\ m_stmt_id'[p] = m_stmt_id[p]
          /\ cell'[m_stmt_id'[p]] = cell[m_stmt_id[p]]
    BY <2>1
  <2>3. \A p \in Ops : m_stmt_id'[p] # NONE => cell'[m_stmt_id'[p]] \in stmt_ids'
    <3>1. \A p \in Ops \ {o} : m_stmt_id[p] # NONE =>
            cell[m_stmt_id[p]] \in stmt_ids /\ cell[m_stmt_id[p]] # cell[m_stmt_id[o]]
      BY <2>1, Constants DEF Accounted
    <3> QED BY <2>1, <2>2, <3>1
  <2>4. ASSUME NEW i \in stmt_ids'
        PROVE  \E p \in Ops : m_stmt_id'[p] # NONE /\ cell'[m_stmt_id'[p]] = i
    <3>1. PICK p \in Ops : m_stmt_id[p] # NONE /\ cell[m_stmt_id[p]] = i
      BY DEF Accounted
    <3>2. p # o
      BY <2>1, <3>1
    <3> QED BY <2>1, <3>1, <3>2
  <2>5. \A q, p \in Ops :
          m_stmt_id'[q] # NONE /\ m_stmt_id'[p] # NONE /\ cell'[m_stmt_id'[q]] = cell'[m_stmt_id'[p]]
            => m_stmt_id'[q] = m_stmt_id'[p]
    BY <2>2 DEF Accounted
  <2>6. \A i \in stmt_ids' : i \notin m_stmt_id_cleanup'
    BY <2>1 DEF Accounted
  <2> QED BY <1>1, <2>3, <2>4, <2>5, <2>6 DEF Accounted
<1>3. CASE ~SoleOwner(o)
  <2>1. Held(o) = {} /\ cell' = cell
    BY <1>3, NotSole
  <2>2. m_stmt_id[o] # NONE => \E p \in Ops \ {o} : m_stmt_id[p] = m_stmt_id[o]
    BY <1>3 DEF SoleOwner
  <2>3. m_stmt_id'[o] = NONE /\ \A p \in Ops \ {o} : m_stmt_id'[p] = m_stmt_id[p]
    OBVIOUS
  <2> QED BY <1>1, <2>1, <2>2, <2>3 DEF Accounted
<1> QED BY <1>2, <1>3

(* What is to be shown of each effect.                                     *)
Core ==
  /\ m_stmt_id \in [Ops -> Cells \cup {NONE}]
  /\ cell \in [Cells -> Ids \cup {0}]
  /\ stmt_ids \subseteq Ids /\ m_stmt_id_cleanup \subseteq Ids
  /\ m_max_pstmt \in Nat
  /\ ps \in {"UNKNOWN", "YES", "NO"}
  /\ Accounted /\ Support /\ NoServerLeak /\ CapRespected

(* Nothing changes for the ids.                                            *)
LEMMA KeptCore ==
  ASSUME IInv, Kept, setting' = setting
  PROVE  Core'
<1>1. UNCHANGED <<m_stmt_id, cell, stmt_ids, m_stmt_id_cleanup, m_max_pstmt, server>>
  BY DEF Kept, Rest
<1>2. Accounted' /\ NoServerLeak' /\ CapRespected'
  BY <1>1 DEF IInv, Accounted, NoServerLeak, CapRespected
<1> QED BY <1>1, <1>2 DEF Kept, Core, IInv, IdTypes, Support

(* Copying an operation: the copy held no id before, and shares that of    *)
(* the original.                                                           *)
LEMMA CopiedCore ==
  ASSUME IInv, NEW o \in Ops, NEW p \in Ops, Copied(o, p), setting' = setting
  PROVE  Core'
<1>1. UNCHANGED <<cell, stmt_ids, m_stmt_id_cleanup, m_max_pstmt, server, ps>>
  BY DEF Copied, Rest
<1>2. m_stmt_id' \in [Ops -> Cells \cup {NONE}]
  BY DEF Copied, IInv, IdTypes
<1>3. Accounted'
  BY <1>1 DEF Copied, IInv, IdTypes, Accounted
<1>4. NoServerLeak' /\ CapRespected'
  BY <1>1 DEF IInv, NoServerLeak, CapRespected
<1> QED BY <1>1, <1>2, <1>3, <1>4 DEF Core, IInv, IdTypes, Support

(* Sizes of the sets of ids.                                               *)
LEMMA IdSetFacts ==
  ASSUME NEW S, S \subseteq Ids
  PROVE  /\ IsFiniteSet(S) /\ Cardinality(S) \in Nat
         /\ \A T : Cardinality(S \ T) <= Cardinality(S) /\ Cardinality(S \ T) \in Nat
         /\ \A i \in Ids : i \notin S => Cardinality(S \cup {i}) = Cardinality(S) + 1
<1>1. IsFiniteSet(S)
  BY Constants, FS_Subset
<1>2. Cardinality(S) \in Nat
  BY <1>1, FS_CardinalityType
<1>3. ASSUME NEW T
      PROVE  Cardinality(S \ T) <= Cardinality(S) /\ Cardinality(S \ T) \in Nat
  <2>1. S \ T \subseteq S
    OBVIOUS
  <2> QED BY <1>1, <2>1, FS_Subset, FS_CardinalityType
<1>4. \A i \in Ids : i \notin S => Cardinality(S \cup {i}) = Cardinality(S) + 1
  BY <1>1, FS_AddElement
<1> QED BY <1>1, <1>2, <1>3, <1>4, Zenon

(* Giving an id back: it leaves the ids in use with its last holder, and   *)
(* goes to those that are to be cleaned up.                                *)
LEMMA ReleasedCore ==
  ASSUME IInv, NEW o \in Ops, Released(o), setting' = setting
  PROVE  Core'
<1>1. Accounted' /\ m_stmt_id' \in [Ops -> Cells \cup {NONE}] /\ cell' \in [Cells -> Ids \cup {0}]
  BY LetGoAccounted DEF Released
<1>2. Held(o) \subseteq stmt_ids
  BY DEF Held, SoleOwner, IInv, Accounted
<1>3. NoServerLeak'
  BY DEF Released, IInv, NoServerLeak
<1>4. CapRespected'
  <2>1. Cardinality(stmt_ids') <= Cardinality(stmt_ids)
        /\ Cardinality(stmt_ids') \in Nat /\ Cardinality(stmt_ids) \in Nat
    BY IdSetFacts, Zenon DEF Released, IInv, IdTypes
  <2> QED BY <2>1 DEF Released, IInv, IdTypes, CapRespected
<1> QED BY <1>1, <1>2, <1>3, <1>4 DEF Core, IInv, IdTypes, Support, Released

(* Giving an id up without cleaning up: there is nothing on a server       *)
(* without prepared statements.                                            *)
LEMMA UnsupportedCore ==
  ASSUME IInv, NEW o \in Ops, Unsupported(o), setting' = setting
  PROVE  Core'
<1>1. Accounted' /\ m_stmt_id' \in [Ops -> Cells \cup {NONE}] /\ cell' \in [Cells -> Ids \cup {0}]
  BY LetGoAccounted DEF Unsupported
<1>2. NoServerLeak'
  BY DEF Unsupported, IInv, NoServerLeak, Support
<1>3. Cardinality(stmt_ids') \in Nat
  BY IdSetFacts DEF Unsupported, IInv, IdTypes
<1>4. CapRespected' /\ m_max_pstmt' \in Nat
  <2>1. CASE SoleOwner(o)
    BY <1>3, <2>1 DEF Unsupported, CapRespected
  <2>2. CASE ~SoleOwner(o)
    BY <2>2, NotSole DEF Unsupported, CapRespected, IInv, IdTypes
  <2> QED BY <2>1, <2>2
<1> QED BY <1>1, <1>2, <1>4 DEF Core, IInv, IdTypes, Support, Unsupported

(* What remains on the server after others were deallocated is still known *)
(* to the session.                                                         *)
LEMMA ServerLeft ==
  ASSUME IInv, NEW o \in Ops, NEW id \in Ids, Remains(o, id),
         m_stmt_id_cleanup' = CleanupAfter(o),
         stmt_ids \ {id} \subseteq stmt_ids',
         id \in stmt_ids' \/ server'[id] = NONE
  PROVE  NoServerLeak'
BY DEF IInv, NoServerLeak, Remains, CleanupAfter, Deallocated

(* Getting an id: it is a new one, or the one that only this operation     *)
(* holds. Who shared an id before leaves it to the others.                 *)
LEMMA AcquiredCore ==
  ASSUME IInv, NEW o \in Ops, NEW id \in Ids, NEW c \in Cells, Acquired(o, id, c),
         setting' = setting
  PROVE  Core'
<1> USE DEF IInv, IdTypes, Acquired
<1>1. m_stmt_id' \in [Ops -> Cells \cup {NONE}] /\ cell' \in [Cells -> Ids \cup {0}]
  OBVIOUS
<1>2. m_stmt_id_cleanup' \subseteq m_stmt_id_cleanup
  BY DEF CleanupAfter
<1>3. ASSUME SoleOwner(o) PROVE Accounted' /\ CapRespected'
  <2>1. c = m_stmt_id[o] /\ id = cell[c] /\ id \in stmt_ids
    BY <1>3, NewId
  <2>2. m_stmt_id' = m_stmt_id /\ cell' = cell /\ stmt_ids' = stmt_ids
    BY <2>1
  <2> QED BY <1>2, <2>2 DEF Accounted, CapRespected
<1>4. ASSUME ~SoleOwner(o) PROVE Accounted' /\ CapRespected'
  <2>1. HasRoom /\ id \notin stmt_ids /\ \A p \in Ops : m_stmt_id[p] # c
    BY <1>4, NewId
  <2>2. /\ m_stmt_id'[o] = c /\ cell'[c] = id /\ c # NONE
        /\ \A p \in Ops \ {o} :
             /\ m_stmt_id'[p] = m_stmt_id[p]
             /\ m_stmt_id[p] # NONE => cell'[m_stmt_id[p]] = cell[m_stmt_id[p]]
    BY <2>1, Constants
  <2>3. m_stmt_id[o] # NONE => \E p \in Ops \ {o} : m_stmt_id[p] = m_stmt_id[o]
    BY <1>4 DEF SoleOwner
  <2>4. \A p \in Ops : m_stmt_id'[p] # NONE => cell'[m_stmt_id'[p]] \in stmt_ids'
    BY <2>2 DEF Accounted
  <2>5. ASSUME NEW i \in stmt_ids'
        PROVE  \E p \in Ops : m_stmt_id'[p] # NONE /\ cell'[m_stmt_id'[p]] = i
    <3>1. CASE i = id
      BY <2>2, <3>1
    <3>2. CASE i \in stmt_ids
      <4>1. PICK p \in Ops : m_stmt_id[p] # NONE /\ cell[m_stmt_id[p]] = i
        BY <3>2 DEF Accounted
      <4>2. PICK q \in Ops \ {o} : m_stmt_id[q] = m_stmt_id[p]
        BY <2>3, <4>1
      <4> QED BY <2>2, <4>1, <4>2
    <3> QED BY <3>1, <3>2
  <2>6. \A p \in Ops \ {o} : m_stmt_id[p] # NONE => cell[m_stmt_id[p]] # id
    BY <2>1 DEF Accounted
  <2>7. \A q, p \in Ops :
          m_stmt_id'[q] # NONE /\ m_stmt_id'[p] # NONE /\ cell'[m_stmt_id'[q]] = cell'[m_stmt_id'[p]]
            => m_stmt_id'[q] = m_stmt_id'[p]
    BY <2>2, <2>6 DEF Accounted
  <2>8. \A i \in stmt_ids' : i \notin m_stmt_id_cleanup'
    BY <1>2, <1>4 DEF Accounted, CleanupAfter
  <2>9. CapRespected'
    <3>1. Cardinality(stmt_ids') = Cardinality(stmt_ids) + 1 /\ Cardinality(stmt_ids) \in Nat
      BY <2>1, IdSetFacts
    <3> QED BY <2>1, <3>1 DEF HasRoom, CapRespected
  <2> QED BY <2>4, <2>5, <2>7, <2>8, <2>9 DEF Accounted
<1>5. Accounted' /\ CapRespected'
  BY <1>3, <1>4
<1>6. NoServerLeak'
  BY ServerLeft
<1>7. Support' /\ ps' \in {"UNKNOWN", "YES", "NO"}
  BY DEF Support, PsAfter, ServerAfter
<1> QED BY <1>1, <1>2, <1>5, <1>6, <1>7 DEF Core

(* An id that the server refused is given up; the limit is then what the   *)
(* session had without it.                                                 *)
LEMMA RefusedCore ==
  ASSUME IInv, NEW o \in Ops, NEW id \in Ids, NEW c \in Cells, Refused(o, id, c),
         setting' = setting
  PROVE  Core'
<1> USE DEF IInv, IdTypes, Refused
<1>1. m_stmt_id_cleanup' \subseteq m_stmt_id_cleanup
  BY DEF CleanupAfter
<1>2. stmt_ids' = stmt_ids \ Held(o)
  <2>1. CASE SoleOwner(o)
    BY <2>1, NewId DEF Held
  <2>2. CASE ~SoleOwner(o)
    BY <2>2, NewId DEF Held
  <2> QED BY <2>1, <2>2
<1>3. Accounted' /\ m_stmt_id' \in [Ops -> Cells \cup {NONE}] /\ cell' \in [Cells -> Ids \cup {0}]
  BY <1>1, <1>2, LetGoAccounted
<1>4. NoServerLeak'
  BY ServerLeft
<1>5. CapRespected' /\ m_max_pstmt' \in Nat
  BY IdSetFacts DEF CapRespected
<1>6. Support' /\ ps' \in {"UNKNOWN", "YES", "NO"}
  BY DEF Support, ServerAfter
<1> QED BY <1>1, <1>3, <1>4, <1>5, <1>6 DEF Core

-----------------------------------------------------------------------------
(* The theorems.                                                           *)

(* The invariant holds in a new session.                                   *)
LEMMA InitIInv == Init => IInv
<1> SUFFICES ASSUME Init PROVE IInv
  OBVIOUS
<1>1. IdTypes
  BY OpAssumption DEF Init, IdTypes
<1>2. CapRespected
  BY OpAssumption, FS_EmptySet DEF Init, CapRespected
<1> QED BY <1>1, <1>2 DEF Init, IInv, Accounted, NoHolder, Support, NoServerLeak

(* Every step preserves the invariant.                                     *)
LEMMA NextIInv ==
  ASSUME IInv, [Next]_vars
  PROVE  IInv'
<1>1. setting' = setting
  BY SettingFixed
<1>2. Core'
  BY <1>1, StepEffect, KeptCore, CopiedCore, ReleasedCore, UnsupportedCore, AcquiredCore,
     RefusedCore DEF Effect
<1> QED BY <1>1, <1>2, DefStep DEF Core, IInv, IdTypes

(* The invariant holds all the time.                                       *)
THEOREM Accounting == Spec => []IInv
BY InitIInv, NextIInv, PTL DEF Spec

(* For any number of operations and ids: the ids in use are those that     *)
(* operations hold, two operations share an id only as copies, and no id   *)
(* in use is cleaned up (create_stmt_id(), release_stmt_id(),              *)
(* reset_state(), ~Op_base()).                                             *)
THEOREM AllIdsAccounted == Spec => []IdsAccounted
<1>1. IInv => IdsAccounted
  BY DEF IInv, IdTypes, Accounted, IdsAccounted
<1> QED BY <1>1, Accounting, PTL

(* For any number of operations and ids: every statement on the server is  *)
(* in use or is going to be cleaned up by clean_up_stmt_id().              *)
THEOREM NothingLeaks == Spec => []NoServerLeak
<1>1. IInv => NoServerLeak
  BY DEF IInv
<1> QED BY <1>1, Accounting, PTL

(* For any number of operations and ids: never are more ids in use than    *)
(* the limit that error_stmt_id() learned.                                 *)
THEOREM CapHolds == Spec => []CapRespected
<1>1. IInv => CapRespected
  BY DEF IInv
<1> QED BY <1>1, Accounting, PTL

(* For any number of operations and ids: once the server is known to have  *)
(* no prepared statements the session sticks to that, and hands out no     *)
(* further id (HasRoom in create_stmt_id()).                               *)
THEOREM NoStaysNo == Spec => UnsupportedIsFinal
<1>1. ASSUME IInv, [Next]_vars, ps = "NO"
      PROVE  ps' = "NO" /\ stmt_ids' \subseteq stmt_ids
  <2>1. CASE Kept
    BY <1>1, <2>1 DEF Kept, Rest
  <2>2. ASSUME NEW o \in Ops, NEW p \in Ops, Copied(o, p)
        PROVE  ps' = "NO" /\ stmt_ids' \subseteq stmt_ids
    BY <1>1, <2>2 DEF Copied, Rest
  <2>3. ASSUME NEW o \in Ops, Released(o) \/ Unsupported(o)
        PROVE  ps' = "NO" /\ stmt_ids' \subseteq stmt_ids
    BY <1>1, <2>3 DEF Released, Unsupported
  <2>4. ASSUME NEW o \in Ops, NEW id \in Ids, NEW c \in Cells,
               Acquired(o, id, c) \/ Refused(o, id, c)
        PROVE  ps' = "NO" /\ stmt_ids' \subseteq stmt_ids
    <3>1. CreateStmtId(o, id, c)
      BY <2>4 DEF Acquired, Refused
    <3>2. SoleOwner(o) /\ id \in stmt_ids
      BY <1>1, <3>1, NewId DEF HasRoom
    <3>3. PsAfter(o, id) = "NO" /\ ~setting.supported
      BY <1>1, <3>2 DEF PsAfter, Deallocated, IInv, Support
    <3> QED BY <2>4, <3>2, <3>3 DEF Acquired, Refused
  <2> QED BY <1>1, <2>1, <2>2, <2>3, <2>4, StepEffect DEF Effect
<1> QED BY <1>1, Accounting, PTL DEF Spec, UnsupportedIsFinal

-----------------------------------------------------------------------------
(* What is executed is what the operation stands for.                      *)

(* Types of the variables that make up the statement of an operation.      *)
OpTypes ==
  /\ m_has_limit \in [Ops -> BOOLEAN] /\ m_has_offset \in [Ops -> BOOLEAN]
  /\ m_map \in [Ops -> SUBSET Names]
  /\ m_prepare_state \in [Ops -> PrepareStates]
  /\ server \in [Ids -> Stmts \cup {NONE}]

(* An operation that is going to execute its prepared statement has all    *)
(* parameters bound, and the server has under its id the very statement    *)
(* that the operation stands for: a change of the definition, of whether   *)
(* there is a limit, or of the ids asks for another preparation.           *)
Prepared(o) ==
  m_prepare_state[o] = "PS_EXECUTE_PREPARED" /\ m_stmt_id[o] # NONE =>
    /\ server[cell[m_stmt_id[o]]] = StmtOf(o)
    /\ Uses[def[o]] \subseteq m_map[o]

(* This holds for careful applications.                                    *)
Right == setting.careful => \A o \in Ops : def[o] \in Defs \cup {NONE} /\ Prepared(o)

(* The inductive invariant for PreparedRight.                              *)
PInv == IInv /\ OpTypes /\ Right

(* An operation that nothing happens to is prepared as before.             *)
LEMMA Untouched ==
  ASSUME NEW p \in Ops, Prepared(p),
         def'[p] = def[p], m_has_limit'[p] = m_has_limit[p], m_has_offset'[p] = m_has_offset[p],
         m_map'[p] = m_map[p], m_prepare_state'[p] = m_prepare_state[p],
         m_stmt_id'[p] = m_stmt_id[p],
         m_stmt_id[p] # NONE =>
           /\ cell'[m_stmt_id[p]] = cell[m_stmt_id[p]]
           /\ server'[cell[m_stmt_id[p]]] = server[cell[m_stmt_id[p]]]
  PROVE  Prepared(p)'
<1>1. StmtOf(p)' = StmtOf(p)
  BY DEF StmtOf, HasLimit
<1> QED BY <1>1 DEF Prepared

(* Letting go of an id leaves the ids of others alone.                     *)
LEMMA OthersHold ==
  ASSUME IInv, NEW o \in Ops, NEW p \in Ops, p # o, m_stmt_id[p] # NONE
  PROVE  /\ m_stmt_id[p] \in Cells /\ cell[m_stmt_id[p]] \in Ids
         /\ Freed(o)[m_stmt_id[p]] = cell[m_stmt_id[p]]
<1>1. m_stmt_id[p] \in Cells /\ cell[m_stmt_id[p]] \in stmt_ids /\ cell[m_stmt_id[p]] \in Ids
  BY DEF IInv, IdTypes, Accounted
<1> QED BY <1>1 DEF Freed, SoleOwner

(* Taking an id leaves the ids of others, and their statements, alone.     *)
LEMMA OthersKept ==
  ASSUME IInv, NEW o \in Ops, NEW p \in Ops, p # o, m_stmt_id[p] # NONE,
         NEW id \in Ids, NEW c \in Cells, CreateStmtId(o, id, c)
  PROVE  /\ m_stmt_id[p] # c /\ cell[m_stmt_id[p]] # id
         /\ ServerAfter(o, id)[cell[m_stmt_id[p]]] = server[cell[m_stmt_id[p]]]
<1>1. cell[m_stmt_id[p]] \in stmt_ids /\ cell[m_stmt_id[p]] \in Ids
  BY DEF IInv, IdTypes, Accounted
<1>2. CASE SoleOwner(o)
  <2>1. c = m_stmt_id[o] /\ id = cell[c] /\ m_stmt_id[p] # c /\ m_stmt_id[o] # NONE
    BY <1>2, NewId DEF SoleOwner
  <2>2. cell[m_stmt_id[p]] # id
    BY <2>1 DEF IInv, Accounted
  <2> QED BY <1>1, <1>2, <2>1, <2>2 DEF ServerAfter, Deallocated
<1>3. CASE ~SoleOwner(o)
  <2>1. id \notin stmt_ids /\ m_stmt_id[p] # c
    BY <1>3, NewId
  <2>2. cell[m_stmt_id[p]] \notin m_stmt_id_cleanup
    BY <1>1 DEF IInv, Accounted
  <2> QED BY <1>1, <2>1, <2>2 DEF ServerAfter, Deallocated
<1> QED BY <1>2, <1>3

(* The types are preserved.                                                *)
LEMMA OpTypesStep ==
  ASSUME PInv, [Next]_vars
  PROVE  OpTypes'
<1> USE DEF PInv, OpTypes, PrepareStates
<1>1. CASE UNCHANGED vars \/ DropResult
  BY <1>1 DEF vars, opDef, DropResult
<1>2. ASSUME NEW o \in Ops,
             NewOp(o) \/ SetDef(o) \/ DestroyOp(o) \/ ExecuteAgain(o) \/ ExecuteBlocked(o)
      PROVE  OpTypes'
  BY <1>2, Zenon DEF NewOp, SetDef, DestroyOp, NoExecution, ExecuteAgain, ExecuteBlocked, opDef
<1>3. ASSUME NEW o \in Ops, set_limit(o) \/ clear_limit(o) \/ set_offset(o) \/ clear_offset(o)
      PROVE  OpTypes'
  BY <1>3, Zenon DEF set_limit, clear_limit, set_offset, clear_offset, LimitCall, Reprepare, NoExecution
<1>4. ASSUME NEW o \in Ops, NEW p \in Ops, CopyOp(o, p) PROVE OpTypes'
  BY <1>4 DEF CopyOp, NoExecution
<1>5. ASSUME NEW o \in Ops, NEW n \in Names, add_param(o, n) PROVE OpTypes'
  BY <1>5 DEF add_param, NoExecution
<1>6. ASSUME NEW o \in Ops, ExecuteDirect(o) PROVE OpTypes'
  BY <1>6 DEF ExecuteDirect, opDef
<1>7. ASSUME NEW o \in Ops, ExecutePrepared(o) PROVE OpTypes'
  BY <1>7 DEF ExecutePrepared, ExecuteMessage, ExecuteUnsupported, ExecuteNothing, opDef
<1>8. ASSUME NEW o \in Ops, ExecutePrepare(o) PROVE OpTypes'
  <2>1. PICK id \in Ids, c \in Cells :
          PrepareNotSent(o, id, c) \/ PrepareRefused(o, id) \/ PrepareDone(o, id, c)
    BY <1>8 DEF ExecutePrepare
  <2>2. ServerAfter(o, id) \in [Ids -> Stmts \cup {NONE}]
    BY DEF ServerAfter
  <2>3. StmtOf(o) \in Stmts
    <3>1. def[o] \in AllDefs
      BY <1>8 DEF ExecutePrepare, Ready, IInv, IdTypes
    <3> QED BY <3>1 DEF StmtOf, Stmts, HasLimit
  <2>4. UNCHANGED opDef
    BY <1>8 DEF ExecutePrepare
  <2>5. server' \in [Ids -> Stmts \cup {NONE}]
    BY <2>1, <2>2, <2>3 DEF PrepareNotSent, PrepareRefused, PrepareDone
  <2>6. m_prepare_state' \in [Ops -> PrepareStates]
    BY <2>1 DEF PrepareNotSent, PrepareRefused, PrepareDone
  <2> QED BY <2>4, <2>5, <2>6 DEF opDef
<1> QED BY <1>1, <1>2, <1>3, <1>4, <1>5, <1>6, <1>7, <1>8 DEF Next

(* A careful application defines operations completely, and what it        *)
(* executes has all its parameters bound.                                  *)
LEMMA CarefulFacts ==
  ASSUME PInv, setting.careful
  PROVE  /\ Offered \subseteq Defs
         /\ \A o \in Ops : Ready(o) => def[o] \in Defs /\ ~Incomplete(o) /\ Uses[def[o]] \subseteq m_map[o]
<1>1. Offered \subseteq Defs
  BY Constants DEF PInv, IInv, IdTypes, Offered
<1>2. ASSUME NEW o \in Ops, Ready(o)
      PROVE  def[o] \in Defs /\ ~Incomplete(o) /\ Uses[def[o]] \subseteq m_map[o]
  BY <1>2, OpAssumption DEF PInv, Right, Ready, Incomplete
<1> QED BY <1>1, <1>2

(* Letting go of an id leaves the operation without one and the others     *)
(* prepared.                                                               *)
LEMMA LetGoPrepared ==
  ASSUME PInv, setting.careful, NEW o \in Ops, NEW p \in Ops,
         m_stmt_id' = [m_stmt_id EXCEPT ![o] = NONE],
         cell' = Freed(o) \/ cell' = cell,
         p # o => /\ def'[p] = def[p] /\ m_has_limit'[p] = m_has_limit[p]
                  /\ m_has_offset'[p] = m_has_offset[p] /\ m_map'[p] = m_map[p]
                  /\ m_prepare_state'[p] = m_prepare_state[p]
                  /\ m_stmt_id[p] # NONE =>
                       server'[cell[m_stmt_id[p]]] = server[cell[m_stmt_id[p]]]
  PROVE  Prepared(p)'
<1>1. CASE p = o
  BY <1>1 DEF Prepared, PInv, IInv, IdTypes
<1>2. CASE p # o
  <2>1. m_stmt_id[p] # NONE => cell'[m_stmt_id[p]] = cell[m_stmt_id[p]]
    BY <1>2, OthersHold DEF PInv
  <2>2. Prepared(p) /\ m_stmt_id'[p] = m_stmt_id[p]
    BY <1>2 DEF PInv, Right, IInv, IdTypes
  <2> QED BY <1>2, <2>1, <2>2, Untouched
<1> QED BY <1>1, <1>2

(* Executing an operation keeps all operations prepared.                   *)
LEMMA ExecuteRight ==
  ASSUME PInv, setting.careful, NEW o \in Ops, NEW p \in Ops,
         ExecuteDirect(o) \/ ExecutePrepare(o) \/ ExecutePrepared(o)
  PROVE  def' = def /\ Prepared(p)'
<1>0. IInv /\ IdTypes /\ OpTypes /\ Right
  BY DEF PInv, IInv
<1>1. Ready(o) /\ UNCHANGED opDef
  BY DEF ExecuteDirect, ExecutePrepare, ExecutePrepared
<1>2. def' = def /\ m_has_limit' = m_has_limit /\ m_has_offset' = m_has_offset /\ m_map' = m_map
  BY <1>1 DEF opDef
<1>3. Prepared(p) /\ ~Incomplete(o) /\ Uses[def[o]] \subseteq m_map[o]
  BY <1>0, <1>1, CarefulFacts DEF Right
<1>4. CASE ExecuteDirect(o)
  <2>1. cell' = Freed(o) \/ cell' = cell
    BY <1>4 DEF ExecuteDirect, ReleaseStmtId, idVars
  <2>2. p # o => m_prepare_state'[p] = m_prepare_state[p]
    BY <1>0, <1>4 DEF ExecuteDirect, OpTypes
  <2>3. m_stmt_id' = [m_stmt_id EXCEPT ![o] = NONE] /\ server' = server
    BY <1>4 DEF ExecuteDirect
  <2> QED BY <1>2, <2>1, <2>2, <2>3, LetGoPrepared, Zenon
<1>5. CASE ExecutePrepared(o)
  <2>1. server' = server
    BY <1>5 DEF ExecutePrepared
  <2>2. CASE ExecuteMessage(o) \/ ExecuteNothing(o)
    <3>1. UNCHANGED <<m_prepare_state, m_stmt_id, cell>>
      BY <2>2 DEF ExecuteMessage, ExecuteNothing
    <3> QED BY <1>2, <1>3, <2>1, <3>1, Untouched
  <2>3. CASE ExecuteUnsupported(o)
    <3>1. /\ m_stmt_id' = [m_stmt_id EXCEPT ![o] = NONE] /\ cell' = Freed(o)
          /\ p # o => m_prepare_state'[p] = m_prepare_state[p]
      BY <1>0, <2>3 DEF ExecuteUnsupported, OpTypes
    <3> QED BY <1>2, <2>1, <3>1, LetGoPrepared, Zenon
  <2> QED BY <1>5, <2>2, <2>3 DEF ExecutePrepared
<1>6. CASE ExecutePrepare(o)
  <2>1. PICK id \in Ids, c \in Cells :
          /\ CreateStmtId(o, id, c)
          /\ PrepareRefused(o, id) \/ PrepareDone(o, id, c)
    BY <1>3, <1>6, Zenon DEF ExecutePrepare, PrepareNotSent
  <2>2. ASSUME p # o, m_stmt_id[p] # NONE
        PROVE  /\ m_stmt_id[p] # c /\ cell[m_stmt_id[p]] # id
               /\ m_stmt_id[p] \in Cells /\ cell[m_stmt_id[p]] \in Ids
               /\ ServerAfter(o, id)[cell[m_stmt_id[p]]] = server[cell[m_stmt_id[p]]]
    <3>1. IInv /\ CreateStmtId(o, id, c)
      BY <1>0, <2>1
    <3>2. m_stmt_id[p] \in Cells /\ cell[m_stmt_id[p]] \in Ids
      BY <2>2, <3>1, OthersHold
    <3>3. m_stmt_id[p] # c /\ cell[m_stmt_id[p]] # id
      BY <2>2, <3>1, OthersKept
    <3>4. ServerAfter(o, id)[cell[m_stmt_id[p]]] = server[cell[m_stmt_id[p]]]
      BY <2>2, <3>1, OthersKept
    <3> QED BY <3>2, <3>3, <3>4
  <2>3. p # o => m_prepare_state'[p] = m_prepare_state[p]
    BY <1>0, <2>1 DEF PrepareRefused, PrepareDone, OpTypes
  <2>4. p # o /\ m_stmt_id[p] # NONE =>
          server'[cell[m_stmt_id[p]]] = server[cell[m_stmt_id[p]]]
    BY <2>1, <2>2, Zenon DEF PrepareRefused, PrepareDone, ServerAfter
  <2>5. CASE PrepareRefused(o, id)
    <3>1. m_stmt_id' = [m_stmt_id EXCEPT ![o] = NONE] /\ cell' = Freed(o)
      BY <2>5 DEF PrepareRefused
    <3> QED BY <1>2, <2>3, <2>4, <3>1, LetGoPrepared, Zenon
  <2>6. CASE PrepareDone(o, id, c)
    <3>1. /\ m_stmt_id' = [m_stmt_id EXCEPT ![o] = c] /\ cell' = [cell EXCEPT ![c] = id]
          /\ server' = [ServerAfter(o, id) EXCEPT ![id] = StmtOf(o)]
      BY <2>6 DEF PrepareDone
    <3>2. CASE p = o
      <4>1. m_stmt_id'[o] = c /\ cell'[c] = id /\ server'[id] = StmtOf(o)
        BY <1>0, <3>1 DEF IdTypes, ServerAfter
      <4>2. StmtOf(o)' = StmtOf(o)
        BY <1>2 DEF StmtOf, HasLimit
      <4> QED BY <1>2, <1>3, <3>2, <4>1, <4>2 DEF Prepared
    <3>3. CASE p # o
      <4>1. m_stmt_id'[p] = m_stmt_id[p]
        BY <1>0, <3>1, <3>3 DEF IdTypes
      <4>2. m_stmt_id[p] # NONE => cell'[m_stmt_id[p]] = cell[m_stmt_id[p]]
        BY <1>0, <2>2, <3>1, <3>3 DEF IdTypes
      <4> QED BY <1>2, <1>3, <2>3, <2>4, <3>3, <4>1, <4>2, Untouched
    <3> QED BY <3>2, <3>3
  <2> QED BY <2>1, <2>5, <2>6
<1> QED BY <1>2, <1>4, <1>5, <1>6

(* Every step keeps the operations prepared, or asks for a preparation.    *)
LEMMA RightStep ==
  ASSUME PInv, [Next]_vars
  PROVE  Right'
<1>0. IInv /\ IdTypes /\ OpTypes /\ Right
  BY DEF PInv, IInv
<1>1. setting' = setting
  BY SettingFixed
<1> SUFFICES ASSUME setting.careful, NEW p \in Ops
             PROVE  def'[p] \in Defs \cup {NONE} /\ Prepared(p)'
  BY <1>0, <1>1 DEF Right
<1>2. def[p] \in Defs \cup {NONE} /\ Prepared(p)
  BY <1>0 DEF Right
<1>3. CASE UNCHANGED vars \/ DropResult \/ \E o \in Ops : ExecuteAgain(o) \/ ExecuteBlocked(o)
  <2>1. UNCHANGED <<opDef, m_prepare_state, m_stmt_id, cell, server>>
    BY <1>3 DEF vars, idVars, DropResult, ExecuteAgain, ExecuteBlocked
  <2> QED BY <1>2, <2>1, Untouched, Zenon DEF opDef
<1>4. ASSUME NEW o \in Ops, NewOp(o) \/ SetDef(o)
      PROVE  def'[p] \in Defs \cup {NONE} /\ Prepared(p)'
  <2>1. /\ UNCHANGED <<m_has_limit, m_has_offset, m_map, m_stmt_id, cell, server>>
        /\ \E d \in Offered : def' = [def EXCEPT ![o] = d]
    BY <1>4 DEF NewOp, SetDef, NoExecution, idVars
  <2>2. def'[p] \in Defs \cup {NONE} /\ (p # o => def'[p] = def[p])
    BY <1>0, <1>2, <2>1, CarefulFacts, Zenon DEF IdTypes
  <2>3. CASE p = o
    <3>1. m_stmt_id'[o] = NONE \/ m_prepare_state'[o] = "PS_EXECUTE"
      BY <1>0, <1>4 DEF NewOp, SetDef, IInv, NoHolder, OpTypes
    <3> QED BY <2>2, <2>3, <3>1 DEF Prepared
  <2>4. CASE p # o
    <3>1. m_prepare_state'[p] = m_prepare_state[p]
      BY <1>0, <1>4, <2>4 DEF NewOp, SetDef, OpTypes
    <3> QED BY <1>2, <2>1, <2>2, <2>4, <3>1, Untouched, Zenon
  <2> QED BY <2>3, <2>4
<1>5. ASSUME NEW o \in Ops, DestroyOp(o)
      PROVE  def'[p] \in Defs \cup {NONE} /\ Prepared(p)'
  <2>1. def'[p] \in Defs \cup {NONE}
    BY <1>0, <1>2, <1>5 DEF DestroyOp, IdTypes
  <2>2. /\ m_stmt_id' = [m_stmt_id EXCEPT ![o] = NONE] /\ cell' = Freed(o) /\ server' = server
        /\ p # o => /\ def'[p] = def[p] /\ m_has_limit'[p] = m_has_limit[p]
                    /\ m_has_offset'[p] = m_has_offset[p] /\ m_map'[p] = m_map[p]
                    /\ m_prepare_state'[p] = m_prepare_state[p]
    BY <1>0, <1>5, Zenon DEF DestroyOp, ReleaseStmtId, NoExecution, OpTypes, IdTypes
  <2> QED BY <2>1, <2>2, LetGoPrepared, Zenon
<1>6. ASSUME NEW o \in Ops, NEW q \in Ops, CopyOp(o, q)
      PROVE  def'[p] \in Defs \cup {NONE} /\ Prepared(p)'
  <2>1. cell' = cell /\ server' = server
    BY <1>6 DEF CopyOp, NoExecution, idVars
  <2>2. CASE p = q
    <3>1. /\ def'[p] = def[o] /\ m_has_limit'[p] = m_has_limit[o]
          /\ m_has_offset'[p] = m_has_offset[o] /\ m_map'[p] = m_map[o]
          /\ m_prepare_state'[p] = m_prepare_state[o] /\ m_stmt_id'[p] = m_stmt_id[o]
      BY <1>0, <1>6, <2>2 DEF CopyOp, OpTypes, IdTypes
    <3>2. StmtOf(p)' = StmtOf(o)
      BY <3>1, Zenon DEF StmtOf, HasLimit
    <3>3. def[o] \in Defs \cup {NONE} /\ Prepared(o)
      BY <1>0 DEF Right
    <3> QED BY <2>1, <3>1, <3>2, <3>3 DEF Prepared
  <2>3. CASE p # q
    <3>1. /\ def'[p] = def[p] /\ m_has_limit'[p] = m_has_limit[p]
          /\ m_has_offset'[p] = m_has_offset[p] /\ m_map'[p] = m_map[p]
          /\ m_prepare_state'[p] = m_prepare_state[p] /\ m_stmt_id'[p] = m_stmt_id[p]
      BY <1>0, <1>6, <2>3 DEF CopyOp, OpTypes, IdTypes
    <3> QED BY <1>2, <2>1, <3>1, Untouched
  <2> QED BY <2>2, <2>3
<1>7. ASSUME NEW o \in Ops, set_limit(o) \/ clear_limit(o) \/ set_offset(o) \/ clear_offset(o)
      PROVE  def'[p] \in Defs \cup {NONE} /\ Prepared(p)'
  <2>1. UNCHANGED <<def, m_map, m_stmt_id, cell, server>>
    BY <1>7, Zenon DEF set_limit, clear_limit, set_offset, clear_offset, LimitCall, NoExecution, idVars
  <2>2. p # o => /\ m_has_limit'[p] = m_has_limit[p] /\ m_has_offset'[p] = m_has_offset[p]
                 /\ m_prepare_state'[p] = m_prepare_state[p]
    BY <1>0, <1>7 DEF set_limit, clear_limit, set_offset, clear_offset, Reprepare, OpTypes
  <2>3. m_prepare_state'[o] = "PS_EXECUTE_PREPARED" =>
          m_prepare_state[o] = "PS_EXECUTE_PREPARED" /\ HasLimit(o)' = HasLimit(o)
    BY <1>0, <1>7 DEF set_limit, clear_limit, set_offset, clear_offset, Reprepare, HasLimit, OpTypes
  <2>4. CASE p = o
    <3>1. m_prepare_state'[o] = "PS_EXECUTE_PREPARED" => StmtOf(o)' = StmtOf(o)
      BY <2>1, <2>3 DEF StmtOf
    <3> QED BY <1>2, <2>1, <2>3, <2>4, <3>1 DEF Prepared
  <2> QED BY <1>2, <2>1, <2>2, <2>4, Untouched, Zenon
<1>8. ASSUME NEW o \in Ops, NEW n \in Names, add_param(o, n)
      PROVE  def'[p] \in Defs \cup {NONE} /\ Prepared(p)'
  <2>1. UNCHANGED <<def, m_has_limit, m_has_offset, m_prepare_state, m_stmt_id, cell, server>>
    BY <1>8, Zenon DEF add_param, NoExecution, idVars
  <2>2. CASE p = o /\ m_prepare_state[o] = "PS_EXECUTE_PREPARED" /\ m_stmt_id[o] # NONE
    <3>1. n \in Uses[def[o]] /\ Uses[def[o]] \subseteq m_map[o]
      BY <1>2, <1>8, <2>2 DEF add_param, Prepared
    <3>2. m_map'[p] = m_map[p]
      BY <1>0, <1>8, <2>2, <3>1 DEF add_param, OpTypes
    <3> QED BY <1>2, <2>1, <3>2, Untouched
  <2>3. CASE p # o
    <3>1. m_map'[p] = m_map[p]
      BY <1>0, <1>8, <2>3 DEF add_param, OpTypes
    <3> QED BY <1>2, <2>1, <3>1, Untouched
  <2> QED BY <1>2, <2>1, <2>2, <2>3 DEF Prepared
<1> QED BY <1>2, <1>3, <1>4, <1>5, <1>6, <1>7, <1>8, ExecuteRight DEF Next

(* The invariant holds all the time.                                       *)
THEOREM StaysPrepared == Spec => []PInv
<1>1. ASSUME Init PROVE PInv
  <2>1. OpTypes
    BY <1>1 DEF Init, OpTypes, PrepareStates
  <2>2. Right
    BY <1>1 DEF Init, Right, Prepared
  <2> QED BY <1>1, <2>1, <2>2, InitIInv DEF PInv
<1>2. PInv /\ [Next]_vars => PInv'
  BY NextIInv, OpTypesStep, RightStep DEF PInv
<1> QED BY <1>1, <1>2, PTL DEF Spec

(* For any number of operations, definitions, parameters and ids: when a   *)
(* careful application executes an operation by its prepared statement,    *)
(* the server has that statement, it is what the operation stands for, and *)
(* each placeholder gets the value this operation bound to its name        *)
(* (use_prepared_statement(), the calls that change the prepare state, and *)
(* the Execute message that is filled only if there is something to put    *)
(* in).                                                                    *)
THEOREM ExecutesTheRightStatement == Spec => PreparedRight
<1> DEFINE IsRight ==
      setting.careful /\ last'.sent = "execute" =>
        /\ last'.stmt # NONE
        /\ last'.stmt.def = last'.want.def /\ last'.stmt.lim = last'.want.lim
        /\ BindsRight(last'.stmt, last'.args, last'.op)
<1>1. ASSUME PInv, Next PROVE IsRight
  <2> SUFFICES ASSUME setting.careful, last'.sent = "execute"
               PROVE  /\ last'.stmt # NONE
                      /\ last'.stmt.def = last'.want.def /\ last'.stmt.lim = last'.want.lim
                      /\ BindsRight(last'.stmt, last'.args, last'.op)
    OBVIOUS
  <2>1. PICK o \in Ops : ExecutePrepared(o) /\ ExecuteMessage(o)
    <3>1. Quiet.sent # "execute"
      BY DEF Quiet
    <3>2. \A s \in {"direct", "prepare", "none"} : \A x : Report(s, x).sent = s
      BY DEF Report, Quiet
    <3>3. ASSUME NEW o \in Ops, NEW args, SendDirect(o, args) PROVE FALSE
      <4>1. PICK rep : rep = Report("direct", "none")
        OBVIOUS
      <4>2. rep = [op |-> NONE, sent |-> "direct", outcome |-> "none",
                   want |-> NONE, stmt |-> NONE, args |-> NoArgs]
        BY <4>1, Zenon DEF Report, Quiet
      <4>3. NotSent(o, rep) \/ Reply(o, rep)
        BY <3>3, <4>1 DEF SendDirect
      <4>4. ~Reply(o, rep)
        BY <4>2 DEF Reply
      <4>5. PICK s \in {"nothing", "none"}, x \in {"ok", "throw"} :
              last' = [rep EXCEPT !.sent = s, !.outcome = x]
        BY <4>3, <4>4 DEF NotSent
      <4>6. last'.sent = s
        BY <4>2, <4>5
      <4> QED BY <4>5, <4>6
    <3>4. ASSUME NEW o \in Ops, ExecutePrepare(o) PROVE FALSE
      <4>1. PICK id \in Ids, c \in Cells :
              PrepareNotSent(o, id, c) \/ PrepareRefused(o, id) \/ PrepareDone(o, id, c)
        BY <3>4 DEF ExecutePrepare
      <4>2. PICK rep : rep = Report("prepare", "none")
        OBVIOUS
      <4>3. rep = [op |-> NONE, sent |-> "prepare", outcome |-> "none",
                   want |-> NONE, stmt |-> NONE, args |-> NoArgs]
        BY <4>2, Zenon DEF Report, Quiet
      <4>4. ~Reply(o, rep)
        BY <4>3 DEF Reply
      <4>5. ~Incomplete(o)
        BY <1>1, <3>4, CarefulFacts DEF ExecutePrepare
      <4> QED BY <3>3, <4>1, <4>2, <4>4, <4>5 DEF PrepareNotSent, PrepareRefused, PrepareDone
    <3>5. ASSUME NEW o \in Ops, ExecutePrepared(o) PROVE ExecuteMessage(o)
      BY <3>2, <3>3, <3>5 DEF ExecutePrepared, ExecuteUnsupported, ExecuteNothing
    <3> QED BY <1>1, <3>1, <3>2, <3>3, <3>4, <3>5 DEF Next, DropResult, NewOp, DestroyOp, SetDef,
            set_limit, clear_limit, set_offset, clear_offset, LimitCall, CopyOp, add_param,
            NoExecution, ExecuteAgain, ExecuteBlocked, ExecuteDirect
  <2>2. PICK id : id = cell[m_stmt_id[o]]
    OBVIOUS
  <2>3. server[id] = StmtOf(o) /\ Uses[def[o]] \subseteq m_map[o] /\ StmtOf(o) # NONE
    <3>1. Prepared(o) /\ def[o] \in Defs
      BY <1>1, <2>1, CarefulFacts DEF PInv, Right, ExecutePrepared
    <3>2. StmtOf(o) \in Stmts
      BY <1>1, <3>1 DEF StmtOf, Stmts, HasLimit, AllDefs, PInv, OpTypes
    <3> QED BY <2>1, <2>2, <3>1, <3>2, OpAssumption DEF Prepared, ExecutePrepared
  <2>4. /\ last'.stmt = StmtOf(o) /\ last'.want = StmtOf(o)
        /\ last'.args = ArgsSent(o) /\ last'.op = o
    <3>1. PICK rep : rep = [Report("execute", "none") EXCEPT !.op = o, !.want = StmtOf(o),
                              !.stmt = server[id], !.args = ArgsSent(o)]
      OBVIOUS
    <3>2. rep = [op |-> o, sent |-> "execute", outcome |-> "none", want |-> StmtOf(o),
                 stmt |-> server[id], args |-> ArgsSent(o)]
      BY <3>1, Zenon DEF Report, Quiet
    <3>3. Reply(o, rep)
      BY <2>1, <2>2, <2>3, <3>1 DEF ExecuteMessage
    <3> QED BY <2>3, <3>2, <3>3 DEF Reply
  <2>5. BindsRight(StmtOf(o), ArgsSent(o), o)
    <3>1. CASE HasLimit(o) \/ m_map[o] # {}
      BY <2>3, <3>1, Zenon DEF BindsRight, ArgsSent, ArgsOf, StmtOf
    <3>2. CASE ~(HasLimit(o) \/ m_map[o] # {})
      BY <2>3, <3>2, Zenon DEF BindsRight, StmtOf
    <3> QED BY <3>1, <3>2
  <2> QED BY <2>3, <2>4, <2>5
<1>2. PInv /\ [Next]_vars => [IsRight]_vars
  BY <1>1
<1> QED BY <1>2, StaysPrepared, PTL DEF Spec, PreparedRight
=============================================================================
