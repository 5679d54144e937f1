---------------------------- MODULE OpExecution ----------------------------
(***************************************************************************)
(* Executing CRUD operations on one session: Op_base and the templates     *)
(* built on it (common/op_impl.h), the prepared-statement ids kept by      *)
(* Session_impl (common/session.h), the Prepare/Execute messages of the    *)
(* protocol layer (cdk/protocol/mysqlx) and, as the environment, what the  *)
(* server does with them.                                                  *)
(*                                                                         *)
(* An operation object can be built up, copied, executed many times and    *)
(* destroyed.  Its first execution is direct, the second one prepares the  *)
(* statement on the server under an id and executes it, later ones only    *)
(* execute the prepared statement.  Copies share the id.                   *)
(*                                                                         *)
(* execute() and the construction of the result object from it are one     *)
(* action: the application cannot interleave with them, the session being  *)
(* used by one thread.  The session stays open.                            *)
(***************************************************************************)
EXTENDS Naturals, FiniteSets

CONSTANTS
  Ops,         \* operation objects
  Cells,       \* heap cells for the shared statement ids, by address
  Defs,        \* complete definitions of a statement (all but the limit)
  EmptyDef,    \* a modify operation without update specifications
  InvalidDef,  \* a definition with an empty selection criterion
  Names,       \* parameter names, numbers so that they are ordered
  Uses,        \* the parameters a definition refers to
  NONE,
  MaxId,       \* bound on statement ids
  MaxPstmt,    \* initial m_max_pstmt: numeric_limits<size_t>::max()
  Settings     \* the kinds of application and server considered

AllDefs == Defs \cup {EmptyDef, InvalidDef}
Ids == 1..MaxId

(* The statement an operation stands for, as the server would prepare it:  *)
(* the names bound when it is prepared fix the placeholder positions.      *)
Stmts == [def : AllDefs, lim : BOOLEAN, names : SUBSET Names]

ASSUME OpAssumption ==
  /\ IsFiniteSet(Ops) /\ Cells \subseteq Nat
  /\ NONE \notin Cells /\ NONE \notin AllDefs /\ NONE \notin Stmts
  /\ EmptyDef \notin Defs /\ InvalidDef \notin Defs /\ EmptyDef # InvalidDef
  /\ Names \subseteq Nat /\ IsFiniteSet(Names)
  /\ Uses \in [AllDefs -> SUBSET Names]
  /\ MaxId \in Nat /\ MaxPstmt \in Nat
  /\ Settings \subseteq
       [supported : BOOLEAN,  \* the server has prepared statements
        careful : BOOLEAN,    \* the application executes only complete
                              \* definitions and binds only parameters they use
        ops : Nat,            \* how many operations it has at a time
        defs : SUBSET Defs,   \* the definitions and parameters it uses
        names : SUBSET Names,
        calls : SUBSET {"limit", "offset"},  \* the calls it makes
        results : SUBSET {"data", "row_error", "rset_error"}]
                              \* outcomes of reading the rest of a result

VARIABLES
  def,              \* what an operation is defined to do, NONE for no object
  m_has_limit, m_has_offset,
  m_map,            \* names of the bound parameters
  m_prepare_state,
  m_stmt_id,        \* shared pointer to the statement id
  cell,             \* the ids the shared pointers point at
  m_inited, m_reply,
  stmt_ids,         \* Session_impl::m_stmt_id
  m_stmt_id_cleanup, m_max_pstmt,
  ps,               \* what the session knows of prepared-statement support
  m_current_result,
  m_prepare_execute,\* arguments held by the protocol's Execute message
  setting,          \* the application and the server of this behaviour
  server,           \* statements prepared on the server
  unread,           \* a reply was left behind that nobody will read
  last              \* what the last execute() did

opDef == <<def, m_has_limit, m_has_offset, m_map>>
idVars == <<stmt_ids, m_stmt_id_cleanup, m_max_pstmt, ps, cell>>
vars == <<opDef, m_prepare_state, m_stmt_id, m_inited, m_reply, idVars,
          m_current_result, m_prepare_execute, setting, server, unread, last>>

PrepareStates == {"PS_EXECUTE", "PS_PREPARE_EXECUTE", "PS_EXECUTE_PREPARED"}

(* Arguments of an Execute message: whose they are and what they hold.     *)
Args == [owner : Ops \cup {NONE}, lim : BOOLEAN, names : SUBSET Names]
NoArgs == [owner |-> NONE, lim |-> FALSE, names |-> {}]

(* Op_limit::get_limit() # nullptr                                         *)
HasLimit(o) == m_has_limit[o] \/ m_has_offset[o]

StmtOf(o) == [def |-> def[o], lim |-> HasLimit(o), names |-> m_map[o]]
ArgsOf(o) == [owner |-> o, lim |-> HasLimit(o), names |-> m_map[o]]

(* Position of a named argument: two places are taken by the limit, then   *)
(* the arguments come in the order of their names.                         *)
PosOf(n, names, lim) ==
  (IF lim THEN 2 ELSE 0) + Cardinality({k \in names : k < n})

Quiet == [op |-> NONE, sent |-> "none", outcome |-> "none",
          want |-> NONE, stmt |-> NONE, args |-> NoArgs]

Init ==
  /\ def = [o \in Ops |-> NONE]
  /\ m_has_limit = [o \in Ops |-> FALSE]
  /\ m_has_offset = [o \in Ops |-> FALSE]
  /\ m_map = [o \in Ops |-> {}]
  /\ m_prepare_state = [o \in Ops |-> "PS_EXECUTE"]
  /\ m_stmt_id = [o \in Ops |-> NONE]
  /\ cell = [c \in Cells |-> 0]
  /\ m_inited = [o \in Ops |-> FALSE]
  /\ m_reply = [o \in Ops |-> "none"]
  /\ stmt_ids = {} /\ m_stmt_id_cleanup = {} /\ m_max_pstmt = MaxPstmt
  /\ ps = "UNKNOWN" /\ setting \in Settings
  /\ m_current_result = "none"
  /\ m_prepare_execute = NoArgs
  /\ server = [i \in Ids |-> NONE]
  /\ unread = FALSE
  /\ last = Quiet

-----------------------------------------------------------------------------
(* Statement ids.                                                          *)

(* m_stmt_id.use_count() == 1                                              *)
SoleOwner(o) == m_stmt_id[o] # NONE
                /\ \A p \in Ops \ {o} : m_stmt_id[p] # m_stmt_id[o]

FreeCells == {c \in Cells : \A o \in Ops : m_stmt_id[o] # c}

(* release_stmt_id(): the last holder hands the id over for cleanup.       *)
Held(o) == IF SoleOwner(o) THEN {cell[m_stmt_id[o]]} ELSE {}

(* m_stmt_id.reset(): the cell goes with its last owner.                   *)
Freed(o) ==
  [c \in Cells |-> IF SoleOwner(o) /\ c = m_stmt_id[o] THEN 0 ELSE cell[c]]

ReleaseStmtId(o) ==
  /\ stmt_ids' = stmt_ids \ Held(o)
  /\ m_stmt_id_cleanup' = m_stmt_id_cleanup \cup Held(o)
  /\ cell' = Freed(o)
  /\ UNCHANGED <<m_max_pstmt, ps>>

(* Mutant: off by one at the limit.                                        *)
HasRoom_off_by_one == ps # "NO" /\ Cardinality(stmt_ids) <= m_max_pstmt

(* Mutant: known lack of support is not looked at.                         *)
HasRoom_any == Cardinality(stmt_ids) < m_max_pstmt

(* Mutant: the number of ids in use stands for the greatest one.           *)
NextId_count(id) ==
  IF m_stmt_id_cleanup # {}
  THEN id \in m_stmt_id_cleanup /\ \A k \in m_stmt_id_cleanup : id <= k
  ELSE id = Cardinality(stmt_ids) + 1

(* Session_impl::create_stmt_id(): no id when the server has no prepared   *)
(* statements or its limit was reached; else the least released id, or the *)
(* one after the greatest id in use.                                       *)
HasRoom == ps # "NO" /\ Cardinality(stmt_ids) < m_max_pstmt

NextId(id) ==
  \/ /\ m_stmt_id_cleanup # {}
     /\ id \in m_stmt_id_cleanup
     /\ \A k \in m_stmt_id_cleanup : id <= k
  \/ /\ m_stmt_id_cleanup = {} /\ stmt_ids = {}
     /\ id = 1
  \/ /\ m_stmt_id_cleanup = {} /\ stmt_ids # {}
     /\ id - 1 \in stmt_ids
     /\ \A k \in stmt_ids : k < id

(* Op_base::create_stmt_id(): the id and the cell that holds it, the first *)
(* free one as the address is immaterial.  A sole owner keeps its id.      *)
CreateStmtId(o, id, c) ==
  \/ /\ SoleOwner(o)
     /\ c = m_stmt_id[o] /\ id = cell[c]
  \/ /\ ~SoleOwner(o) /\ HasRoom
     /\ NextId(id)
     /\ c \in FreeCells /\ \A k \in FreeCells : c <= k

(* Mutant: the released ids are dropped without telling the server.        *)
Deallocated_none(o, id) == {}

(* clean_up_stmt_id(): taking a released id deallocates the other ones.    *)
Deallocated(o, id) ==
  IF SoleOwner(o) THEN {} ELSE m_stmt_id_cleanup \ {id}

(* Session state and server after the id was created.                      *)
CleanupAfter(o) == IF SoleOwner(o) THEN m_stmt_id_cleanup ELSE {}
PsAfter(o, id) == IF Deallocated(o, id) # {} THEN "YES" ELSE ps
ServerAfter(o, id) ==
  [i \in Ids |-> IF i \in Deallocated(o, id) THEN NONE ELSE server[i]]

-----------------------------------------------------------------------------
(* Building operations.                                                    *)

(* What the application defines its operations to do, and the bound on how *)
(* many of them it has.                                                    *)
Offered == setting.defs
           \cup IF setting.careful THEN {} ELSE {EmptyDef, InvalidDef}
RoomForOp == Cardinality({o \in Ops : def[o] # NONE}) < setting.ops

(* Anything but execute() leaves the following alone.                      *)
NoExecution ==
  /\ last' = Quiet
  /\ UNCHANGED <<m_current_result, m_prepare_execute, setting, server, unread>>

NewOp(o) ==
  /\ def[o] = NONE /\ RoomForOp
  /\ \E d \in Offered : def' = [def EXCEPT ![o] = d]
  /\ NoExecution
  /\ UNCHANGED <<m_has_limit, m_has_offset, m_map, m_prepare_state, m_stmt_id,
                 m_inited, m_reply, idVars>>

(* Op_base(const Op_base&): the definition, the statement id and the       *)
(* prepare state are copied, the execution state is not.                   *)
CopyOp(o, p) ==
  /\ def[o] # NONE /\ def[p] = NONE /\ RoomForOp
  /\ def' = [def EXCEPT ![p] = def[o]]
  /\ m_has_limit' = [m_has_limit EXCEPT ![p] = m_has_limit[o]]
  /\ m_has_offset' = [m_has_offset EXCEPT ![p] = m_has_offset[o]]
  /\ m_map' = [m_map EXCEPT ![p] = m_map[o]]
  /\ m_prepare_state' = [m_prepare_state EXCEPT ![p] = m_prepare_state[o]]
  /\ m_stmt_id' = [m_stmt_id EXCEPT ![p] = m_stmt_id[o]]
  /\ NoExecution
  /\ UNCHANGED <<m_inited, m_reply, idVars>>

(* ~Op_base()                                                              *)
DestroyOp(o) ==
  /\ def[o] # NONE
  /\ def' = [def EXCEPT ![o] = NONE]
  /\ m_has_limit' = [m_has_limit EXCEPT ![o] = FALSE]
  /\ m_has_offset' = [m_has_offset EXCEPT ![o] = FALSE]
  /\ m_map' = [m_map EXCEPT ![o] = {}]
  /\ m_prepare_state' = [m_prepare_state EXCEPT ![o] = "PS_EXECUTE"]
  /\ ReleaseStmtId(o)
  /\ m_stmt_id' = [m_stmt_id EXCEPT ![o] = NONE]
  /\ m_inited' = [m_inited EXCEPT ![o] = FALSE]
  /\ m_reply' = [m_reply EXCEPT ![o] = "none"]
  /\ NoExecution

(* set_where, add_sort, set_having, add_group_by, set_proj, add_operation, *)
(* add_set, set_lock_mode and their clear_ counterparts.                   *)
SetDef(o) ==
  /\ def[o] # NONE
  /\ \E d \in Offered : def' = [def EXCEPT ![o] = d]
  /\ m_prepare_state' = [m_prepare_state EXCEPT ![o] = "PS_EXECUTE"]
  /\ NoExecution
  /\ UNCHANGED <<m_has_limit, m_has_offset, m_map, m_stmt_id, m_inited,
                 m_reply, idVars>>

(* A call that sets or clears the row limit or the offset asks for the     *)
(* statement to be prepared again when it takes away the last one of them  *)
(* or brings the first one.                                                *)
Reprepare(o, again) ==
  m_prepare_state' =
    [m_prepare_state EXCEPT ![o] =
       IF again /\ @ = "PS_EXECUTE_PREPARED" THEN "PS_PREPARE_EXECUTE" ELSE @]

LimitCall(o) ==
  /\ def[o] # NONE
  /\ NoExecution
  /\ UNCHANGED <<def, m_map, m_stmt_id, m_inited, m_reply, idVars>>

set_limit(o) ==
  /\ "limit" \in setting.calls
  /\ LimitCall(o)
  /\ Reprepare(o, ~HasLimit(o))
  /\ m_has_limit' = [m_has_limit EXCEPT ![o] = TRUE]
  /\ UNCHANGED m_has_offset

clear_limit(o) ==
  /\ LimitCall(o)
  /\ Reprepare(o, HasLimit(o) /\ ~m_has_offset[o])
  /\ m_has_limit' = [m_has_limit EXCEPT ![o] = FALSE]
  /\ UNCHANGED m_has_offset

(* Mutant: the test for a row limit is inverted.                           *)
clear_offset_inverted(o) ==
  /\ LimitCall(o)
  /\ Reprepare(o, HasLimit(o) /\ m_has_limit[o])
  /\ m_has_offset' = [m_has_offset EXCEPT ![o] = FALSE]
  /\ UNCHANGED m_has_limit

set_offset(o) ==
  /\ "offset" \in setting.calls
  /\ LimitCall(o)
  /\ Reprepare(o, ~HasLimit(o))
  /\ m_has_offset' = [m_has_offset EXCEPT ![o] = TRUE]
  /\ UNCHANGED m_has_limit

clear_offset(o) ==
  /\ LimitCall(o)
  /\ Reprepare(o, HasLimit(o) /\ ~m_has_limit[o])
  /\ m_has_offset' = [m_has_offset EXCEPT ![o] = FALSE]
  /\ UNCHANGED m_has_limit

(* Op_bind::add_param()                                                    *)
add_param(o, n) ==
  /\ def[o] # NONE
  /\ n \in setting.names
  /\ setting.careful => n \in Uses[def[o]]
  /\ m_map' = [m_map EXCEPT ![o] = @ \cup {n}]
  /\ NoExecution
  /\ UNCHANGED <<def, m_has_limit, m_has_offset, m_prepare_state, m_stmt_id,
                 m_inited, m_reply, idVars>>

(* The application reads its current result to the end or destroys it.     *)
DropResult ==
  /\ m_current_result # "none"
  /\ m_current_result' = "none"
  /\ last' = Quiet
  /\ UNCHANGED <<opDef, m_prepare_state, m_stmt_id, m_inited, m_reply, idVars,
                 m_prepare_execute, setting, server, unread>>

-----------------------------------------------------------------------------
(* Executing operations.                                                   *)

(* Session_impl::prepare_for_cmd() reads the current result into memory.   *)
(* An error in it surfaces there; one that ends the rows also ends the     *)
(* result, one in place of a further result set leaves it registered.      *)
Throws(r) == r \in {"row_error", "rset_error"}
Stored(r) == IF r = "rset_error" THEN r ELSE "none"

Ready(o) ==
  /\ def[o] # NONE /\ ~m_inited[o]
  /\ ~Throws(m_current_result)
  /\ setting.careful => Uses[def[o]] \subseteq m_map[o]
  /\ ~unread

(* Mutant: the operation keeps the reply it handed over.                   *)
Returns_kept(o, r) ==
  /\ m_inited' = [m_inited EXCEPT ![o] = FALSE]
  /\ m_reply' = [m_reply EXCEPT ![o] = r]
  /\ m_current_result' = r

(* execute() returns and a result object takes the reply: get_reply() and  *)
(* Session_impl::register_result().                                        *)
Returns(o, r) ==
  /\ m_inited' = [m_inited EXCEPT ![o] = FALSE]
  /\ m_reply' = [m_reply EXCEPT ![o] = "none"]
  /\ m_current_result' = r

(* execute() throws after prepare_for_cmd().                               *)
Fails(o, reply) ==
  /\ m_inited' = [m_inited EXCEPT ![o] = TRUE]
  /\ m_reply' = [m_reply EXCEPT ![o] = reply]
  /\ m_current_result' = "none"

Report(sent, outcome) == [Quiet EXCEPT !.sent = sent, !.outcome = outcome]

(* The server runs a statement and the reply arrives.                      *)
Reply(o, rep) ==
  \/ /\ \E r \in setting.results : Returns(o, r)
     /\ last' = [rep EXCEPT !.outcome = "ok"]
  \/ /\ Fails(o, "server_error")
     /\ last' = [rep EXCEPT !.outcome = "throw"]

(* do_send_command() of an operation that cannot be sent.  Without update  *)
(* specifications there is no command and no reply; an empty criterion     *)
(* throws before the reply object exists; an unbound parameter throws when *)
(* the message is built and leaves a reply object in the ERROR state with  *)
(* no diagnostics.                                                         *)
Incomplete(o) ==
  def[o] \in {EmptyDef, InvalidDef} \/ ~(Uses[def[o]] \subseteq m_map[o])

NotSent(o, rep) ==
  \/ /\ def[o] = EmptyDef
     /\ Returns(o, "null")
     /\ last' = [rep EXCEPT !.sent = "nothing", !.outcome = "ok"]
  \/ /\ def[o] = InvalidDef
     /\ Fails(o, "none")
     /\ last' = [rep EXCEPT !.sent = "none", !.outcome = "throw"]
  \/ /\ def[o] \in Defs
     /\ Fails(o, "broken")
     /\ last' = [rep EXCEPT !.sent = "none", !.outcome = "throw"]

(* Sending without an id.  The message builder clears the shared Execute   *)
(* message, which holds args, even though it is not used.                  *)
SendDirect(o, args) ==
  LET rep == Report("direct", "none") IN
  /\ m_prepare_execute' = IF def[o] \in Defs THEN NoArgs ELSE args
  /\ unread' = unread
  /\ IF Incomplete(o) THEN NotSent(o, rep) ELSE Reply(o, rep)

(* execute() of an operation whose previous execute() threw: init() does   *)
(* nothing, and there is no reply to wait for, or one that is completed.   *)
ExecuteAgain(o) ==
  /\ def[o] # NONE /\ m_inited[o] /\ ~unread
  /\ \/ /\ m_reply[o] = "none"
        /\ Returns(o, "null")
        /\ last' = Report("none", "ok")
     \/ /\ m_reply[o] = "broken"
        /\ Returns(o, "data")
        /\ last' = Report("none", "ok")
     \/ /\ m_reply[o] = "server_error"
        /\ last' = Report("none", "throw")
        /\ UNCHANGED <<m_inited, m_reply, m_current_result>>
  /\ UNCHANGED <<opDef, m_prepare_state, m_stmt_id, idVars, m_prepare_execute,
                 setting, server, unread>>

(* execute() while the current result holds an error.                      *)
ExecuteBlocked(o) ==
  /\ def[o] # NONE /\ ~m_inited[o] /\ ~unread
  /\ Throws(m_current_result)
  /\ m_current_result' = Stored(m_current_result)
  /\ m_inited' = [m_inited EXCEPT ![o] = TRUE]
  /\ last' = Report("none", "throw")
  /\ UNCHANGED <<opDef, m_prepare_state, m_stmt_id, m_reply, idVars,
                 m_prepare_execute, setting, server, unread>>

(* use_prepared_statement() decides on direct execution: for the first     *)
(* time, or because no id can be had.                                      *)
ExecuteDirect(o) ==
  /\ Ready(o)
  /\ \/ /\ m_prepare_state[o] = "PS_EXECUTE"
        /\ ReleaseStmtId(o)
        /\ m_prepare_state' = [m_prepare_state EXCEPT ![o] = "PS_PREPARE_EXECUTE"]
     \/ /\ m_prepare_state[o] = "PS_PREPARE_EXECUTE"
        /\ ~SoleOwner(o) /\ ~HasRoom
        /\ m_prepare_state' = [m_prepare_state EXCEPT ![o] = "PS_EXECUTE_PREPARED"]
        /\ UNCHANGED idVars
     \/ /\ m_prepare_state[o] = "PS_EXECUTE_PREPARED"
        /\ m_stmt_id[o] = NONE
        /\ UNCHANGED <<m_prepare_state, idVars>>
  /\ m_stmt_id' = [m_stmt_id EXCEPT ![o] = NONE]
  /\ SendDirect(o, m_prepare_execute)
  /\ UNCHANGED <<opDef, setting, server>>

(* The id was created but the prepare + execute pipeline is not sent.  If  *)
(* support for prepared statements is not known yet, the message opening   *)
(* the expectation block is already out when the builder throws.           *)
PrepareNotSent(o, id, c) ==
  /\ Incomplete(o)
  /\ NotSent(o, Report("none", "none"))
  /\ stmt_ids' = stmt_ids \cup {id}
  /\ m_stmt_id_cleanup' = CleanupAfter(o)
  /\ ps' = PsAfter(o, id)
  /\ m_stmt_id' = [m_stmt_id EXCEPT ![o] = c]
  /\ cell' = [cell EXCEPT ![c] = id]
  /\ m_prepare_state' = [m_prepare_state EXCEPT ![o] = "PS_EXECUTE_PREPARED"]
  /\ server' = ServerAfter(o, id)
  /\ m_prepare_execute' = IF def[o] \in Defs THEN ArgsOf(o)
                          ELSE m_prepare_execute
  /\ unread' = (def[o] \in Defs /\ ps' = "UNKNOWN")
  /\ UNCHANGED m_max_pstmt

(* The server refuses to prepare: reset_state() gives the id up through    *)
(* error_stmt_id() and the operation is executed directly at once.         *)
PrepareRefused(o, id) ==
  /\ ~Incomplete(o)
  /\ stmt_ids' = (stmt_ids \cup {id}) \ {id}
  /\ m_stmt_id_cleanup' = CleanupAfter(o)
  /\ m_max_pstmt' = Cardinality(stmt_ids')
  /\ cell' = Freed(o)
  /\ m_stmt_id' = [m_stmt_id EXCEPT ![o] = NONE]
  /\ m_prepare_state' = [m_prepare_state EXCEPT ![o] = "PS_PREPARE_EXECUTE"]
  /\ ps' = IF setting.supported \/ PsAfter(o, id) = "YES" THEN "YES" ELSE "NO"
  /\ server' = [ServerAfter(o, id) EXCEPT ![id] = NONE]
  /\ SendDirect(o, ArgsOf(o))

PrepareDone(o, id, c) ==
  /\ ~Incomplete(o)
  /\ setting.supported
  /\ stmt_ids' = stmt_ids \cup {id}
  /\ m_stmt_id_cleanup' = CleanupAfter(o)
  /\ ps' = "YES"
  /\ m_stmt_id' = [m_stmt_id EXCEPT ![o] = c]
  /\ cell' = [cell EXCEPT ![c] = id]
  /\ m_prepare_state' = [m_prepare_state EXCEPT ![o] = "PS_EXECUTE_PREPARED"]
  /\ server' = [ServerAfter(o, id) EXCEPT ![id] = StmtOf(o)]
  /\ m_prepare_execute' = ArgsOf(o)
  /\ Reply(o, Report("prepare", "none"))
  /\ UNCHANGED <<m_max_pstmt, unread>>

ExecutePrepare(o) ==
  /\ Ready(o)
  /\ m_prepare_state[o] = "PS_PREPARE_EXECUTE"
  /\ \E id \in Ids, c \in Cells :
       /\ CreateStmtId(o, id, c)
       /\ \/ PrepareNotSent(o, id, c)
          \/ PrepareRefused(o, id)
          \/ PrepareDone(o, id, c)
  /\ UNCHANGED <<opDef, setting>>

(* Session::prepared_execute().  The Execute message is filled only if     *)
(* there is something to put in; it keeps its old arguments otherwise.     *)
ArgsSent(o) ==
  IF HasLimit(o) \/ m_map[o] # {} THEN ArgsOf(o) ELSE m_prepare_execute

(* Without support known to be missing, an expectation block is put around *)
(* the message while nothing is known.                                     *)
ExecuteMessage(o) ==
  LET id == cell[m_stmt_id[o]]
      rep == [Report("execute", "none") EXCEPT !.op = o, !.want = StmtOf(o),
                !.stmt = server[id], !.args = ArgsSent(o)]
  IN
  /\ ps = "YES" \/ (ps = "UNKNOWN" /\ setting.supported)
  /\ ps' = "YES"
  /\ m_prepare_execute' = ArgsSent(o)
  /\ IF server[id] # NONE THEN Reply(o, rep)
     ELSE /\ Fails(o, "server_error")
          /\ last' = [rep EXCEPT !.outcome = "throw"]
  /\ UNCHANGED <<m_prepare_state, m_stmt_id, cell, stmt_ids, m_max_pstmt, unread>>

(* The expectation fails: reset_state() and direct execution.              *)
ExecuteUnsupported(o) ==
  /\ ps = "UNKNOWN" /\ ~setting.supported
  /\ ps' = "NO"
  /\ stmt_ids' = stmt_ids \ Held(o)
  /\ m_max_pstmt' = IF SoleOwner(o) THEN Cardinality(stmt_ids')
                    ELSE m_max_pstmt
  /\ cell' = Freed(o)
  /\ m_stmt_id' = [m_stmt_id EXCEPT ![o] = NONE]
  /\ m_prepare_state' = [m_prepare_state EXCEPT ![o] = "PS_PREPARE_EXECUTE"]
  /\ SendDirect(o, ArgsSent(o))

(* With support known to be missing the statement object counts as         *)
(* completed from the start: nothing is sent and no error is reported.     *)
ExecuteNothing(o) ==
  /\ ps = "NO"
  /\ Returns(o, "data")
  /\ last' = Report("none", "ok")
  /\ UNCHANGED <<ps, m_prepare_execute, m_prepare_state, m_stmt_id, cell,
                 stmt_ids, m_max_pstmt, unread>>

ExecutePrepared(o) ==
  /\ Ready(o)
  /\ m_prepare_state[o] = "PS_EXECUTE_PREPARED"
  /\ m_stmt_id[o] # NONE
  /\ ExecuteMessage(o) \/ ExecuteUnsupported(o) \/ ExecuteNothing(o)
  /\ UNCHANGED <<opDef, m_stmt_id_cleanup, setting, server>>

Next ==
  \/ DropResult
  \/ \E o \in Ops :
       \/ NewOp(o) \/ DestroyOp(o) \/ SetDef(o)
       \/ set_limit(o) \/ clear_limit(o) \/ set_offset(o) \/ clear_offset(o)
       \/ ExecuteAgain(o) \/ ExecuteBlocked(o)
       \/ ExecuteDirect(o) \/ ExecutePrepare(o) \/ ExecutePrepared(o)
  \/ \E o, p \in Ops : CopyOp(o, p)
  \/ \E o \in Ops, n \in Names : add_param(o, n)

Spec == Init /\ [][Next]_vars

-----------------------------------------------------------------------------
(* Properties.                                                             *)

(* The variables have the values that the members of Op_base, Op_limit,    *)
(* Op_bind and Session_impl can have between two calls; in particular no   *)
(* operation keeps a reply that it has handed over to a result object.     *)
TypeOK ==
  /\ def \in [Ops -> AllDefs \cup {NONE}]
  /\ m_has_limit \in [Ops -> BOOLEAN] /\ m_has_offset \in [Ops -> BOOLEAN]
  /\ m_map \in [Ops -> SUBSET Names]
  /\ m_prepare_state \in [Ops -> PrepareStates]
  /\ m_stmt_id \in [Ops -> Cells \cup {NONE}]
  /\ cell \in [Cells -> Ids \cup {0}]
  /\ m_inited \in [Ops -> BOOLEAN]
  /\ m_reply \in [Ops -> {"none", "broken", "server_error"}]
  /\ stmt_ids \subseteq Ids /\ m_stmt_id_cleanup \subseteq Ids
  /\ m_max_pstmt \in Nat
  /\ ps \in {"UNKNOWN", "YES", "NO"}
  /\ m_current_result \in {"none", "null", "data", "row_error", "rset_error"}
  /\ m_prepare_execute \in Args
  /\ server \in [Ids -> Stmts \cup {NONE}]
  /\ setting \in Settings /\ unread \in BOOLEAN

(* The session's ids in use are exactly the ids operations hold.  Two      *)
(* operations hold the same id only by sharing the pointer to it, that is, *)
(* as copies of each other: create_stmt_id() never hands out an id that is *)
(* in use, and the last holder always gives its id back.                   *)
IdsAccounted ==
  /\ stmt_ids = {cell[m_stmt_id[o]] : o \in {p \in Ops : m_stmt_id[p] # NONE}}
  /\ \A o, p \in Ops :
       /\ m_stmt_id[o] # NONE /\ m_stmt_id[p] # NONE
       /\ cell[m_stmt_id[o]] = cell[m_stmt_id[p]]
       => m_stmt_id[o] = m_stmt_id[p]
  /\ stmt_ids \cap m_stmt_id_cleanup = {}

(* Every statement that exists on the server is known to the session: its  *)
(* id is in use or waits for cleanup, so that clean_up_stmt_id() gets to   *)
(* it.  No sequence of failed prepares, copies and deletions leaks one.    *)
NoServerLeak ==
  \A i \in Ids : server[i] # NONE => i \in stmt_ids \cup m_stmt_id_cleanup

(* No more ids are in use than the limit the session learned from failed   *)
(* prepares (m_max_pstmt), however copies, re-prepares and deletions       *)
(* interleave with the failures.                                           *)
CapRespected == Cardinality(stmt_ids) <= m_max_pstmt

(* Once the session found out that the server has no prepared statements,  *)
(* it never changes its mind and hands out no further id: operations that  *)
(* still hold one can only give it back.                                   *)
UnsupportedIsFinal ==
  [][ps = "NO" => ps' = "NO" /\ stmt_ids' \subseteq stmt_ids]_vars

(* Each placeholder of a prepared statement gets the value that the        *)
(* executing operation bound to its name.                                  *)
BindsRight(stmt, args, o) ==
  /\ stmt.lim \/ Uses[stmt.def] # {} => args.owner = o
  /\ stmt.lim => args.lim
  /\ \A n \in Uses[stmt.def] :
       /\ n \in args.names
       /\ PosOf(n, args.names, args.lim) = PosOf(n, stmt.names, stmt.lim)

(* What an Execute message makes the server run is what the operation is   *)
(* defined to do at that time: the statement exists, it is the one the     *)
(* operation stands for, and each placeholder gets the value bound to its  *)
(* name by this operation, whatever other operations and copies of it did, *)
(* for applications that bind all parameters of a complete definition      *)
(* before they execute it.                                                 *)
PreparedRight ==
  [][setting.careful /\ last'.sent = "execute" =>
       /\ last'.stmt # NONE
       /\ last'.stmt.def = last'.want.def /\ last'.stmt.lim = last'.want.lim
       /\ BindsRight(last'.stmt, last'.args, last'.op)]_vars

(* Each value reaches the placeholder with its name.                       *)
PlaceholdersRight ==
  last.sent = "execute" /\ last.stmt # NONE =>
    BindsRight(last.stmt, last.args, last.op)

(* execute() that returns has sent the operation to the server, unless     *)
(* there is nothing to do.                                                 *)
ExecuteSends == last.outcome = "ok" => last.sent # "none"
=============================================================================
