---------------------------- MODULE StmtPipeline ----------------------------
(***************************************************************************)
(* One statement on its way through the CDK: Stmt_op and Query_stmt, the   *)
(* expectation block that Expectation<> puts around it and the prepare     *)
(* step that Prepared<> puts in front of it (cdk/mysqlx/stmt.h,            *)
(* cdk/mysqlx/result.cc), the receive operations of the protocol layer     *)
(* (cdk/protocol/mysqlx) and a server that answers each message in turn.   *)
(*                                                                         *)
(* The three layers share one stream of replies.  Which layer reads the    *)
(* next reply depends on the state of all of them and, with a transport    *)
(* whose read operations return before the data is there, on timing.       *)
(*                                                                         *)
(* An action is one call of do_cont() or, inside a call, the part up to    *)
(* the next exchange with the stream.                                      *)
(***************************************************************************)
EXTENDS Naturals, Sequences

CONSTANTS
  Kinds,    \* statements to look at: "direct" (plain statement), "guarded"
            \* (in an expectation block), "prepare" (prepare and execute),
            \* "execute" (execute a prepared statement)
  Fields,   \* what the session may know of the server feature beforehand
  Replies,  \* replies to a statement, without errors (bound)
  Blocking  \* transports to look at: TRUE for one where a read operation that
            \* is continued waits for data (TLS), FALSE for one where it
            \* returns if none is there (plain sockets)

ASSUME PipelineAssumption ==
  /\ Kinds \subseteq {"direct", "guarded", "prepare", "execute"}
  /\ Fields \subseteq {"UNKNOWN", "YES", "NO"}
  /\ \A r \in Replies : r \in Seq({"mdata", "row", "done", "more", "execute_ok"})
  /\ Blocking \subseteq BOOLEAN

VARIABLES
  kind,                  \* the statement
  supported, blocking,   \* whether the server knows the feature; the transport
  field,                 \* has_protocol_field()
  m_exp_state, m_exp_op, \* Expectation: state, pending receive operation
  in_call,               \* inside Expectation::do_cont(), past the sending
  m_expectation_error,
  m_stmt_id,             \* Prepared: m_stmt_id # 0
  m_prepare_error,
  m_state, m_discard,    \* Stmt_op
  m_result_state,        \* Rcv_result
  m_ccount,              \* Rcv_result: m_ccount > 0
  entries,               \* diagnostics, in the order they were added
  thrown,                \* the protocol layer threw an exception
  reqs,                  \* messages the server has not answered yet
  failed,                \* server: the expectation block, the prepare failed
  wire,                  \* replies on their way to the client
  seen                   \* which layer read which reply

expVars == <<field, m_exp_state, m_exp_op, in_call, m_expectation_error>>
prepVars == <<m_stmt_id, m_prepare_error>>
rcvVars == <<m_result_state, m_ccount>>
stmtVars == <<m_state, m_discard, rcvVars>>
peer == <<supported, blocking>>
server == <<kind, peer, reqs, failed>>
input == <<wire, seen>>
client == <<expVars, prepVars, stmtVars, entries, thrown, seen>>
vars == <<server, wire, client>>

ExpState(k, f) ==
  IF k = "direct" THEN "FORWARD"      \* constructor argument cond
  ELSE CASE f = "YES" -> "FORWARD" [] f = "NO" -> "ERROR" [] OTHER -> "SND_EXPECTATION"

Init ==
  /\ kind \in Kinds /\ supported \in BOOLEAN /\ blocking \in Blocking
  /\ field \in Fields
  /\ (field = "YES" => supported) /\ (field = "NO" => ~supported)
  /\ m_exp_state = ExpState(kind, field)
  /\ m_exp_op = "none" /\ in_call = FALSE /\ m_expectation_error = FALSE
  /\ m_stmt_id = (kind \in {"prepare", "execute"})
  /\ m_prepare_error = FALSE
  /\ m_state = "SEND" /\ m_discard = FALSE
  /\ m_result_state = "DONE" /\ m_ccount = FALSE
  /\ entries = <<>> /\ thrown = FALSE
  /\ reqs = <<>> /\ failed = {} /\ wire = <<>>
  /\ seen = <<>>

-----------------------------------------------------------------------------
(* The server.                                                             *)

Msg(to, type) == [to |-> to, type |-> type]

(* A statement may fail at any place of its reply.                         *)
StmtReplies ==
  Replies \cup UNION {{SubSeq(r, 1, n) \o <<"error">> : n \in 0..Len(r) - 1} : r \in Replies}

IsError(type) == type \in {"error", "unknown_field"}

Answer(req) ==
  CASE req = "expect_open" -> IF supported THEN {<<"ok">>} ELSE {<<"unknown_field">>}
    [] req = "prepare" -> IF failed # {} THEN {<<"error">>} ELSE {<<"ok">>, <<"error">>}
    [] req = "stmt" -> IF failed # {} THEN {<<"error">>} ELSE StmtReplies
    [] req = "expect_close" -> IF "expect_open" \in failed THEN {<<"ok">>, <<"error">>}
                               ELSE {<<"ok">>}

(* The server answers the next message; a failed one fails all that depend *)
(* on it: the rest of the block, the execution of what was not prepared.   *)
Serve ==
  /\ reqs # <<>>
  /\ \E answer \in Answer(Head(reqs)) :
       /\ wire' = wire \o [i \in 1..Len(answer) |-> Msg(Head(reqs), answer[i])]
       /\ failed' = IF IsError(answer[Len(answer)])
                    THEN failed \cup {Head(reqs)} ELSE failed
  /\ reqs' = Tail(reqs)
  /\ UNCHANGED <<kind, peer, client>>

-----------------------------------------------------------------------------
(* Completion.                                                             *)

(* Stmt_op::is_done(), Stmt_op::is_completed()                             *)
BaseDone == m_state \in {"DONE", "ERROR"}
BaseCompleted == BaseDone \/ (m_state \in {"ROWS", "NEXT"} /\ ~m_discard)

(* Mutant: RCV_CLOSE is not taken into account.                            *)
Completed_close ==
  \/ m_exp_state = "ERROR"
  \/ BaseCompleted /\ ~(m_exp_state = "RCV_BASE" /\ BaseDone)

(* Expectation::is_completed()                                             *)
Completed ==
  \/ m_exp_state = "ERROR"
  \/ /\ BaseCompleted
     /\ m_exp_state # "RCV_CLOSE"
     /\ ~(m_exp_state = "RCV_BASE" /\ BaseDone)

(* Expectation::stmt_sent()                                                *)
stmt_sent ==
  IF m_exp_state = "FORWARD" THEN m_state # "SEND"
  ELSE m_exp_state \in {"RCV_EXPECTATION", "RCV_BASE", "RCV_CLOSE", "ERROR"}

(* Prepared::do_cont() takes over when the prepare reply is due.           *)
PrepareDue == ~in_call /\ m_stmt_id /\ stmt_sent

Running == ~Completed /\ ~thrown

-----------------------------------------------------------------------------
(* Sending.  A message is written in one go.                               *)

Send(msgs) ==
  /\ reqs' = reqs \o msgs
  /\ UNCHANGED <<kind, peer, failed, input, entries, thrown, m_prepare_error,
                 field, m_exp_op, m_expectation_error, m_discard, rcvVars>>

(* Mutant: m_stmt_id is kept.                                              *)
SendStmt_keep ==
  /\ Send(IF kind = "prepare" THEN <<"prepare", "stmt">> ELSE <<"stmt">>)
  /\ m_state' = "MDATA"
  /\ UNCHANGED m_stmt_id

(* The statement is sent by its send_cmd(); the one of Prepared, which     *)
(* executes a prepared statement, resets m_stmt_id.                        *)
SendStmt ==
  /\ Send(IF kind = "prepare" THEN <<"prepare", "stmt">> ELSE <<"stmt">>)
  /\ m_stmt_id' = (kind = "prepare")
  /\ m_state' = "MDATA"

SndExpectation ==
  /\ Running /\ m_exp_state = "SND_EXPECTATION"
  /\ Send(<<"expect_open">>)
  /\ m_exp_state' = "SND_BASE" /\ in_call' = TRUE
  /\ UNCHANGED <<m_stmt_id, m_state>>

SndBase ==
  /\ Running /\ m_exp_state = "SND_BASE"
  /\ SendStmt
  /\ m_exp_state' = "SND_CLOSE"
  /\ UNCHANGED in_call

SndClose ==
  /\ Running /\ m_exp_state = "SND_CLOSE"
  /\ Send(<<"expect_close">>)
  /\ m_exp_state' = "RCV_EXPECTATION"
  /\ UNCHANGED <<in_call, m_stmt_id, m_state>>

(* FORWARD: the statement without an expectation block.                    *)
SndForward ==
  /\ Running /\ m_exp_state = "FORWARD" /\ m_state = "SEND"
  /\ SendStmt
  /\ UNCHANGED <<m_exp_state, in_call>>

-----------------------------------------------------------------------------
(* Receiving.  A layer reads the first reply on the wire.                  *)

Read(layer) ==
  /\ wire' = Tail(wire)
  /\ seen' = Append(seen, [to |-> Head(wire).to, by |-> layer])

(* Prepared::add_diagnostics(): after a failed prepare other errors are    *)
(* ignored.                                                                *)
AddError(err) == entries' = IF m_prepare_error THEN entries ELSE Append(entries, err)

(* Rcv_reply takes Ok and Error, anything else is unexpected.              *)
Unexpected(type) == type # "ok" /\ ~IsError(type)

(* Mutant: the missing feature is only remembered.                         *)
ExpectReply_silent(type) ==
  /\ field' = IF type = "unknown_field" THEN "NO"
              ELSE IF type = "ok" /\ m_exp_state = "RCV_EXPECTATION" THEN "YES" ELSE field
  /\ m_expectation_error' = (m_expectation_error \/ type = "unknown_field")
  /\ UNCHANGED entries

(* Mutant: any Ok confirms the feature.                                    *)
ExpectReply_any_ok(type) ==
  IF type = "unknown_field" /\ ~m_expectation_error
  THEN /\ field' = "NO"
       /\ m_expectation_error' = TRUE
       /\ entries' = Append(entries, "expectation")
  ELSE /\ field' = IF type = "ok" THEN "YES" ELSE field
       /\ UNCHANGED <<m_expectation_error, entries>>

(* Expectation::ok() and Expectation::error() in RCV_EXPECTATION and       *)
(* RCV_CLOSE.  The missing feature is reported once, past the filter of    *)
(* Prepared; other errors are left to the statement itself.                *)
ExpectReply(type) ==
  IF type = "unknown_field" /\ ~m_expectation_error
  THEN /\ field' = "NO"
       /\ m_expectation_error' = TRUE
       /\ entries' = Append(entries, "expectation")
  ELSE /\ field' = IF type = "ok" /\ m_exp_state = "RCV_EXPECTATION"
                   THEN "YES" ELSE field
       /\ UNCHANGED <<m_expectation_error, entries>>

AfterReply == IF m_exp_state = "RCV_EXPECTATION" THEN "RCV_BASE" ELSE "FORWARD"

(* Expectation::do_cont() in RCV_EXPECTATION and RCV_CLOSE: the receive    *)
(* operation is started or continued.                                      *)
Receiving == Running /\ m_exp_state \in {"RCV_EXPECTATION", "RCV_CLOSE"} /\ ~PrepareDue

ReadExpectation ==
  /\ Receiving /\ m_exp_op # "done"
  /\ wire # <<>>
  /\ Read(IF m_exp_state = "RCV_CLOSE" THEN "expect_close" ELSE "expect_open")
  /\ thrown' = Unexpected(Head(wire).type)
  /\ ExpectReply(Head(wire).type)
  /\ m_exp_op' = "none" /\ in_call' = FALSE
  /\ m_exp_state' = AfterReply
  /\ UNCHANGED <<server, prepVars, stmtVars>>

(* The reply is not there yet and the operation returns without it.        *)
NotArrived ==
  /\ Receiving /\ m_exp_op = "none"
  /\ ~blocking /\ wire = <<>>
  /\ m_exp_op' = "pending" /\ in_call' = FALSE
  /\ UNCHANGED <<server, input, field, m_exp_state, m_expectation_error, prepVars,
                 stmtVars, entries, thrown>>

(* Someone else brought the receive operation to its end.                  *)
ReceivedByOther ==
  /\ Receiving /\ m_exp_op = "done"
  /\ m_exp_op' = "none"
  /\ m_exp_state' = AfterReply
  /\ UNCHANGED <<server, input, field, in_call, m_expectation_error, prepVars,
                 stmtVars, entries, thrown>>

(* Prepared::do_cont(): rcv_Reply().wait().  A receive operation that is   *)
(* still pending is resumed, not replaced (rcv_start).                     *)
ReadPrepare ==
  /\ Running /\ PrepareDue
  /\ wire # <<>>
  /\ Read("prepare")
  /\ thrown' = Unexpected(Head(wire).type)
  /\ m_prepare_error' = IsError(Head(wire).type)
  /\ entries' = IF IsError(Head(wire).type) THEN Append(entries, "prepare") ELSE entries
  /\ m_stmt_id' = FALSE
  /\ m_exp_op' = IF m_exp_op = "pending" THEN "done" ELSE m_exp_op
  /\ UNCHANGED <<server, field, m_exp_state, in_call, m_expectation_error, stmtVars>>

-----------------------------------------------------------------------------
(* Rcv_result, the receive operation for the reply to a statement.         *)

NextMsg(msg, state, completed) == [msg |-> msg, state |-> state, completed |-> completed]

(* Rcv_result_base::do_next_msg(): is the message expected, does it belong *)
(* to this stage or (STOP) to the next one, what is the next state, is the *)
(* stage completed.                                                        *)
do_next_msg(state, type, cols) ==
  CASE IsError(type) -> NextMsg("EXPECTED", "DONE", TRUE)
    [] state = "START" /\ type = "ok" -> NextMsg("EXPECTED", "DONE", TRUE)
    [] state \in {"START", "MDATA"} /\ type = "mdata" -> NextMsg("EXPECTED", "MDATA", FALSE)
    [] state = "MDATA" /\ cols /\ type \in {"row", "done", "more"} -> NextMsg("STOP", "ROWS", TRUE)
    [] state \in {"START", "MDATA"} /\ ~cols /\ type = "done" -> NextMsg("EXPECTED", "CLOSE", TRUE)
    [] state \in {"START", "MDATA"} /\ ~cols /\ type = "more" -> NextMsg("EXPECTED", "MDATA", TRUE)
    [] state \in {"START", "MDATA"} /\ ~cols /\ type = "execute_ok" -> NextMsg("STOP", "CLOSE", TRUE)
    [] state = "ROWS" /\ type = "row" -> NextMsg("EXPECTED", "ROWS", FALSE)
    [] state = "ROWS" /\ type = "done" -> NextMsg("EXPECTED", "CLOSE", TRUE)
    [] state = "ROWS" /\ type = "more" -> NextMsg("EXPECTED", "MDATA", TRUE)
    [] state = "CLOSE" /\ type = "execute_ok" -> NextMsg("EXPECTED", "DONE", TRUE)
    [] OTHER -> NextMsg("UNEXPECTED", state, TRUE)

(* rcv_start(): a receive operation that is done is replaced.              *)
ResultState == IF m_result_state = "DONE" THEN "START" ELSE m_result_state

(* Rcv_result_base::resume(): the stage must be the one that is next.      *)
CanResume ==
  CASE m_state = "MDATA" -> ResultState \in {"START", "MDATA"}
    [] m_state \in {"ROWS", "DISCARD"} -> ResultState = "ROWS"
    [] m_state = "FINISH" -> ResultState = "CLOSE"

(* Mutant: the state after the last row is the one of Rcv_result.          *)
StateAfter_next(type, next, cols) ==
  CASE IsError(type) -> "ERROR"
    [] ~next.completed -> m_state
    [] m_state = "MDATA" /\ cols -> IF m_discard THEN "DISCARD" ELSE "ROWS"
    [] m_state = "MDATA" /\ ~cols -> "FINISH"
    [] OTHER -> next.state

(* Mutant: rows are expected also without columns.                         *)
StateAfter_rows(type, next, cols) ==
  CASE IsError(type) -> "ERROR"
    [] ~next.completed -> m_state
    [] m_state = "MDATA" -> IF m_discard THEN "DISCARD" ELSE "ROWS"
    [] type = "more" -> IF m_discard THEN "MDATA" ELSE "NEXT"
    [] type = "done" -> "FINISH"
    [] OTHER -> "DONE"

(* Stmt_op::do_cont(), ok(), execute_ok(), done(), error(): the state      *)
(* after a message.  The DONE that ok() sets is replaced by FINISH when    *)
(* meta-data is being read.                                                *)
StateAfter(type, next, cols) ==
  CASE IsError(type) -> "ERROR"
    [] ~next.completed -> m_state
    [] m_state = "MDATA" /\ cols -> IF m_discard THEN "DISCARD" ELSE "ROWS"
    [] m_state = "MDATA" /\ ~cols -> "FINISH"
    [] type = "more" -> IF m_discard THEN "MDATA" ELSE "NEXT"
    [] type = "done" -> "FINISH"
    [] OTHER -> "DONE"

ReadReply ==
  /\ wire # <<>>
  /\ LET type == Head(wire).type
         next == do_next_msg(ResultState, type, m_ccount)
         cols == m_ccount \/ type = "mdata"
     IN /\ IF next.msg = "EXPECTED" THEN Read("stmt") ELSE UNCHANGED input
        /\ thrown' = (next.msg = "UNEXPECTED")
        /\ m_state' = IF thrown' THEN "ERROR" ELSE StateAfter(type, next, cols)
        /\ m_result_state' = next.state
        /\ m_ccount' = (cols /\ ~next.completed)
        /\ IF IsError(type) THEN AddError("server") ELSE UNCHANGED entries
  /\ UNCHANGED <<server, expVars, prepVars, m_discard>>

BadResume ==
  /\ thrown' = TRUE /\ m_state' = "ERROR"
  /\ UNCHANGED <<server, input, expVars, prepVars, m_discard, rcvVars, entries>>

ReadStage == IF CanResume THEN ReadReply ELSE BadResume

(* Expectation::do_cont() in RCV_BASE and FORWARD leaves the floor to      *)
(* Stmt_op::do_cont() until that has completed.                            *)
BaseTurn == Running /\ m_exp_state \in {"RCV_BASE", "FORWARD"} /\ ~PrepareDue

ReadBase ==
  /\ BaseTurn /\ m_state \in {"MDATA", "DISCARD", "FINISH"}
  /\ ReadStage

(* Mutant: the operation is continued without moving on.                   *)
DiscardNext_stays == BaseTurn /\ m_state = "NEXT" /\ UNCHANGED vars

(* In discard mode the next result set is read, too.                       *)
DiscardNext ==
  /\ BaseTurn /\ m_state = "NEXT"
  /\ m_state' = "MDATA"
  /\ UNCHANGED <<server, input, expVars, prepVars, m_discard, rcvVars, entries, thrown>>

(* RCV_BASE is over when the whole reply was read.                         *)
EndBase ==
  /\ BaseTurn /\ m_exp_state = "RCV_BASE"
  /\ BaseDone
  /\ m_exp_state' = "RCV_CLOSE"
  /\ UNCHANGED <<server, input, field, m_exp_op, in_call, m_expectation_error,
                 prepVars, stmtVars, entries, thrown>>

-----------------------------------------------------------------------------
(* The application, once the operation has completed.                      *)

Idle == Completed /\ ~thrown

(* Cursor::get_rows(), get_row(): one row, or what comes after the rows.   *)
GetRow == Idle /\ m_state = "ROWS" /\ ReadStage

AppSets(state, discard) ==
  /\ m_state' = state /\ m_discard' = discard
  /\ UNCHANGED <<server, input, expVars, prepVars, rcvVars, entries, thrown>>

(* Stmt_op::discard_result(), called by Cursor::close() and skip_result(). *)
discard_result == Idle /\ m_state = "ROWS" /\ AppSets("DISCARD", m_discard)

(* Stmt_op::next_result()                                                  *)
next_result == Idle /\ m_state = "NEXT" /\ AppSets("MDATA", m_discard)

(* Stmt_op::discard(), also called when the statement is destroyed.        *)
discard ==
  /\ Idle /\ m_state \in {"ROWS", "NEXT"}
  /\ AppSets(IF m_state = "ROWS" THEN "DISCARD" ELSE m_state, TRUE)

-----------------------------------------------------------------------------
(* The statement was processed to its end, or an exception ended it.       *)
Done == Idle /\ m_state \notin {"ROWS", "NEXT"}

(* Expectation::Expectation(), Prepared::Prepared(), Stmt_op::Stmt_op():   *)
(* the next statement of the session, which keeps what it has learned.     *)
(* With something left over from this one the model ends here.             *)
NewStmt ==
  /\ Done /\ reqs = <<>> /\ wire = <<>>
  /\ kind' \in Kinds
  /\ m_exp_state' = ExpState(kind', field)
  /\ m_exp_op' = "none" /\ in_call' = FALSE /\ m_expectation_error' = FALSE
  /\ m_stmt_id' = (kind' \in {"prepare", "execute"})
  /\ m_prepare_error' = FALSE
  /\ m_state' = "SEND" /\ m_discard' = FALSE
  /\ entries' = <<>> /\ failed' = {} /\ seen' = <<>>
  /\ UNCHANGED <<peer, field, rcvVars, thrown, reqs, wire>>

Finished == (Done \/ thrown) /\ reqs = <<>> /\ UNCHANGED vars

Client ==
  \/ SndExpectation \/ SndBase \/ SndClose \/ SndForward
  \/ ReadExpectation \/ NotArrived \/ ReceivedByOther \/ ReadPrepare
  \/ ReadBase \/ DiscardNext \/ EndBase
  \/ GetRow \/ discard_result \/ next_result \/ discard

Next == Serve \/ Client \/ NewStmt \/ Finished

(* The server answers; wait() calls do_cont() until the operation has      *)
(* completed; the destructor of the statement discards what is left of     *)
(* the reply.                                                              *)
Fairness == WF_vars(Serve) /\ WF_vars(Client)

Spec == Init /\ [][Next]_vars /\ Fairness

-----------------------------------------------------------------------------
(* Properties.                                                             *)

States == {"SEND", "MDATA", "ROWS", "DISCARD", "NEXT", "FINISH", "DONE", "ERROR"}
Requests == {"expect_open", "prepare", "stmt", "expect_close"}

(* The variables have the values that the members of Expectation,          *)
(* Prepared, Stmt_op and Rcv_result can have.                              *)
TypeOK ==
  /\ kind \in Kinds /\ supported \in BOOLEAN /\ blocking \in BOOLEAN
  /\ field \in {"UNKNOWN", "YES", "NO"}
  /\ m_exp_state \in {"SND_EXPECTATION", "SND_BASE", "SND_CLOSE", "RCV_EXPECTATION",
                      "RCV_BASE", "RCV_CLOSE", "FORWARD", "ERROR"}
  /\ m_exp_op \in {"none", "pending", "done"} /\ in_call \in BOOLEAN
  /\ m_expectation_error \in BOOLEAN
  /\ m_stmt_id \in BOOLEAN /\ m_prepare_error \in BOOLEAN
  /\ m_state \in States /\ m_discard \in BOOLEAN
  /\ m_result_state \in {"START", "MDATA", "ROWS", "CLOSE", "DONE"}
  /\ m_ccount \in BOOLEAN
  /\ entries \in Seq({"expectation", "prepare", "server"}) /\ thrown \in BOOLEAN
  /\ reqs \in Seq(Requests) /\ failed \subseteq Requests
  /\ wire \in Seq([to : Requests, type : {"ok", "unknown_field", "error", "mdata", "row",
                                          "done", "more", "execute_ok"}])
  /\ seen \in Seq([to : Requests, by : Requests])

(* The properties below are stated for all statements but the first use of *)
(* prepare and execute on a transport whose reads may return early: there  *)
(* PrepareReplyFirst fails, and nothing is right after that.               *)
Raceless ==
  blocking \/ kind # "prepare" \/ \A i \in 1..Len(seen) : seen[i].to # "expect_open"

(* Every reply is read by the layer that sent the request: the reply to    *)
(* Expect_Open and Expect_Close by Expectation, the one to Prepare by      *)
(* Prepared::do_cont(), the one to the statement by Stmt_op or a cursor.   *)
RepliesMatched == Raceless => \A i \in 1..Len(seen) : seen[i].by = seen[i].to

(* Stmt_op and Rcv_result, two state machines that follow the same reply,  *)
(* agree on the stage: a receive operation is never resumed for a stage    *)
(* that is not next and no message of a well-formed reply is unexpected.   *)
NoProtocolError == Raceless => ~thrown

(* Expectation<> has refused the statement when it was constructed, since  *)
(* the server is known not to have the feature: nothing is sent.           *)
Refused == m_exp_state = "ERROR"

(* When a statement that was sent is done, its first diagnostic entry      *)
(* tells what went wrong first, and there is none if nothing did.          *)
(* Op_base::wait() decides by the class of the first error if it executes  *)
(* the statement again without preparing it.  A refused statement is not   *)
(* covered: Expectation::is_completed() is true from the start, do_cont(), *)
(* which would add the error, is not reached, and there is no entry.       *)
FirstErrorTells ==
  Done /\ Raceless /\ ~Refused =>
    IF failed = {} THEN entries = <<>>
    ELSE /\ entries # <<>>
         /\ entries[1] = IF "expect_open" \in failed THEN "expectation"
                         ELSE IF "prepare" \in failed THEN "prepare" ELSE "server"

(* When the statement is done, all its replies were read: the next         *)
(* statement of the session will not read a leftover.                      *)
NothingLeft == Done /\ Raceless => reqs = <<>> /\ wire = <<>>

(* What the session has learned of the server is true, whoever read which  *)
(* reply (set_protocol_field() in Expectation::ok() and error()).          *)
FieldRight == (field = "YES" => supported) /\ (field = "NO" => ~supported)

(* Every statement is processed to the end of its reply, whatever the      *)
(* application does with the result sets; only the race mentioned above    *)
(* ends one with an exception.                                             *)
Completes == []<>(Done \/ (thrown /\ ~Raceless))

(* Prepared::do_cont() first processes the reply to the prepare command:   *)
(* what it reads is that reply.                                            *)
PrepareReplyFirst ==
  \A i \in 1..Len(seen) : seen[i].by = "prepare" => seen[i].to = "prepare"
=============================================================================
