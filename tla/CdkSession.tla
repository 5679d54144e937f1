----------------------------- MODULE CdkSession -----------------------------
(***************************************************************************)
(* A CDK session and the statements registered with it (cdk/mysqlx/        *)
(* session.cc, Stmt_op in cdk/mysqlx/result.cc and result.h).  After the   *)
(* session was established (Connect), the application creates statements   *)
(* without waiting for earlier ones, waits for them, reads or discards     *)
(* their replies and destroys them, resets the session, as the pool does   *)
(* before each new use, and closes it.                                     *)
(*                                                                         *)
(* The replies come on one stream in the order of the commands; nothing    *)
(* but the linked list of statements makes each of them reach the          *)
(* statement it is for.                                                    *)
(*                                                                         *)
(* Everything happens in one thread.  An action is the part of a call up   *)
(* to the next exchange with the server.  Statements are plain ones: what  *)
(* an expectation block or a prepare step adds is in StmtPipeline.         *)
(***************************************************************************)
EXTENDS Connect

CONSTANTS
  Stmts,     \* bound: statements that the application creates
  Replies    \* the replies to each of them: sequences of "rset" (a result set
             \* begins), "more" (its end, another follows), "end" (its end,
             \* the last), "ok" (end of a reply without result set), "error"

Op == "op"               \* the statement that a session method creates
Null == "null"
Statements == Stmts \cup {Op}

ASSUME SessionAssumption == {Op, Null} \cap Stmts = {}

VARIABLES
  stmt,        \* the statements: m_state ("none" and "gone" if it does not
               \* exist yet and any more), m_discard, m_current_cursor # null,
               \* m_session # null
  prev, next,  \* m_prev_stmt, m_next_stmt
  m_last_stmt,
  field,       \* has_protocol_field(KEEP_OPEN)
  cmd,         \* the command Op sends
  call,        \* the call being executed
  wire,        \* parts of replies that were not read
  link,        \* is the connection intact?
  order,       \* history: the existing statements in order of creation
  crossed      \* history: a statement has read what was not for it

listVars == <<stmt, prev, next, m_last_stmt>>
callVars == <<field, cmd, call>>
wireVars == <<wire, link, crossed>>
sessionVars == <<listVars, callVars, wireVars, order>>
vars == <<connectVars, sessionVars>>

Idle == [fn |-> "none"]
NoStmt(state) == [state |-> state, discard |-> FALSE, cursor |-> FALSE, registered |-> FALSE]
Exists(s) == stmt[s].state \notin {"none", "gone"}

-----------------------------------------------------------------------------
(* Registration                                                            *)

(* Stmt_op::Stmt_op(), Session::register_stmt()                            *)
register_stmt(s) ==
  /\ stmt' = [stmt EXCEPT ![s] = [state |-> "WAIT", discard |-> FALSE, cursor |-> FALSE,
                                  registered |-> TRUE]]
  /\ prev' = [prev EXCEPT ![s] = m_last_stmt]
  /\ next' = IF m_last_stmt = Null THEN next ELSE [next EXCEPT ![m_last_stmt] = s]
  /\ m_last_stmt' = s
  /\ order' = Append(order, s)

(* Mutant: the next statement keeps its m_prev_stmt.                       *)
Unlinked_prev(s) ==
  [prev |-> [prev EXCEPT ![s] = Null],
   next |-> [t \in Statements |->
               IF t = s THEN Null ELSE IF t = prev[s] THEN next[s] ELSE next[t]],
   last |-> IF m_last_stmt = s THEN prev[s] ELSE m_last_stmt]

(* Mutant: m_last_stmt is kept.                                            *)
Unlinked_last(s) == [Unlinked_prev(s) EXCEPT !.last = m_last_stmt]

(* The list as Session::deregister_stmt() leaves it.                       *)
Unlinked(s) ==
  [prev |-> [t \in Statements |->
               IF t = s THEN Null ELSE IF t = next[s] THEN prev[s] ELSE prev[t]],
   next |-> [t \in Statements |->
               IF t = s THEN Null ELSE IF t = prev[s] THEN next[s] ELSE next[t]],
   last |-> IF m_last_stmt = s THEN prev[s] ELSE m_last_stmt]

SetList(list) == prev' = list.prev /\ next' = list.next /\ m_last_stmt' = list.last

-----------------------------------------------------------------------------
(* Stmt_op::do_cont()                                                      *)

(* Stmt_op::is_completed(), stmt_sent(); check_results() of a completed    *)
(* statement.                                                              *)
is_completed(s) ==
  stmt[s].state \in IF stmt[s].discard THEN {"DONE", "ERROR"}
                    ELSE {"DONE", "ERROR", "ROWS", "NEXT"}
stmt_sent(s) == stmt[s].state # "WAIT"
check_results(s) == stmt[s].state \in {"ROWS", "NEXT"}

(* The calls of do_cont() that one call for s makes, one inside the other: *)
(* a statement first lets the previous one send its command and complete.  *)
Frames[s \in Statements] ==
  LET p == prev[s]
  IN IF p # Null /\ (IF stmt_sent(s) THEN ~is_completed(p) ELSE ~stmt_sent(p))
     THEN Append(Frames[p], s) ELSE <<s>>

(* The statement whose turn it is.                                         *)
Turn(s) == Head(Frames[s])

(* It has to wait for the application to read an earlier reply.            *)
IsBlocked(s) ==
  stmt_sent(s) /\ prev[s] # Null /\ is_completed(prev[s]) /\ check_results(prev[s])

Tagged(s, parts) == [i \in DOMAIN parts |-> [to |-> s, part |-> parts[i]]]

(* What the server answers to the commands of session methods.             *)
OpReplies ==
  CASE cmd = "ROLLBACK" -> {<<"ok">>, <<"error">>}
    [] cmd = "EXPECT" -> {<<"ok", "ok">>, <<"error", "ok">>, <<"error", "error">>}
    [] cmd = "RESET" -> {<<"ok">>, <<"error">>}

(* Without authentication the server answers nothing else.                 *)
ServerReplies(s) ==
  IF ~server.authenticated THEN {<<"error">>} ELSE IF s = Op THEN OpReplies ELSE Replies[s]

(* A session reset that does not keep the session open ends it.            *)
AfterCommand(s, reply) ==
  IF s = Op /\ cmd = "RESET" /\ field # "YES" /\ reply = <<"ok">>
  THEN [server EXCEPT !.authenticated = FALSE] ELSE server

(* The command is sent.                                                    *)
Send(s) ==
  /\ stmt[s].state = "WAIT"
  /\ \E reply \in ServerReplies(s) :
       /\ wire' = wire \o Tagged(s, reply)
       /\ server' = AfterCommand(s, reply)
  /\ stmt' = [stmt EXCEPT ![s].state = "MDATA"]
  /\ UNCHANGED <<prev, next, m_last_stmt, field, crossed>>

(* Stmt_op::done(), ok(), error() and the end of do_cont().                *)
StateAfter(s, part) ==
  CASE part = "rset" -> IF stmt[s].discard THEN "DISCARD" ELSE "ROWS"
    [] part = "more" -> IF stmt[s].discard THEN "MDATA" ELSE "NEXT"
    [] part = "end" -> "DONE"
    [] part = "ok" -> "DONE"
    [] part = "error" -> "ERROR"

(* Expectation<void>: the first reply tells about the field, the second    *)
(* ends the block.                                                         *)
ReadExpect(s) == s = Op /\ cmd = "EXPECT" /\ stmt[s].state = "MDATA" /\ field = "UNKNOWN"

(* Mutant: the previous statement is not waited for.                       *)
MayRead_any(s) == stmt_sent(s)

MayRead(s) == prev[s] # Null => ~check_results(prev[s])

(* The next part of the reply is read, after a previous statement that has *)
(* completed was taken from the list.                                      *)
Read(s) ==
  /\ stmt[s].state \in {"MDATA", "DISCARD"} /\ MayRead(s)
  /\ wire # <<>>
  /\ wire' = Tail(wire)
  /\ crossed' = (crossed \/ Head(wire).to # s)
  /\ LET part == Head(wire).part
         after == [stmt EXCEPT ![s].state = IF ReadExpect(s) THEN @ ELSE StateAfter(s, part)]
     IN IF prev[s] = Null
        THEN stmt' = after /\ UNCHANGED <<prev, next, m_last_stmt>>
        ELSE stmt' = [after EXCEPT ![prev[s]].registered = FALSE] /\ SetList(Unlinked(prev[s]))
  /\ field' = IF ~ReadExpect(s) THEN field ELSE IF Head(wire).part = "ok" THEN "YES" ELSE "NO"
  /\ UNCHANGED server

(* Mutant: the state is not changed.                                       *)
Skip_stays(s) ==
  /\ stmt[s].state \in {"ROWS", "NEXT"} /\ stmt[s].discard
  /\ UNCHANGED <<stmt, prev, next, m_last_stmt, server, wire, field, crossed>>

(* In discard mode NEXT is MDATA and ROWS is DISCARD.                      *)
Skip(s) ==
  /\ stmt[s].state \in {"ROWS", "NEXT"} /\ stmt[s].discard
  /\ stmt' = [stmt EXCEPT ![s].state = IF @ = "NEXT" THEN "MDATA" ELSE "DISCARD"]
  /\ UNCHANGED <<prev, next, m_last_stmt, server, wire, field, crossed>>

(* One round of the loop in Stmt_op::do_wait().                            *)
DoCont(s) ==
  /\ link
  /\ Send(Turn(s)) \/ Read(Turn(s)) \/ Skip(Turn(s))

-----------------------------------------------------------------------------
(* Calls.  A call is a sequence of steps; each waits for its statement     *)
(* before it does its own work.                                            *)

Step(do, s) == [do |-> do, on |-> s]

Current == Head(call.steps)
Busy == call # Idle

(* discard_results(): all registered statements, the oldest first.         *)
Registered == SelectSeq(order, LAMBDA s : stmt[s].registered)

discard_results ==
  FlattenSeq([i \in DOMAIN Registered |->
                <<Step("discard", Registered[i]), Step("wait", Registered[i])>>])

(* A statement that a method creates, waits for and destroys.              *)
Execute(command, check) ==
  <<Step(command, Op), Step(check, Op), Step("delete", Op)>>

(* Session::clean_up(), with rollback().                                   *)
clean_up == discard_results \o Execute("ROLLBACK", "check_error")

(* Session::reset()                                                        *)
reset ==
  clean_up
    \o (IF field = "UNKNOWN" THEN Execute("EXPECT", "wait") ELSE <<>>)
    \o Execute("RESET", "authenticate")

(* Mutant: nothing is cleaned up.                                          *)
close_at_once == <<Step("snd_ConnectionClose", Op)>>

(* Session::close()                                                        *)
close == clean_up \o <<Step("snd_ConnectionClose", Op)>>

(* What a call of the application consists of.                             *)
Program(fn, s) ==
  CASE fn = "wait" -> <<Step("wait", s)>>
    [] fn = "cursor" -> <<Step("next_result", s), Step("open_cursor", s)>>
    [] fn = "skip_result" -> <<Step("discard_result", s), Step("next_result", s), Step("wait", s)>>
    [] fn = "discard" -> <<Step("discard", s)>>
    [] fn = "destroy" -> <<Step("discard", s), Step("delete", s)>>

Begin(fn, steps) ==
  /\ stage = "up" /\ ~Busy
  /\ call' = [fn |-> fn, steps |-> steps]
  /\ UNCHANGED <<connectVars, listVars, field, cmd, wireVars, order>>

Create ==
  /\ stage = "up" /\ ~Busy
  /\ \E s \in Stmts : stmt[s].state = "none"
  /\ register_stmt(CHOOSE s \in Stmts : stmt[s].state = "none")
  /\ UNCHANGED <<connectVars, callVars, wireVars>>

(* A cursor keeps its statement alive.                                     *)
StmtCall(fn, s) ==
  /\ Exists(s)
  /\ fn # "wait" /\ fn # "discard" => ~stmt[s].cursor
  /\ Begin(fn, Program(fn, s))

Reset == m_isvalid /\ Begin("reset", reset)
Close == m_isvalid /\ Begin("close", close)

(* Cursor::get_rows(), wait(): the rest of the rows.                       *)
GetRows(s) ==
  /\ stage = "up" /\ ~Busy /\ link
  /\ stmt[s].cursor /\ stmt[s].state = "ROWS"
  /\ wire # <<>> /\ wire' = Tail(wire)
  /\ crossed' = (crossed \/ Head(wire).to # s)
  /\ stmt' = [stmt EXCEPT ![s].state = StateAfter(s, Head(wire).part)]
  /\ UNCHANGED <<connectVars, prev, next, m_last_stmt, callVars, link, order>>

(* Cursor::close()                                                         *)
CloseCursor(s) ==
  /\ stage = "up" /\ ~Busy
  /\ stmt[s].cursor
  /\ stmt' = [stmt EXCEPT ![s].cursor = FALSE,
                          ![s].state = IF @ = "ROWS" THEN "DISCARD" ELSE @]
  /\ UNCHANGED <<connectVars, prev, next, m_last_stmt, callVars, wireVars, order>>

(* The connection breaks, which is noticed when it is used.                *)
LinkDown ==
  /\ stage = "up" /\ link /\ Busy
  /\ link' = FALSE /\ wire' = <<>>
  /\ UNCHANGED <<connectVars, listVars, callVars, crossed, order>>

-----------------------------------------------------------------------------
(* The steps of a call.                                                    *)

(* Steps that begin without waiting: a statement is created; discard_      *)
(* result() has nothing to do in discard mode and after an error; the      *)
(* connection is closed; the session authenticates again.                  *)
NeedsWait ==
  /\ Current.do \notin {"ROLLBACK", "EXPECT", "RESET", "snd_ConnectionClose", "reauthenticate"}
  /\ ~is_completed(Current.on)
  /\ Current.do \in {"discard", "discard_result"} => ~stmt[Current.on].discard

Wait ==
  /\ Busy /\ NeedsWait
  /\ DoCont(Current.on)
  /\ UNCHANGED <<opt, visitVars, stage, requests, secure, compression, m_auth, m_isvalid, reports,
                 cmd, call, link, order>>

(* The step is done.                                                       *)
Proceed == call' = IF Len(call.steps) = 1 THEN Idle ELSE [call EXCEPT !.steps = Tail(@)]

Effect(do) == Busy /\ ~NeedsWait /\ Current.do = do

(* Steps that change the statement only.                                   *)
StepStmt(after) ==
  /\ stmt' = [stmt EXCEPT ![Current.on] = after]
  /\ Proceed
  /\ UNCHANGED <<connectVars, prev, next, m_last_stmt, field, cmd, wireVars, order>>

Waited == Effect("wait") /\ StepStmt(stmt[Current.on])

(* Stmt_op::next_result()                                                  *)
next_result ==
  /\ Effect("next_result")
  /\ StepStmt([stmt[Current.on] EXCEPT !.state = IF @ = "NEXT" THEN "MDATA" ELSE @])

(* Cursor::Cursor()                                                        *)
OpenCursor ==
  /\ Effect("open_cursor") /\ stmt[Current.on].state = "ROWS"
  /\ StepStmt([stmt[Current.on] EXCEPT !.cursor = TRUE])

(* Stmt_op::discard_result()                                               *)
discard_result ==
  /\ Effect("discard_result")
  /\ StepStmt([stmt[Current.on] EXCEPT !.state = IF @ = "ROWS" THEN "DISCARD" ELSE @])

(* Stmt_op::discard()                                                      *)
discard ==
  /\ Effect("discard") /\ ~stmt[Current.on].cursor
  /\ StepStmt([stmt[Current.on] EXCEPT !.state = IF @ = "ROWS" THEN "DISCARD" ELSE @,
                                       !.discard = TRUE])

CheckError == Effect("check_error") /\ stmt[Op].state # "ERROR" /\ StepStmt(stmt[Op])

(* Statements are removed: Stmt_op::~Stmt_op().                            *)
Destroyed(s, states) ==
  /\ stmt' = [states EXCEPT ![s] = NoStmt(IF s = Op THEN "none" ELSE "gone")]
  /\ IF stmt[s].registered THEN SetList(Unlinked(s)) ELSE UNCHANGED <<prev, next, m_last_stmt>>
  /\ order' = Remove(order, s)

Delete ==
  /\ Effect("delete")
  /\ Destroyed(Current.on, stmt)
  /\ Proceed
  /\ cmd' = "none"
  /\ UNCHANGED <<connectVars, field, wireVars>>

NewOp ==
  /\ \E c \in {"ROLLBACK", "EXPECT", "RESET"} : Effect(c) /\ cmd' = c
  /\ register_stmt(Op)
  /\ Proceed
  /\ UNCHANGED <<connectVars, field, wireVars>>

KeptOpen == Effect("authenticate") /\ field = "YES" /\ StepStmt(stmt[Op])

(* Mutant: the session remains valid.                                      *)
StillValid_yes == m_isvalid

StillValid == FALSE

(* SessionAuth::restart()                                                  *)
Restart ==
  /\ Effect("authenticate") /\ field # "YES"
  /\ m_isvalid' = StillValid
  /\ m_auth' = [m_auth EXCEPT !.state = "START"]
  /\ call' = [call EXCEPT !.steps[1].do = "reauthenticate"]
  /\ UNCHANGED <<opt, visitVars, stage, requests, secure, compression, server, reports,
                 listVars, field, cmd, wireVars, order>>

ResetAuth(answer) ==
  /\ Effect("reauthenticate") /\ link
  /\ server.authenticated => answer = "error"
  /\ AuthReply(answer)
  /\ UNCHANGED <<opt, visitVars, stage, requests, secure, compression, m_isvalid, reports,
                 sessionVars>>

Reauthenticated ==
  /\ Effect("reauthenticate") /\ m_auth.state = "DONE"
  /\ m_isvalid' = TRUE
  /\ Proceed
  /\ UNCHANGED <<opt, visitVars, stage, requests, secure, compression, m_auth, server, reports,
                 listVars, field, cmd, wireVars, order>>

snd_ConnectionClose ==
  /\ Effect("snd_ConnectionClose") /\ link
  /\ m_isvalid' = FALSE
  /\ server' = [server EXCEPT !.authenticated = FALSE]
  /\ link' = FALSE /\ wire' = <<>>
  /\ Proceed
  /\ UNCHANGED <<opt, visitVars, stage, requests, secure, compression, m_auth, reports,
                 listVars, field, cmd, crossed, order>>

-----------------------------------------------------------------------------
(* Exceptions.                                                             *)

(* ~Stmt_op() waits for the statement to complete, and must not throw: the *)
(* program is terminated if the wait fails, be it that the application     *)
(* destroys the statement or that an exception leaves the method that has  *)
(* created it.                                                             *)
Terminates(states) ==
  call.fn = "destroy" \/ (Exists(Op) /\ states[Op].state \notin {"DONE", "ERROR"})

(* An exception ends the call, and the statement the call had created.     *)
Throw(states) ==
  /\ call' = Idle
  /\ stage' = IF Terminates(states) THEN "aborted" ELSE stage
  /\ m_isvalid' = (m_isvalid /\ call.fn # "close")
  /\ IF ~Exists(Op)
     THEN stmt' = states /\ UNCHANGED <<prev, next, m_last_stmt, order>>
     ELSE Destroyed(Op, states)
  /\ UNCHANGED <<opt, visitVars, requests, secure, compression, m_auth, server, reports,
                 field, cmd, wireVars>>

(* The connection is broken.  If m_op->cont() notices it, as with TLS, all *)
(* calls of do_cont() that the exception leaves set their statement to     *)
(* ERROR.  If m_op->wait() does, which do_wait() calls after do_cont() has *)
(* returned (plain sockets), the statement keeps its state and its m_op,   *)
(* and is not completed.                                                   *)
Broken ==
  /\ Busy /\ NeedsWait /\ ~link
  /\ LET frames == Frames[Current.on]
     IN /\ ~IsBlocked(Head(frames))
        /\ \/ Throw([s \in Statements |->
                       IF s \in ToSet(frames) THEN [stmt[s] EXCEPT !.state = "ERROR"] ELSE stmt[s]])
           \/ frames = <<Current.on>> /\ Throw(stmt)

(* do_wait(): "Reply blocked by a previous one."                           *)
Blocked == Busy /\ NeedsWait /\ IsBlocked(Current.on) /\ Throw(stmt)

(* A reply with an error, no rows for a cursor, a cursor that is in use,   *)
(* a session that could not be authenticated or closed.                    *)
Error ==
  /\ \/ Effect("check_error") /\ stmt[Op].state = "ERROR"
     \/ Effect("open_cursor") /\ stmt[Current.on].state # "ROWS"
     \/ Effect("discard") /\ stmt[Current.on].cursor
     \/ Effect("reauthenticate") /\ (m_auth.state = "ERROR" \/ (Authenticating /\ ~link))
     \/ Effect("snd_ConnectionClose") /\ ~link
  /\ Throw(stmt)

-----------------------------------------------------------------------------
Init ==
  /\ ConnectInit
  /\ stmt = [s \in Statements |-> NoStmt("none")]
  /\ prev = [s \in Statements |-> Null] /\ next = [s \in Statements |-> Null]
  /\ m_last_stmt = Null
  /\ field = "UNKNOWN" /\ cmd = "none" /\ call = Idle
  /\ wire = <<>> /\ link = TRUE
  /\ order = <<>> /\ crossed = FALSE

InCall ==
  \/ Wait \/ Waited \/ next_result \/ OpenCursor \/ discard_result \/ discard \/ CheckError
  \/ Delete \/ NewOp \/ KeptOpen \/ Restart
  \/ \E answer \in {"continue", "ok", "error"} : ResetAuth(answer)
  \/ Reauthenticated \/ snd_ConnectionClose
  \/ Broken \/ Blocked \/ Error

Application ==
  \/ Create
  \/ \E s \in Stmts : \E fn \in {"wait", "cursor", "skip_result", "discard", "destroy"} :
       StmtCall(fn, s)
  \/ \E s \in Stmts : GetRows(s) \/ CloseCursor(s)
  \/ Reset \/ Close \/ LinkDown

Next == (ConnectNext /\ UNCHANGED sessionVars) \/ Application \/ InCall

(* A call goes on as long as the server answers.                           *)
Spec == Init /\ [][Next]_vars /\ WF_vars(InCall)

-----------------------------------------------------------------------------
(* Properties.                                                             *)

(* Session_builder, SessionAuth, Session and Stmt_op objects hold values   *)
(* of their types; only registered statements are in the list.             *)
TypeOK ==
  /\ stage \in {"visit", "connect", "tls_caps", "tls", "compression", "attributes", "auth",
                "established", "up", "failed", "aborted"}
  /\ compression \in {"NONE", "LZ4", "DEFLATE"} /\ m_isvalid \in BOOLEAN
  /\ m_auth.state \in {"INIT", "START", "CONT", "DONE", "ERROR"}
  /\ \A s \in Statements :
       /\ stmt[s].state \in {"none", "gone", "WAIT", "MDATA", "ROWS", "DISCARD", "NEXT", "DONE", "ERROR"}
       /\ ~stmt[s].registered => prev[s] = Null /\ next[s] = Null /\ m_last_stmt # s
  /\ field \in {"UNKNOWN", "YES", "NO"} /\ wire \in Seq([to : Statements, part : STRING])

(* Data sources are tried in the order of their priorities, each at most   *)
(* once, none that the filter rejected and none before one of the same     *)
(* priority with a weight if it has none; one of lower priority only after *)
(* all the others were rejected or failed (Multi_source::visit()).         *)
TriedInOrder ==
  /\ \A i, j \in DOMAIN tried :
       i < j => /\ tried[i] # tried[j]
                /\ Prio[tried[i]] <= Prio[tried[j]]
                /\ Prio[tried[i]] = Prio[tried[j]] /\ Weight[tried[i]] = 0 => Weight[tried[j]] = 0
  /\ \A i \in DOMAIN tried : \A h \in Hosts :
       /\ tried[i] \notin filtered
       /\ Prio[h] < Prio[tried[i]] => h \in filtered \cup ToSet(tried)

(* "If this is not the case and session could be successfully created,     *)
(* ep_filter(id,YES) is called" (cdk/core/session.cc): the pool hears of   *)
(* every attempt once, in order, and of success only if there is a valid   *)
(* session, whatever way the attempt ended (~ReportStatus()).  That the    *)
(* next source is then tried, as the comment goes on to say, is not part   *)
(* of it: an exception after connect() ends the search.                    *)
AttemptsReported ==
  LET n == IF stage \in {"visit", "established", "failed", "up"} THEN Len(tried) ELSE Len(tried) - 1
  IN stage # "aborted" =>
       /\ Len(reports) = n
       /\ \A i \in 1..n : /\ reports[i].id = tried[i]
                          /\ reports[i].status = "YES" <=> stage = "established" /\ i = n

(* Client and server compress with the same algorithm, the first one of    *)
(* the list that the server supports (negotiate_compression(): "first      *)
(* element has the higher priority"), and with some if one is required.    *)
CompressionPreferred ==
  stage = "established" =>
    LET usable == IF opt.compression = "DISABLED" THEN <<>>
                  ELSE SelectSeq(opt.algorithms, LAMBDA a : a \in server.algs)
    IN /\ compression = IF usable = <<>> THEN "NONE" ELSE Head(usable)
       /\ compression = server.alg
       /\ opt.compression = "REQUIRED" => compression # "NONE"

(* A session that is established with TLS required uses TLS or a Unix      *)
(* socket, which counts as secure (Unix_socket::is_secure()) and is not    *)
(* encrypted; over a connection that is neither the password is sent only  *)
(* if PLAIN was asked for (tls_connect(), do_authenticate()).              *)
SecureAsAsked ==
  /\ stage = "auth" /\ m_auth.am = "PLAIN" /\ ~secure => opt.auth = "PLAIN"
  /\ stage = "established" /\ opt.ssl \in {"REQUIRED", "VERIFY_CA"} => secure

(* Between two calls, and as long as the connection holds, a valid session *)
(* is one that the server has authenticated, also after a reset that it    *)
(* was not able to keep open (Session::reset()).                           *)
ValidMeansAuthenticated == m_isvalid /\ link /\ ~Busy => server.authenticated

(* The list of statements is the list of registered ones in the order of   *)
(* their creation, linked in both directions, whatever order they were     *)
(* waited for, discarded and destroyed in (register_stmt(),                *)
(* deregister_stmt()).                                                     *)
ListLinked ==
  LET r == Registered
  IN /\ m_last_stmt = IF r = <<>> THEN Null ELSE Last(r)
     /\ \A i \in DOMAIN r : /\ prev[r[i]] = IF i = 1 THEN Null ELSE r[i - 1]
                            /\ next[r[i]] = IF i = Len(r) THEN Null ELSE r[i + 1]

(* "Later operations first wait for earlier ones before doing their own    *)
(* job" (Stmt_op): each part of a reply is read by the statement it is for *)
(* and a statement that is done or destroyed has left none.                *)
RepliesInOrder ==
  /\ ~crossed
  /\ \A i \in DOMAIN wire : stmt[wire[i].to].state \in {"MDATA", "ROWS", "DISCARD", "NEXT"}

(* Session::clean_up() leaves nothing pending: the session is reset or     *)
(* closed with all statements completed and all replies read.              *)
CleanSlate ==
  Busy /\ Current.do \in {"RESET", "snd_ConnectionClose"} =>
    /\ wire = <<>>
    /\ \A s \in Stmts : stmt[s].registered => stmt[s].state \in {"DONE", "ERROR"}

(* The statement waited for is blocked by one that is not the last before  *)
(* it: do_wait() notices only the latter.                                  *)
BlockedFurtherUp ==
  Busy /\ NeedsWait /\ Turn(Current.on) # Current.on /\ IsBlocked(Turn(Current.on))

(* Every call on a statement, a reset and a close ends, with a result, an  *)
(* exception or, when a destructor throws, with the program; "Break a      *)
(* deadlock if previous reply is not completely consumed"                  *)
(* (Stmt_op::do_wait()) makes it so unless the reply is one further up     *)
(* (BlockedFurtherUp): such a call spins, and is left out here.            *)
CallsEnd == []<>(~Busy \/ BlockedFurtherUp)
=============================================================================
