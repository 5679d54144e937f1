# A TLA+ verification of MySQL Connector/C++

This directory specifies the parts of MySQL Connector/C++ whose correctness depends on the order of
events: the session pool, the execution of operations as prepared statements, result objects and their
row cache, statements and their replies, the wire protocol, and how a session is connected,
authenticated, reset and closed.  The modules are checked with TLC on small instances.  The safety properties
of the pool, of statement ids and prepared statements, and of the registration of results are also
proved with TLAPS, for all sizes.

Paths below are relative to `src/`.  `PROJECT.json` maps each definition to the lines it models.

## 1. The system

The X DevAPI connectors are built in layers.

| Part | Code | State | Modelled in |
|---|---|---|---|
| Session pool | `common/session.{h,cc}`: `Session_pool`, `Pooled_session` | `m_pool` (session, deadline, cleanup handler), block list, `m_pool_closed`, two mutexes, a condition variable | `SessionPool` |
| Session of the common layer | `common/session.h`: `Session_impl` | current result, statement ids in use and to clean up, limit on ids, lock | `SessionPool`, `OpExecution` |
| Executable operations | `common/op_impl.h`: `Op_base`, `Op_limit`, `Op_bind`, ... | definition, limit, offset, parameters, prepare state, shared statement id, pending reply | `OpExecution` |
| Result objects | `common/result.{h,cc}` | row caches, current result set, reply | `ResultImpl` |
| CDK statements | `cdk/mysqlx/stmt.h`, `cdk/mysqlx/result.cc` | `Stmt_op`, `Expectation`, `Prepared` state machines, diagnostics | `StmtPipeline`, `CdkSession` |
| CDK session | `cdk/mysqlx/session.cc` | authentication, protocol fields, list of registered statements | `CdkSession`, `Connect` |
| Connecting | `cdk/core/session.cc`, `cdk/include/mysql/cdk/data_source.h` | data sources by priority and weight | `Connect` |
| Protocol | `cdk/protocol/mysqlx/` | receive operation, read and write state, pipeline buffer, compression | `Protocol`, `StmtPipeline` |
| Streams | `cdk/foundation/` | socket, TLS | `Protocol`, `StmtPipeline` (as what they deliver) |
| Settings, parsers, values, codecs | `common/settings.h`, `cdk/parser/`, `common/value.cc`, `cdk/core/codec.cc` | none between calls | - |
| Public APIs | `devapi/`, `xapi/` | owned objects and handles | as application steps |
| JDBC-style driver | `jdbc/` | - | - |

How they interact: an application thread constructs a `Session_impl`, which takes a CDK session from the
pool; a new one is connected to one of the data sources.  Executing an operation first stores the session's
current result, then decides whether to prepare the statement, and sends it through `Prepared` /
`Expectation` / `Stmt_op`, which share one stream of replies read by the receive operations of the protocol.
The reply becomes a result object that is registered with the session.  Releasing the session stores that
result and returns the CDK session to the pool, which resets it before it is used again; closing the client
does the same from another thread.

What makes this hard:

- *Threads.*  The pool is used by any number of threads, and `close()` works on their sessions while they
  use them.  Waiting uses a mutex that differs from the one protecting the pool.
- *Failures in the middle.*  A session fails to reset, an end point fails to connect, a pending result ends
  in an error, a prepare is refused, the connection breaks: each leaves the function at another place.
- *Shared and stale state.*  Copied operations share statement ids; one message object serves all
  executions of a session; cleanup handlers point at objects of other threads; rows are cached ahead of
  the application; what the session has learned of the server decides what is sent later.
- *One stream, many readers.*  `Stmt_op` and `Rcv_result` follow the same messages separately, three layers of
  a statement and several statements take turns reading them, and a read may return before the data is there.

The hazards are listed, each with its line and the properties that cover it, in `PROJECT.json`.

## 2. Modules

| Module | Contents |
|---|---|
| `SessionPool` | the session pool and the life of a `Session_impl` |
| `PoolAbstract` | what the pool promises: an allocator of sessions |
| `SessionPoolProofs` | inductive invariant and proofs for `SessionPool` |
| `PoolRefinement` | proof that `SessionPool` implements `PoolAbstract` |
| `OpExecution` | operations of one session, statement ids, prepared statements on the server |
| `OpProofs` | inductive invariants and proofs for `OpExecution` |
| `ResultImpl` | a result object, its row caches and its registration |
| `ResultAbstract` | what a result promises: result sets and rows in order |
| `ResultProofs` | inductive invariant and proofs for `ResultImpl` |
| `StmtPipeline` | one statement at a time through the CDK layers, receive operations, server |
| `Protocol` | messages to frames to bytes and back |
| `MessageStream` | what the protocol promises: messages once and in order |
| `Connect` | fail-over, TLS, compression, attributes, authentication |
| `CdkSession` | a connected session: list of statements, clean-up, reset, close |
| `MC...` | instances for TLC |

Definitions whose name has a lower-case suffix after an underscore and that stand before a definition of
the base name (`GetNew_off_by_one`, `Deallocated_none`, ...) are faulty variants of it.  No specification uses
them; `PROJECT.json` lists under "mutants" which property each of them violates when it takes the place of
the original.  They show that the properties can fail.

### SessionPool

*State.*  `pool`, `cleanup` and `expired` are `m_pool` (keys, `m_cleanup`, whether `m_deadline` has passed);
`blocked` is the block list; `ep` and `valid` are the end point of each CDK session and whether it is open;
`closed`, `m_pool_enable`, `m_max` are the members of `Session_pool`.  A thread has at most one `Session_impl`
and stands for it: `pc` is where it is, `held` the session of its `Pooled_session`, `impl` how far the object
is constructed, `late` whether its deadline has passed, `result` what is registered as current result,
`mutex` the session lock.  `cpc`, `todo`, `first`, `cur` are the local state of `close()`.

*Actions.*  `Session_pool::get_session()` runs under `m_pool_mutex` and is one step; its ways out are the
actions `GetClosed`, `GetPooled`, `GetNew`, `GetPooledBlocked`, `GetNewBlocked`, `GetError`, `GetNull` and
`GetUnpooled`, each computing which sessions were tried and removed and which end points were block-listed
on the way.  `do_wait()` is cut between its unsuccessful `do_cont()` and `wait_until()` (`EnterWait`), where the
code holds no lock.  The constructor of `Session_impl` is cut after its first member (`ConstructMembers`,
`CheckValid`).  `release_session()` is cut at its unlocked read of `m_pool_closed` (`ReleaseCheck`), the part under
the mutex (`ReleaseSession`) and the notification (`ReleaseNotify`).  `close()` keeps `m_pool_mutex` throughout; it
is cut wherever it takes or leaves a session lock, and inside between storing the result and closing the
session.  Deadlines pass at any time.

*Abstractions.*  Clock values become "has passed".  Storing a result has four outcomes (`Results`), as its
content is immaterial here.  Sessions have identities so that a session destroyed and one created can be
told apart; an identity nobody refers to may be used again.

*Refinement.*  `PoolAbstract` has only the sessions kept open (`avail`), who holds which, and whether the pool is
closed.  The mapping takes `avail` as the sessions of the pool that nobody holds (`Unused`).

### OpExecution

*State.*  Per operation: its definition, `m_has_limit`, `m_has_offset`, the bound parameters, `m_prepare_state`,
`m_stmt_id` (a shared pointer: a cell, whose content is the id), `m_inited`, `m_reply`.  Per session: the ids in
use, ids to clean up, `m_max_pstmt`, what is known of server support (`ps`), the current result, and the
arguments in the protocol's Execute message, which persists between executions.  `server` holds what is
prepared there.  `last` records what the last `execute()` did; no action reads it.

*Actions.*  Creating, copying and destroying operations; `SetDef` (all calls that change the definition and
reset the prepare state); `set_limit`, `clear_limit`, `set_offset`, `clear_offset`; `add_param`; dropping a result; and
`execute()`, with the construction of the result object, as `ExecuteDirect`, `ExecutePrepare` (not sent,
refused and retried directly, done), `ExecutePrepared` (sent, unsupported and retried, nothing sent),
`ExecuteBlocked` (the current result throws) and `ExecuteAgain` (a previous `execute()` threw).

*Abstractions.*  A definition is an opaque value with the parameters it refers to, or one of the two kinds
that cannot be sent.  Parameter names are numbers, as the code sorts them.  Placeholder positions are
computed as the code does.  The session stays open and is used by one thread.  When a reply is left
unread in the stream (`unread`), no further `execute()` is modelled.

### ResultImpl

*State.*  One record `res` holds the members of `Result_impl` (a cache, a meta-data entry and a size per result
set read, `m_pending_rows`, `m_inited`, ...), the state of its statement and cursor, and what the session has
registered as its current result (`current`: this one, another one, none).  `storing` says on whose behalf
`store_all_results()` runs, `out` what the last call of the application returned.

*Actions.*  A method is an operator that takes the record to the record after the call, with the value and
the exception.  The calls are `NextResult`, `GetRow`, `Count`, `HasData`, `Delete`, `GetWarnings`; `OtherCommand` is
another command, or the release of the session, which has to store this result first.
`store_all_results()` takes one step per round of its loop (`StoreRound`).

*Abstractions.*  A row is its place in the reply and whether the row filter accepts it.  Fields and meta-data
have no content.

*Refinement.*  `ResultAbstract` has neither cache, cursor nor session: the application is at a result set and has
taken some of its rows.  The mapping reads the result set from the front of the cache queue, and the rows
taken as those received without those still cached.  It says when an error is due (`Due`): once the rows before
it are taken, a fetch or a count must report it and may not answer "no more rows" or a number.  Two exceptions
of the code are written into it, as narrow as they are there.  In front of a whole batch of rows that the filter
rejects a fetch answers "no more rows" (`Gap`); the next fetch goes on after the batch.  And
`Doc_result_detail::iterator_next()` looks for errors after it has taken a document, so that an error read
ahead comes in place of that document, which is lost (`FetchError`).

### StmtPipeline

*State.*  The members of `Expectation` (`m_exp_state`, `m_exp_op`, `m_expectation_error`), `Prepared` (`m_stmt_id`,
`m_prepare_error`), `Stmt_op` (`m_state`, `m_discard`) and `Rcv_result` (`m_result_state`, whether columns were
counted); the protocol field of the session; the diagnostic entries; the requests not yet answered and the
replies not yet read; `seen`, a record of which layer read which reply.

*Actions.*  A call of `do_cont()`, cut where it exchanges something with the stream: sending the three parts
of the block, reading a reply in each layer, returning early (`NotArrived`, only when the transport does not
wait), the moves between states that read nothing.  Then what the application may do: read a row, discard
a result set, go to the next one, discard all; and the next statement of the session.

*Abstractions.*  A message is its type.  `do_next_msg` is the grammar of `Rcv_result_base`.  A message is
written and read in one step.  The server (external) answers in order and may fail at any place.

### Protocol

*State.*  `w` is the writing half of one `Protocol_impl` (write buffer and its size, pipeline flag, the write
operation in progress), `r` the reading half of another (message state, bytes still needed, read buffer and
its size, the type and size of the message, the compressed frame being unpacked), `op` the receive operation
`Op_rcv`, `stream` the bytes on the way.  `pending`, `sent` and `got` are histories of messages.

*Actions.*  `StartPipeline`, `SndStart` and `SndFails` (no room in the buffer), `SndPipeline`; `WrCont` and `RdSome` move
any number of bytes; `Combine` is a server that puts several messages in one compressed frame; `RcvStart`,
`MoreHeader`, `StopHere`, `Header` and `PayloadRead` are the stages of the receive operation, with every answer of
the processor, exceptions included.  An operation may stop before a message, whose header the next
operation processes again.

*Abstractions.*  Bytes are cells: the length of a frame is one, its type one, a payload of n units n.  Compressed
data is one cell with the content followed by filler.  Memory allocation succeeds.

*Refinement.*  `MessageStream` has only the messages sent and the messages received.

### Connect and CdkSession

`CdkSession` extends `Connect`: its behaviours start with the visit of the data sources and go on, when a session
is established, with the use of that session.

*State of Connect.*  The iteration of `Multi_source::visit()` (`left`, `same_prio`, `host`), the stage of the
attempt, the compression proposals not answered, `secure`, `compression`, `m_auth` (method and state of
`SessionAuth`), `m_isvalid`, and what the server has agreed to.  `tried`, `filtered` and `reports` are histories.

*Actions of Connect.*  Choosing a source (`NextGroup`, `Pick`, `NoneLeft`), connecting or not, TLS negotiation,
one step per compression reply, attributes, authentication with its second method, and an exception
at every stage.  `ep_filter()` of the pool accepts any subset of the sources.

*State of CdkSession.*  Per statement its `m_state`, `m_discard`, whether it has a cursor and whether it is
registered; the linked list `prev`, `next`, `m_last_stmt`; the protocol field; the call in progress as its
remaining steps; the parts of replies not read; whether the connection holds.

*Actions of CdkSession.*  The application creates statements, waits for them in any order, opens and reads
cursors, skips or discards results, destroys statements, resets and closes the session.  A step of a call is
its work up to the next exchange with the server.  `do_cont()` first continues the statements before it, as
the code's recursion does (`Frames`).  An exception ends the call at that place.  A broken connection
that `cont()` notices leaves an error in every statement on the call stack; one that the `wait()` in
`Stmt_op::do_wait()` notices, outside the handler in `do_cont()`, leaves the statement as it was, and a
destructor that then waits for it ends the program (`Broken`, `Terminates`).

*Abstractions.*  Statements are plain ones (those with an expectation block or a prepare step are in
`StmtPipeline`), used by one thread.  The parts of a reply are "a result set", "more follow", "end", "ok" and "error".
Passwords, hashes and certificates have no content.

### Composition

The modules meet at these interfaces.

- `CdkSession` composes connecting and using a session in one state space.
- `SessionPool` sees of connecting that an end point fails or not and is reported once; `AttemptsReported` shows
  that of `Connect`.  It sees of a reset that the session is valid afterwards or dropped; `ValidMeansAuthenticated`
  shows that of `CdkSession`.  It sees of an operation that it runs under the session lock and leaves a result
  of one of four kinds.
- `OpExecution` sees of a statement only whether it was prepared and what its first error was; `StmtPipeline` shows
  that this first error is the one `Op_base::wait()` needs if the statement was sent (`FirstErrorTells`) and that nothing is left over for
  the next statement (`NothingLeft`).  It takes for granted that a result which is not registered was
  read; `ResultImpl` shows it (`FreeMeansRead`).
- `ResultImpl` uses the states of `Stmt_op` that `StmtPipeline` and `CdkSession` derive from the messages.
- `StmtPipeline` and `CdkSession` read messages in order; `Protocol` shows that they arrive so (`Implements`).

These are arguments across modules: the interfaces are matched by reading, not by one state space.

## 3. Runs

State counts are distinct states found by TLC.

| Run | Instance | Checks | Result |
|---|---|---|---|
| `pool` | 3 threads, 2 sessions, 2 end points, size 1 or 2, pooling on or off | `HandlerIsUser`, `SizeBound`, `PoolEntriesValid`, `NoLeak`, `NullOnlyWhenFull`, `AllocatesSessions`, `BlockListedIsLastResort` | hold; 3,055,940 states |
| `pool_live` | 2 threads, 2 sessions, size 1, pooling on or off, fair | `CloseTerminates`, `CloseWakesWaiters` | hold; 30,304 |
| `pool_lost_wakeup` | 2 threads, size 1 | `NoLostWakeup` | violated |
| `op` | up to 3 operations, five kinds of application and server (`AllSettings`) | `TypeOK`, `IdsAccounted`, `NoServerLeak`, `CapRespected`, `PreparedRight`, `UnsupportedIsFinal` | hold; 1,458,017 |
| `op_not_sent` | 2 operations, results that hold errors | `ExecuteSends` | violated |
| `op_placeholder` | 2 operations, parameters bound freely | `PlaceholdersRight` | violated |
| `result` | replies with 0 to 3 result sets of 0 to 5 rows, rejected rows alone and in whole batches, all ends; 2 rows read ahead | `FreeMeansRead`, `ConsumedDeregistered`, `Implements`, `StoringEnds` | hold; 26,796 |
| `stmt_sync` | all kinds of statements in sequence, both transports, five replies and an error at every place of them | `TypeOK`, `RepliesMatched`, `NoProtocolError`, `FirstErrorTells`, `NothingLeft`, `FieldRight`, `Completes` | hold; 6,879 |
| `stmt_race` | prepare and execute on a transport that returns early | `PrepareReplyFirst` | violated |
| `wire` | up to 3 messages, plain (with pipelines) or compressed, two in a frame | `PayloadFits`, `FrameHolds`, `Implements`, `Arrives` | hold; 151,757 |
| `wire_append` | a pipeline of 2 messages, compressed | `AppendsMessage` | violated |
| `session` | 4 data sources, 4 sets of options, 3 statements | `TypeOK`, `TriedInOrder`, `AttemptsReported`, `CompressionPreferred`, `SecureAsAsked`, `ValidMeansAuthenticated`, `ListLinked`, `RepliesInOrder`, `CleanSlate`, `CallsEnd` | hold; 959,859 |

Deadlock is checked except in `result`, `wire`, `wire_append` and `session`, where the system may stop: the result
is deleted, the messages or statements of the instance are used up, no session could be connected.

### What they show

*Pool.*  To its users the pool is an allocator (`AllocatesSessions`): no session is ever used by two threads, not more
than `m_max` are used, and none is given out after `close()`, whichever steps of getting, releasing and closing
interleave.  No session is lost or left open without an owner; a pool entry's handler is the object that
uses the session; a thread is sent to wait only if every session is really in use by someone else; a
block-listed end point is used only when no other will do.  `close()` ends although it blocks on session locks
with the pool mutex held, because no holder of a session lock needs that mutex, and it wakes every thread
that waits.

*Operations.*  For an application that executes complete operations and binds only parameters they use,
what a prepared execution runs on the server is always what the operation means at that moment, with its
own arguments, however copies share and redefine it.  For every application, ids are accounted for, no
prepared statement is forgotten on the server, and the learned limits are kept.

*Results.*  Reading ahead, storing for another command and skipping never repeat or reorder a row, move one to
another result set or miscount, and an error that is due is reported, never replaced by the end of the rows or
by a number.  No row is passed over, except a document in whose place an error is reported; "no more rows" is
the truth, except in front of a rejected batch.  The session becomes free exactly when the reply was read; only a reply that ends in an error leaves its result
registered (`common/result.cc:232`).

*Statements.*  Each layer reads its own replies, the two state machines agree, a statement completes with
nothing left in the stream, and the first diagnostic entry of a statement that was sent names the first cause.
One that is refused without being sent has no entry at all (see below).  `Raceless` excludes one
situation: the first prepare-and-execute, while support is unknown, on a transport whose reads may return
early; `stmt_race` is about that one.

*Wire.*  Messages arrive once, unchanged and in order, whatever the pieces in which the bytes travel and wherever
receive operations stop and resume; buffers are large enough.  Pipelines are explored without compression
only; `wire_append` is about the two together.

*Session.*  Sources are tried in the order of priority and weight and each attempt is reported once; both sides
use the preferred compression; a session that counts as valid is authenticated, also after a reset that
was interrupted; when TLS is required, the connection uses TLS or is a Unix socket, which the code counts
as secure (`SecureAsAsked` is about `is_secure()`, not about encryption); the list of statements stays linked
in the order of creation, and each statement reads its own reply.  `CallsEnd` has an exception, `BlockedFurtherUp`: `do_wait()` notices an unread result of the statement right
before the one waited for, but not one further up the list, and then goes round its loop for ever.
A call may also end with the program, when a destructor throws.

### Where the code and what is said about it disagree

1. `pool_lost_wakeup`: `do_wait()` asks for a session without `m_reelase_mutex` and `release_session()` notifies
   without it.  A release in between goes unnoticed, and the thread sleeps until its timeout with a
   session available.  `common/session.cc:769`.  That timeout is 10 minutes by default
   (`common/session.h:221`), where `include/mysqlx/devapi/settings.h:895` says "By default it doesn't timeouts."
2. `op_not_sent`: `init()` sets `m_inited` first; if storing the previous result throws, the next `execute()` of
   the operation returns an empty result and sends nothing.  `common/op_impl.h:222`.
3. `op_placeholder`: positions are fixed at prepare time; binding a further name afterwards shifts the
   arguments.  `cdk/protocol/mysqlx/builders.h:1175`.
4. `stmt_race`: if the reply to Expect_Open is not there at once, `Prepared::do_cont()` resumes that receive
   operation as if it were for the reply to Prepare.  `cdk/mysqlx/stmt.h:508`.
5. `wire_append`: `write_msg()` serializes a message behind those of the pipeline but compresses from the start of
   the pipeline.  A large message that is not the first is sent as a copy of other bytes.
   `cdk/protocol/mysqlx/protocol.cc:407`.

The models contain further places of this kind that no run is about:

- When storing a pending result throws, `close()` erases the entry without closing the session, which its user
  can go on using (`CloseErase`; `common/session.cc:828`).
- `get_row()` takes an empty cache for the end of the rows, also when the filter rejected a whole batch
  (`common/result.cc:267`, `:369`), where `common/result.h:869` says "Returns NULL if there are no more rows".  A
  list of tables or collections, which stops at the first null, is then cut short.  `Implements` allows this (`Gap`).
- A document that was read before an error arrived in the same batch is dropped when the error is reported
  (`devapi/result.cc:689`); `Implements` allows it (`FetchError`).
- A statement for a feature that the session knows to be unsupported is complete from the start
  (`cdk/mysqlx/stmt.h:141`), so that `do_cont()` never adds the error (`stmt.h:157`); the comment at `stmt.h:69`
  says "error is stored on diagnostics arena when operation is executed".  `FirstErrorTells` leaves it out (`Refused`).
- With TLS required, a Unix socket among several hosts is used without TLS: only a single socket is refused
  (`common/session.cc:338`, `:471`).  `include/mysqlx/common_constants.h:190` says that the attempt fails "if a
  secure connection cannot be established", and that with VERIFY_CA it fails without valid CA certificates.
- After `connect()` has succeeded an error ends the search (`Fail`), where `cdk/core/session.cc:429` says "Otherwise
  `ep_filter(id,NO)` is called and next data source is tried".
- When only sources of weight 0 are left in a group, the distribution is built from zeros, for which the standard
  defines no result (`Pickable`; `cdk/include/mysql/cdk/data_source.h:616`).
- A pipeline that finds no room for a message is dropped (`SndFails`; `cdk/protocol/mysqlx/protocol.cc:606`).
- The destructor of a statement may throw, which ends the program (stage "aborted";
  `cdk/include/mysql/cdk/mysqlx/result.h:452`).  After a failed `wait()` on a plain socket it does, as the statement
  is not completed (`cdk/mysqlx/result.cc:236`).
- A wait behind an unread result further up the list does not end (`BlockedFurtherUp`; `cdk/mysqlx/result.cc:245`).

### Bounds

- *Threads and sessions.*  Three threads are one that holds a session, one that releases and one that waits,
  with `close()` as a fourth actor.  Two sessions fill the larger pool, and with two end points one can be
  block-listed while the other is not.  The proofs remove these bounds for the properties they cover.
- `MaxId` = 3 ids and as many cells as operations: an operation holds at most one id, so three operations
  never need more than that many at a time.  An `execute()` that would need an id above `MaxId` is not
  explored.  `MaxPstmt` = 9 stands for the largest `size_t` and is out of reach of the ids.
- `Settings` restrict what one application does within a behaviour, so that each kind of interaction is covered
  in full: changing definitions under a limit; all limit and offset calls on one definition; three operations
  and copies; failures of every kind; no server support.
- `Prefetch` = 2 stands for 16: result sets of 0 to 5 rows are smaller than, equal to and larger than one and two
  batches, and rejected batches stand before a row, between two and at the end.
- `StmtPipeline`: replies have no, one and two result sets, an empty one, and a missing last one; errors are added
  at every place.  There is no bound on the number of statements.
- `Protocol`: the initial buffer (5 cells) and the threshold (3) lie between the sizes of the messages, so that
  buffers grow and both sides of the threshold occur.  `MaxMsgs` = 3 messages allow a message before and
  one after a compressed frame or a stop.
- `session`: a source alone in its priority and three that share one, with and without weight, one of them a
  socket.  Three statements are the least that have one further up than the previous one; they have two
  result sets, one (or an error), and none.  Each is created once.
- *Symmetry* is used for threads, sessions and operations, which no definition tells apart, and only in
  runs without fairness.  `VIEW WithoutLast` leaves out a variable no action reads; the properties of
  `op` refer to it only primed, in the step that assigns it.

### Fairness

`SessionPool!LiveSpec`: a thread inside a library function keeps running (weak fairness of `Runs`), and so does
`close()`; who waits for a mutex that is free again and again gets it (strong fairness of `GetSession`,
`ReleaseSession`, `CloseLock`).  The standard does not promise fair mutexes, but the schedulers the library
runs on do not starve a waiter for ever.  Nothing is assumed of the application: it need not start, end or
close anything.  An operation that runs under the session lock ends (`EndOp` is part of `Runs`), that is,
the server answers or the connection fails.  Time need not pass, so that `CloseWakesWaiters` does not rely on
timeouts.

`StmtPipeline!Fairness`: the server answers (weak fairness of `Serve`), and the client goes on (weak fairness
of `Client`): `wait()` calls `do_cont()` in a loop, and the destructor of a statement discards what the
application has not read.

`ResultImpl`: weak fairness of `StoreRound`, a loop that nothing interrupts.  `Protocol`: weak fairness of `WrCont` and
of `Reading`, as `wait()` calls `wr_cont()` and `rd_cont()` in loops.  `CdkSession`: weak fairness of `InCall`: a call in
progress goes on, and the server answers what was sent; whether the application makes another call is
left open.

## 4. Proofs

For any sets of threads, sessions, end points, operations, definitions, parameters and replies (sessions,
operations and parameters finite):

| Module | Theorem | States |
|---|---|---|
| `SessionPoolProofs` | `TypeCorrect` | `Spec => []TypeOK` |
| | `Exclusion` | `Spec => []ExclusiveUse` |
| | `HandlerMatches` | `Spec => []HandlerIsUser` |
| | `EntriesValid` | `Spec => []PoolEntriesValid` |
| | `LeakFree` | `Spec => []NoLeak` |
| | `SizeBounded` | `Spec => []SizeBound` |
| | `WaitsOnlyWhenFull` | `Spec => NullOnlyWhenFull` |
| | `ClosedStaysClosed` | `Spec => ClosedForGood` |
| `PoolRefinement` | `PoolImplementsAllocator` | `Spec => AllocatesSessions` |
| | `BlockListRespected` | `Spec => BlockListedIsLastResort` |
| `OpProofs` | `AllIdsAccounted` | `Spec => []IdsAccounted` |
| | `NothingLeaks` | `Spec => []NoServerLeak` |
| | `CapHolds` | `Spec => []CapRespected` |
| | `NoStaysNo` | `Spec => UnsupportedIsFinal` |
| | `ExecutesTheRightStatement` | `Spec => PreparedRight` |
| `ResultProofs` | `FreeAfterReading` | `Spec => []FreeMeansRead` |
| | `FreeOnceRead` | `Spec => []ConsumedDeregistered` |

`ExclusiveUse` and `ClosedForGood` are no properties of a run: `AllocatesSessions`, which is one, implies them.

*Assumptions.*  `PoolAssumption`: sizes are positive numbers, there is an end point, `NULL` is neither a thread nor
a session, and the set of sessions is finite (needed for cardinalities).  `OpAssumption` and
`ResultAssumption`: the constants have their types, operations and parameter names are finitely many, the
special values differ from the others, and a server's replies are of the form described.  TLC evaluates all of them in the runs.

### SessionPoolProofs

All rest on one inductive invariant (`Inductive`):

    IInv == TypeOK /\ HeldWhileUsing /\ ExclusiveUse /\ HandlerIsUser
            /\ PoolEntriesValid /\ NoLeak /\ CloseState /\ ClosedEmpty

The conjuncts support each other.  `HandlerIsUser` needs `ExclusiveUse`: `release_session()` removes the handler,
which is right only if nobody else holds the session.  It also needs `HeldWhileUsing` (a thread that asks for a
session holds none), since handing over a session overwrites `held`; so does `NoLeak`, or the overwritten
session would be lost.  `NoLeak` needs `HandlerIsUser` and `CloseState` as well: what `close()` erases without
closing it must have a user who destroys it later, and that it has a handler shows this only while it is
still in the pool, although `close()` collected its entries earlier.  `PoolEntriesValid` needs `ClosedEmpty`,
because after `close()` a released session is destroyed without a look at `m_pool`.

The preservation proof has one lemma per group of actions (`GetSessionStep`, `ThreadStep`, `ReleaseCheckStep`,
`ReleaseSessionStep`, `ClosePoolStep`, `ClockStep`), which share lemmas on what their effects have in common:
`QuietStep` (ownership unchanged), `HandStep` (a session changes hands), `DropStep` (idle sessions leave the pool),
`EraseStep` (`close()` removes an entry).  `SizeBound` is proved from `IInv` and the size tests in front of both
places that create a session; the action properties follow from `IInv` step by step.

### PoolRefinement

The refinement needs one thing more: that sessions in use are counted by the pool.

    RInv == IInv /\ SizeBound /\ HeldInPool /\ DisabledEmpty

`HeldInPool` says so until `close()` starts to erase entries, after which none is handed out.  `Effects` shows that
every step takes, gives back or drops sessions, closes the pool or does none of this; `TakeMaps`, `GiveMaps` and
`NextMaps` show that each is a step of the allocator.  The bound on the sessions held is the cardinality of a
subset of `m_pool`.

### OpProofs

    IInv == IdTypes /\ Accounted /\ NoHolder /\ Support /\ NoServerLeak /\ CapRespected

The many actions have six kinds of effect on the ids: none, a copy shares one, one is released, all support
is given up, one is acquired, a prepare is refused.  `StepEffect` shows that every step has one of them, and one
lemma per kind (`KeptCore`, `CopiedCore`, ...) that it preserves the invariant.  `IdsAccounted` is not inductive:
that a new operation finds no id needs `NoHolder`, and that giving up support leaks nothing needs `Support`.

    PInv == IInv /\ OpTypes /\ Right

`Right` says that whenever an operation counts as prepared, the server has the statement it stands for at
this moment under its id, and its parameters are bound.  `ExecuteRight` shows it of an execution, `OthersKept` of
the operations that do not take part, which holds because ids are shared only between copies (`Accounted`).
`PreparedRight` follows at the moment of execution, under the same condition on the application as in the run.

### ResultProofs

    Inv == IsReply /\ Good(res),   Good(r) == IsResult(r) /\ Free(r) /\ Over(r)

`Free` and `Over` are the two properties for a record, so that they can be stated for the intermediate results of
the methods.  There is a lemma for each method (`ReadNextResultGood`, `LoadCacheGood`, `GetRowGood`, ...) that
it takes good records to good ones; the step of the specification combines them.

### Only model-checked

- The liveness properties: fairness and ENABLED are out of the prover's reach.
- Everything about `StmtPipeline`, `Protocol`, `Connect` and `CdkSession`, and `TypeOK` of `OpExecution`.
- The refinements `Implements` of `ResultImpl` and `Protocol`: they need induction over sequences of rows and bytes,
  which the provers do not have.

## 5. Not modelled

- The content of statements, documents and values, their encoding, the parsers and the validation of
  connection settings: functions without state between calls.
- The public APIs `devapi/` and `xapi/` as components of their own: their calls are the application steps of the
  modules.  The ownership of C handles is left out.
- Prepared statements in a list with others: `StmtPipeline` has one statement at a time, `CdkSession` only plain ones.
- Undefined behaviour when `close()` meets a `Session_impl` under construction or destruction.  The model keeps
  track of it (`impl`) but goes on as if the object existed.
- A server that answers against the protocol, or that refuses to deallocate a statement; notices.
- Failing memory allocation, DNS queries, system calls, cryptography.
- The JDBC-style driver `jdbc/`, a separate product over the C client library.
- The bundled libraries in `cdk/extra/` (protobuf, rapidjson, zlib, zstd, lz4), third-party code.

The last two make up most of the repository: about 370,000 lines are bundled libraries and 56,000 the JDBC-style
driver.  The definitions map some 5,100 lines, about 1 % of all lines.  They lie where the X DevAPI connectors keep
state between calls; headers of interfaces, encoders, parsers and wrappers make up the rest of these
connectors.

## 6. Plan

1. One module for a prepared statement behind others in the list: `StmtPipeline` with the list of `CdkSession`.
2. Proofs of `RepliesMatched` and `FieldRight` for `StmtPipeline`, and of `ListLinked` for `CdkSession`.
3. Handles of the C API: which handle owns which object, and what freeing one invalidates.
4. The rules of the connection settings as pure operators against a table of allowed combinations.
5. The JDBC-style driver, starting with prepared statements and their result sets.
