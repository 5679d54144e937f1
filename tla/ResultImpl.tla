----------------------------- MODULE ResultImpl -----------------------------
(***************************************************************************)
(* A result object and its row cache: Result_impl (common/result.cc and    *)
(* result.h) on top of the reply of one statement (Stmt_op and Cursor,     *)
(* cdk/mysqlx/result.cc), registered with a session that executes other    *)
(* commands in between (common/session.cc).                                *)
(*                                                                         *)
(* Rows are read ahead into a queue of caches, one cache per result set.   *)
(* The application reads from the front of the queue, the reply is read    *)
(* into its back, and a command that needs the connection stores all that  *)
(* is left of the reply.  All of it happens under the lock of the session  *)
(* and, as the result documentation asks, in one thread.                   *)
(*                                                                         *)
(* The members of the object, and the state of its reply, are one record;  *)
(* a method is an operator that returns the record after the call, with    *)
(* the value returned in ret and an exception in exc.                      *)
(***************************************************************************)
EXTENDS Naturals, Sequences, SequencesExt

CONSTANTS
  Replies,   \* replies of the server: result sets, and how the reply ends:
             \* "ok", "more" (announces a result set and has none, as after
             \* a stored procedure), "rows_error" (error after the rows of
             \* the last result set) or "next_error" (error in place of the
             \* next result set)
  Prefetch   \* rows to read ahead (16 in the code)

(* A row: its place in the reply, and whether it passes the filter.        *)
ServerRows == [id : Nat \X Nat, keep : BOOLEAN]

ASSUME ResultAssumption ==
  /\ Prefetch \in Nat \ {0}
  /\ \A rep \in Replies :
       /\ rep.sets \in Seq(Seq(ServerRows))
       /\ rep.end \in {"ok", "more", "rows_error", "next_error"}
       /\ rep.sets = <<>> => rep.end = "ok"

VARIABLES
  reply,             \* what the server sends
  kind,              \* "sql" (SqlResult and C results) or "doc" (DocResult)
  res,               \* the result object
  storing,           \* on whose behalf store_all_results() runs, or "no"
  out                \* what the last call of the application returned

vars == <<reply, kind, res, storing, out>>

Bool(b) == [type |-> "bool", value |-> b]
Number(n) == [type |-> "number", value |-> n]
None == [type |-> "none"]
Null == [type |-> "null"]
Error == [type |-> "error"]

-----------------------------------------------------------------------------
(* The reply: Stmt_op after its command was sent.                          *)

Sets == Len(reply.sets)

(* Stmt_op::done() and what follows: the state after the last row.         *)
AfterRows(r) ==
  CASE r.rset < Sets \/ reply.end \in {"more", "next_error"} -> "NEXT"
    [] r.rset = Sets /\ reply.end = "ok" -> "DONE"
    [] r.rset = Sets /\ reply.end = "rows_error" -> "ERROR"

(* Stmt_op::check_results()                                                *)
check_results(r) == r.state \in {"ROWS", "NEXT"}

(* Stmt_op::next_result(), from Reply::has_results(): the next result set  *)
(* if the reply is in between two.                                         *)
stmt_next_result(r) ==
  IF r.state # "NEXT" THEN r
  ELSE IF r.rset < Sets THEN [r EXCEPT !.state = "ROWS", !.rset = @ + 1, !.got = 0]
  ELSE [r EXCEPT !.state = IF reply.end = "more" THEN "DONE" ELSE "ERROR"]

(* Reply::entry_count() > 0                                                *)
HasErrors(r) == r.state = "ERROR"

(* Cursor::close(), with Stmt_op::discard_result(): what is left of the    *)
(* result set is skipped.                                                  *)
close(r) == IF r.state = "ROWS" THEN [r EXCEPT !.state = AfterRows(r)] ELSE r

-----------------------------------------------------------------------------
(* Session_impl::deregister_result()                                       *)
deregister_result(r) ==
  IF r.current = "this" THEN [r EXCEPT !.current = "none"] ELSE r

(* Result_impl::pop_row_cache()                                            *)
pop_row_cache(r) ==
  IF r.cache = <<>> THEN r
  ELSE [r EXCEPT !.mdata = Tail(@), !.cache = Tail(@), !.size = Tail(@), !.cache_it = "end"]

(* Result_impl::push_row_cache()                                           *)
push_row_cache(r) ==
  [r EXCEPT !.mdata = Append(@, r.rset), !.cache = Append(@, <<>>), !.size = Append(@, 0)]

Return(r, value) == [r EXCEPT !.ret = value]
Throw(r) == [r EXCEPT !.exc = TRUE]

(* The steps of read_next_result() that move on in the reply.              *)
Advance(r) ==
  LET closed == [IF r.pending THEN close(r) ELSE r EXCEPT !.pending = FALSE, !.inited = TRUE]
  IN stmt_next_result(closed)

(* Mutant: the result stays registered.                                    *)
read_next_result_registered(r) ==
  LET next == Advance(r)
  IN IF check_results(next)
     THEN Return([push_row_cache(next) EXCEPT !.pending = TRUE], TRUE)
     ELSE IF HasErrors(next) THEN Throw(next)
     ELSE Return(next, FALSE)

(* Result_impl::read_next_result()                                         *)
read_next_result(r) ==
  LET next == Advance(r)
  IN IF check_results(next)
     THEN Return([push_row_cache(next) EXCEPT !.pending = TRUE], TRUE)
     ELSE IF HasErrors(next) THEN Throw(next)
     ELSE Return(deregister_result(next), FALSE)

(* Result_impl::next_result()                                              *)
next_result(r) ==
  LET popped == pop_row_cache(r)
  IN IF popped.cache # <<>> THEN Return(popped, TRUE) ELSE read_next_result(popped)

(* Mutant: rows are put in front of those in the cache.                    *)
Store_front(r, rows) ==
  LET kept == SelectSeq(rows, LAMBDA row : row.keep)
      n == Len(r.cache)
  IN [r EXCEPT !.got = @ + Len(rows),
               !.cache[n] = kept \o @,
               !.size[n] = @ + Len(kept)]

(* Row_processor callbacks of Result_impl: rows that pass the filter are   *)
(* put into the last cache, after the place m_cache_it points at.          *)
Store(r, rows) ==
  LET kept == SelectSeq(rows, LAMBDA row : row.keep)
      back == Last(r.cache)
      n == Len(r.cache)
  IN [r EXCEPT !.got = @ + Len(rows),
               !.cache[n] = IF r.cache_it = "last" THEN back \o kept ELSE kept \o back,
               !.size[n] = @ + Len(kept),
               !.cache_it = IF kept = <<>> THEN @ ELSE "last"]

(* Cursor::get_rows(), wait(): at most n rows, or all of them if n = 0.    *)
(* The end of the rows is seen when one more is asked for than there are.  *)
get_rows(r, n) ==
  LET rows == reply.sets[r.rset]
      left == Len(rows) - r.got
      end == n = 0 \/ n > left
  IN [Store(r, SubSeq(rows, r.got + 1, r.got + (IF end THEN left ELSE n)))
        EXCEPT !.pending = ~end]

(* Mutant: the session is free before the last result set was read.        *)
read_rows_free(r, n) ==
  LET placed == IF Last(r.cache) = <<>> THEN [r EXCEPT !.cache_it = "before_begin"] ELSE r
      read == get_rows(placed, n)
  IN IF read.pending THEN read ELSE deregister_result(close(read))

(* Result_impl::load_cache(), after the tests at its beginning.            *)
read_rows(r, n) ==
  LET placed == IF Last(r.cache) = <<>> THEN [r EXCEPT !.cache_it = "before_begin"] ELSE r
      read == get_rows(placed, n)
      closed == close(read)
  IN IF read.pending THEN read
     ELSE IF check_results(closed) THEN closed ELSE deregister_result(closed)

(* Result_impl::load_cache()                                               *)
load_cache(r, n) ==
  LET start == IF r.inited THEN r ELSE next_result(r)
  IN IF \/ start.exc \/ start.cache = <<>>
        \/ Last(start.cache) # <<>> /\ n # 0
        \/ ~start.pending
     THEN start ELSE read_rows(start, n)

(* Result_impl::Result_impl(): the command was sent and did not fail at    *)
(* once, the result registers itself.                                      *)
Constructed ==
  [state |-> IF reply.sets = <<>> THEN "DONE" ELSE "ROWS", rset |-> 1, got |-> 0,
   inited |-> FALSE, pending |-> FALSE, mdata |-> <<>>, cache |-> <<>>, size |-> <<>>,
   cache_it |-> "end", current |-> "this", ret |-> FALSE, exc |-> FALSE]

(* SqlResult and mysqlx_result_struct move to the first result set when    *)
(* they are constructed.                                                   *)
Init ==
  /\ reply \in Replies
  /\ kind \in {"sql", "doc"}
  /\ kind = "doc" => Sets <= 1 /\ reply.end \in {"ok", "rows_error"}
  /\ res = IF kind = "sql" THEN next_result(Constructed) ELSE Constructed
  /\ storing = "no"
  /\ out = None

-----------------------------------------------------------------------------
(* The application reads the result.                                       *)

(* A call that returns this record and value, or throws.                   *)
Call(r, value) ==
  /\ res' = [r EXCEPT !.exc = FALSE]
  /\ out' = IF r.exc THEN Error ELSE value
  /\ UNCHANGED <<reply, kind, storing>>

Ready == res.state # "deleted" /\ storing = "no"

(* SqlResult::nextResult(), mysqlx_next_result()                           *)
NextResult ==
  /\ Ready /\ kind = "sql"
  /\ LET r == next_result(res) IN Call(r, Bool(r.ret))

(* Result_impl::get_row()                                                  *)
FrontEmpty(r) == r.cache = <<>> \/ Head(r.cache) = <<>>

get_row(r) ==
  IF FrontEmpty(r) THEN IF HasErrors(r) THEN Throw(r) ELSE r
  ELSE [r EXCEPT !.cache[1] = Tail(@), !.size[1] = @ - 1]

(* RowResult::fetchOne(), DocResult::fetchOne(): the latter looks for      *)
(* errors also when it has got a document.                                 *)
GetRow ==
  /\ Ready
  /\ LET loaded == load_cache(res, Prefetch)
         r == IF loaded.exc THEN loaded ELSE get_row(loaded)
     IN Call(IF kind = "doc" /\ HasErrors(r) THEN Throw(r) ELSE r,
             IF FrontEmpty(loaded) THEN Null ELSE [type |-> "row", row |-> loaded.cache[1][1]])

(* Result_impl::count()                                                    *)
Count ==
  /\ Ready
  /\ LET r == load_cache(res, 0)
     IN Call(IF HasErrors(r) THEN Throw(r) ELSE r,
             Number(IF r.size = <<>> THEN 0 ELSE Head(r.size)))

(* Result_impl::has_data()                                                 *)
HasData == Ready /\ Call(res, Bool(~FrontEmpty(res) \/ res.pending))

(* Result_impl::~Result_impl(): deregisters, discards the rest of the      *)
(* reply.                                                                  *)
Delete ==
  /\ Ready
  /\ res' = [deregister_result(res) EXCEPT !.state = "deleted"]
  /\ UNCHANGED <<reply, kind, storing, out>>

-----------------------------------------------------------------------------
(* Result_impl::store_all_results(), one step for each round of its loop.  *)

(* Result_impl::get_warning_count()                                        *)
GetWarnings ==
  /\ Ready
  /\ storing' = "warnings"
  /\ UNCHANGED <<reply, kind, res, out>>

(* Another command of the session (Op_base::init()), or its release:       *)
(* Session_impl::prepare_for_cmd() stores the registered result.           *)
OtherCommand ==
  /\ storing = "no"
  /\ IF res.current = "this"
     THEN storing' \in {"command", "release"} /\ UNCHANGED res
     ELSE res' \in {[res EXCEPT !.current = c] : c \in {"other", "none"}} /\ UNCHANGED storing
  /\ UNCHANGED <<reply, kind, out>>

(* The end of store_all_results(): prepare_for_cmd() forgets the result    *)
(* and the new command registers its own; after an exception it does not.  *)
Stored(r) ==
  /\ res' = [r EXCEPT !.exc = FALSE,
                      !.current = IF r.exc \/ storing = "warnings" THEN @
                                  ELSE IF storing = "command" THEN "other" ELSE "none"]
  /\ out' = IF storing # "warnings" THEN out ELSE IF r.exc THEN Error ELSE None
  /\ storing' = "no"

(* Mutant: that there is no further result set does not end the loop.      *)
StoreRound_forever ==
  /\ storing # "no"
  /\ LET stored == load_cache(res, 0)
         r == IF stored.exc THEN stored ELSE read_next_result(stored)
     IN IF r.exc THEN Stored(r)
        ELSE res' = r /\ UNCHANGED <<storing, out>>
  /\ UNCHANGED <<reply, kind>>

StoreRound ==
  /\ storing # "no"
  /\ LET stored == load_cache(res, 0)
         r == IF stored.exc THEN stored ELSE read_next_result(stored)
     IN IF r.exc \/ ~r.ret THEN Stored(r)
        ELSE res' = r /\ UNCHANGED <<storing, out>>
  /\ UNCHANGED <<reply, kind>>

-----------------------------------------------------------------------------
Next ==
  \/ NextResult \/ GetRow \/ Count \/ HasData \/ Delete
  \/ GetWarnings \/ OtherCommand \/ StoreRound

(* store_all_results() is a loop that nothing interrupts.                  *)
Spec == Init /\ [][Next]_vars /\ WF_vars(StoreRound)

-----------------------------------------------------------------------------
(* Properties.                                                             *)

(* The result set the application is reading, and how many of its rows it  *)
(* has taken: those received from the server without those in the cache.   *)
CurrentSet ==
  IF res.mdata # <<>> THEN Head(res.mdata) ELSE IF res.inited THEN Sets + 1 ELSE 0

Kept(rows) == SelectSeq(rows, LAMBDA row : row.keep)

Taken ==
  IF res.mdata = <<>> THEN 0
  ELSE LET rows == reply.sets[CurrentSet]
           received == IF CurrentSet = res.rset THEN SubSeq(rows, 1, res.got) ELSE rows
       IN Len(Kept(received)) - Len(Head(res.cache))

Abstract == INSTANCE ResultAbstract WITH cur <- CurrentSet, taken <- Taken

(* The result object implements the simple sequence of result sets and     *)
(* rows of ResultAbstract: reading ahead, storing the rest of the reply    *)
(* for another command, for a warning count or for a row count, and        *)
(* skipping rows never repeat or reorder a row the application is to get,  *)
(* move one to another result set, miscount, or skip one without notice;   *)
(* and when the rows before an error are taken, fetchOne() and count()     *)
(* report it rather than the end of the rows or a number.                  *)
(* There are two exceptions, and no others: get_row() returns null in      *)
(* front of a batch of rows that m_row_filter rejects as a whole (the next *)
(* call goes on with the row after it), and the look for errors in         *)
(* Doc_result_detail::iterator_next() drops the document just taken.       *)
Implements == Abstract!Spec

(* When the session is free for other commands, the reply of this result   *)
(* was read to its end: the reply to the next command is not mistaken for  *)
(* the rest of this one (deregister_result() in load_cache(),              *)
(* read_next_result(), prepare_for_cmd()).                                 *)
FreeMeansRead == res.current # "this" => ~check_results(res)

(* store_all_results() ends: a command that has to wait for the rest of    *)
(* this result, whatever it is, gets its turn or an error.                 *)
StoringEnds == []<>(storing = "no")

(* A result whose reply was read to its end does not keep the session      *)
(* waiting: it is not registered any more (deregister_result() in          *)
(* load_cache() and read_next_result()), unless the reply ended in an      *)
(* error, which read_next_result() throws before it deregisters.           *)
ConsumedDeregistered ==
  res.inited /\ storing = "no" /\ ~check_results(res)
    => res.current # "this" \/ HasErrors(res)
=============================================================================
