---------------------------- MODULE ResultProofs ----------------------------
(***************************************************************************)
(* Proofs about ResultImpl: for every set of replies and every number of   *)
(* rows to read ahead, a result object keeps the session to itself as long *)
(* as its reply was not read to the end, and not longer.                   *)
(*                                                                         *)
(* Each method is an operator on the record of the object, so there is one *)
(* lemma for each method: it takes good records to good records.           *)
(***************************************************************************)
EXTENDS ResultImpl, TLAPS

(* The members of the record.                                              *)
Fields == {"state", "rset", "got", "inited", "pending", "mdata", "cache", "size",
           "cache_it", "current", "ret", "exc"}

(* The record of a result object. While the reply is not read to its end   *)
(* there is a result set that it is in.                                    *)
IsResult(r) ==
  /\ r = [x \in Fields |-> r[x]]
  /\ r.state \in {"ROWS", "NEXT", "DONE", "ERROR", "deleted"}
  /\ r.current \in {"this", "other", "none"}
  /\ r.inited \in BOOLEAN /\ r.pending \in BOOLEAN
  /\ r.ret \in BOOLEAN /\ r.exc \in BOOLEAN
  /\ check_results(r) => r.rset \in 1..Sets

(* FreeMeansRead and ConsumedDeregistered, of any record: the methods call *)
(* each other, so that the facts are needed in between too. While          *)
(* store_all_results() runs (storing # "no") Over holds all the same.      *)
Free(r) == r.current # "this" => ~check_results(r)
Over(r) == r.inited /\ ~check_results(r) => r.current # "this" \/ HasErrors(r)

(* What every method preserves.                                            *)
Good(r) == IsResult(r) /\ Free(r) /\ Over(r)

(* The reply is one of those considered.                                   *)
IsReply == reply \in Replies

(* A step that leaves the reply and the registration alone, such as one    *)
(* that only changes the row cache.                                        *)
Agrees(a, r) ==
  /\ IsResult(a)
  /\ a.state = r.state /\ a.current = r.current /\ a.inited = r.inited

(* The inductive invariant.                                                *)
Inv == IsReply /\ Good(res)

(* A step that only changes the row cache preserves what is to be shown.   *)
LEMMA AgreesGood ==
  ASSUME NEW a, NEW r, Good(r), Agrees(a, r)
  PROVE  Good(a)
BY DEF Good, Free, Over, Agrees, check_results, HasErrors

(* Session_impl::deregister_result() may be called once the reply is read  *)
(* to its end.                                                             *)
LEMMA DeregisterGood ==
  ASSUME NEW r, IsResult(r), ~check_results(r)
  PROVE  /\ Good(deregister_result(r))
         /\ deregister_result(r).state = r.state
         /\ deregister_result(r).current # "this"
BY DEF deregister_result, Good, Free, Over, IsResult, Fields, check_results

(* What the assumption on the replies of the server says of this one.      *)
LEMMA ReplyFacts ==
  ASSUME IsReply
  PROVE  /\ Sets \in Nat
         /\ reply.end \in {"ok", "more", "rows_error", "next_error"}
         /\ reply.sets # <<>> => 1 \in 1..Sets
BY ResultAssumption DEF IsReply, Sets, ServerRows

(* Cursor::close() moves on in the reply and changes nothing else; it does *)
(* nothing when the reply was read.                                        *)
LEMMA CloseGood ==
  ASSUME IsReply, NEW r, IsResult(r)
  PROVE  /\ IsResult(close(r))
         /\ close(r).current = r.current /\ close(r).inited = r.inited
         /\ close(r).pending = r.pending /\ close(r).exc = r.exc
         /\ ~check_results(r) => close(r) = r
<1>1. r.state = "ROWS" => AfterRows(r) \in {"NEXT", "DONE", "ERROR"}
  BY ReplyFacts DEF AfterRows, IsResult, check_results
<1>2. QED
  BY <1>1 DEF close, IsResult, Fields, check_results

(* Stmt_op::next_result() moves on in the reply and changes nothing else;  *)
(* it does nothing when the reply was read.                                *)
LEMMA NextResultGood ==
  ASSUME IsReply, NEW r, IsResult(r)
  PROVE  /\ IsResult(stmt_next_result(r))
         /\ stmt_next_result(r).current = r.current
         /\ stmt_next_result(r).inited = r.inited
         /\ ~check_results(r) => stmt_next_result(r) = r
<1>1. CASE r.state # "NEXT"
  BY <1>1 DEF stmt_next_result
<1>2. CASE r.state = "NEXT" /\ r.rset < Sets
  <2>1. stmt_next_result(r) = [r EXCEPT !.state = "ROWS", !.rset = r.rset + 1, !.got = 0]
    BY <1>2 DEF stmt_next_result
  <2>2. r.rset + 1 \in 1..Sets
    BY <1>2, ReplyFacts DEF IsResult, check_results
  <2> QED BY <1>2, <2>1, <2>2, Zenon DEF IsResult, Fields, check_results
<1>3. CASE r.state = "NEXT" /\ ~(r.rset < Sets)
  <2>1. PICK s \in {"DONE", "ERROR"} : stmt_next_result(r) = [r EXCEPT !.state = s]
    BY <1>3 DEF stmt_next_result
  <2> QED BY <1>3, <2>1 DEF IsResult, Fields, check_results
<1> QED BY <1>1, <1>2, <1>3

(* Result_impl::read_next_result(): the object is registered as long as    *)
(* there is more to read. It may have read the reply to the end before     *)
(* (Over is not assumed), and when it returns false there is nothing left. *)
LEMMA ReadNextResultGood ==
  ASSUME IsReply, NEW r, IsResult(r), Free(r)
  PROVE  /\ Good(read_next_result(r))
         /\ LET n == read_next_result(r) IN ~n.exc /\ ~n.ret => ~check_results(n)
<1>1. PICK base : base = IF r.pending THEN close(r) ELSE r
  OBVIOUS
<1>2. PICK closed : closed = [base EXCEPT !.pending = FALSE, !.inited = TRUE]
  OBVIOUS
<1>3. PICK next : next = stmt_next_result(closed)
  OBVIOUS
<1>4. IsResult(base) /\ base.current = r.current /\ (~check_results(r) => base = r)
  BY <1>1, CloseGood
<1>5. IsResult(closed) /\ closed.current = r.current /\ closed.inited
      /\ (~check_results(r) => ~check_results(closed))
  BY <1>2, <1>4, Zenon DEF IsResult, Fields, check_results
<1>6. IsResult(next) /\ next.current = r.current /\ next.inited
      /\ (~check_results(r) => ~check_results(next))
  BY <1>3, <1>5, NextResultGood
<1>7. read_next_result(r) =
        IF check_results(next)
        THEN Return([push_row_cache(next) EXCEPT !.pending = TRUE], TRUE)
        ELSE IF HasErrors(next) THEN Throw(next)
        ELSE Return(deregister_result(next), FALSE)
  BY <1>1, <1>2, <1>3, Zenon DEF read_next_result, Advance
<1>8. CASE check_results(next)
  <2>1. PICK pushed : pushed = push_row_cache(next)
    OBVIOUS
  <2>2. Agrees(pushed, next)
    BY <1>6, <2>1, Zenon DEF push_row_cache, Agrees, IsResult, Fields, check_results
  <2>3. PICK n : n = [pushed EXCEPT !.pending = TRUE]
    BY Zenon
  <2>4. Agrees(n, next)
    BY <2>2, <2>3, Zenon DEF Agrees, IsResult, Fields, check_results
  <2>5. read_next_result(r) = [n EXCEPT !.ret = TRUE]
    BY <1>7, <1>8, <2>1, <2>3 DEF Return
  <2>6. Agrees(read_next_result(r), next) /\ read_next_result(r).ret
    BY <2>4, <2>5, Zenon DEF Agrees, IsResult, Fields, check_results
  <2>7. Good(next)
    BY <1>6, <1>8 DEF Good, Free, Over
  <2> QED BY <2>6, <2>7, AgreesGood
<1>9. CASE ~check_results(next) /\ HasErrors(next)
  BY <1>6, <1>7, <1>9, Zenon DEF Throw, Good, Free, Over, IsResult, Fields, check_results, HasErrors
<1>10. CASE ~check_results(next) /\ ~HasErrors(next)
  <2>1. PICK n : n = deregister_result(next)
    OBVIOUS
  <2>2. Good(n) /\ n.state = next.state
    BY <1>6, <1>10, <2>1, DeregisterGood
  <2>3. read_next_result(r) = [n EXCEPT !.ret = FALSE]
    BY <1>7, <1>10, <2>1 DEF Return
  <2>4. Agrees(read_next_result(r), n)
    BY <2>2, <2>3, Zenon DEF Good, Agrees, IsResult, Fields, check_results
  <2>5. ~check_results(read_next_result(r))
    BY <1>10, <2>2, <2>4 DEF Agrees, check_results
  <2> QED BY <2>2, <2>4, <2>5, AgreesGood
<1> QED BY <1>8, <1>9, <1>10

(* Result_impl::pop_row_cache() only changes the row cache.                *)
LEMMA PopAgrees ==
  ASSUME NEW r, IsResult(r)
  PROVE  Agrees(pop_row_cache(r), r)
BY Zenon DEF Agrees, pop_row_cache, IsResult, Fields, check_results

(* Result_impl::next_result()                                              *)
LEMMA ClassNextResultGood ==
  ASSUME IsReply, NEW r, Good(r)
  PROVE  Good(next_result(r))
<1>1. PICK popped : popped = pop_row_cache(r)
  OBVIOUS
<1>2. Good(popped)
  BY <1>1, PopAgrees, AgreesGood DEF Good
<1>3. next_result(r) = IF popped.cache # <<>> THEN Return(popped, TRUE) ELSE read_next_result(popped)
  BY <1>1 DEF next_result
<1>4. Good(Return(popped, TRUE))
  BY <1>2, Zenon DEF Return, Good, Free, Over, IsResult, Fields, check_results, HasErrors
<1> QED BY <1>2, <1>3, <1>4, ReadNextResultGood, Zenon DEF Good

(* The row processor callbacks only change the row cache.                  *)
LEMMA StoreAgrees ==
  ASSUME NEW r, NEW rows, IsResult(r)
  PROVE  Agrees(Store(r, rows), r)
<1>1. PICK a, b, c, d :
        Store(r, rows) = [r EXCEPT !.got = a, !.cache = b, !.size = c, !.cache_it = d]
  BY Zenon DEF Store
<1> QED BY <1>1, Zenon DEF Agrees, IsResult, Fields, check_results

(* Cursor::get_rows() only changes the row cache and whether there are     *)
(* rows to come.                                                           *)
LEMMA GetRowsAgrees ==
  ASSUME NEW r, NEW n, IsResult(r)
  PROVE  Agrees(get_rows(r, n), r)
<1>1. PICK rows, end : /\ get_rows(r, n) = [Store(r, rows) EXCEPT !.pending = end]
                       /\ end \in BOOLEAN
  BY Zenon DEF get_rows
<1> QED BY <1>1, StoreAgrees DEF Agrees, IsResult, Fields, check_results

(* The part of Result_impl::load_cache() that reads: it deregisters the    *)
(* object exactly if that was the end of the reply.                        *)
LEMMA ReadRowsGood ==
  ASSUME IsReply, NEW r, NEW n, Good(r)
  PROVE  Good(read_rows(r, n))
<1>1. PICK placed : placed = IF Last(r.cache) = <<>> THEN [r EXCEPT !.cache_it = "before_begin"] ELSE r
  BY Zenon
<1>2. PICK read : read = get_rows(placed, n)
  OBVIOUS
<1>3. PICK closed : closed = close(read)
  OBVIOUS
<1>4. Good(placed)
  BY <1>1 DEF Good, Free, Over, IsResult, Fields, check_results, HasErrors
<1>5. Good(read)
  BY <1>2, <1>4, GetRowsAgrees, AgreesGood DEF Good
<1>6. /\ IsResult(closed) /\ closed.current = read.current
      /\ ~check_results(read) => closed = read
  BY <1>3, <1>5, CloseGood DEF Good
<1>7. check_results(closed) => Good(closed)
  BY <1>5, <1>6 DEF Good, Free, Over
<1>8. ~check_results(closed) => Good(deregister_result(closed))
  BY <1>6, DeregisterGood
<1>9. read_rows(r, n) =
        IF read.pending THEN read
        ELSE IF check_results(closed) THEN closed ELSE deregister_result(closed)
  BY <1>1, <1>2, <1>3 DEF read_rows
<1> QED BY <1>5, <1>7, <1>8, <1>9

(* Result_impl::load_cache()                                               *)
LEMMA LoadCacheGood ==
  ASSUME IsReply, NEW r, NEW n, Good(r)
  PROVE  Good(load_cache(r, n))
<1>1. PICK start : start = IF r.inited THEN r ELSE next_result(r)
  OBVIOUS
<1>2. Good(start)
  BY <1>1, ClassNextResultGood
<1>3. load_cache(r, n) \in {start, read_rows(start, n)}
  BY <1>1, Zenon DEF load_cache
<1> QED BY <1>2, <1>3, ReadRowsGood

(* A result object registers itself when it is constructed, whether its    *)
(* reply has result sets or not.                                           *)
LEMMA ConstructedGood ==
  ASSUME IsReply
  PROVE  Good(Constructed)
<1>1. Constructed.state = "ROWS" => 1 \in 1..Sets
  BY ReplyFacts DEF Constructed
<1> QED BY <1>1 DEF Constructed, Good, Free, Over, IsResult, Fields, check_results

(* The invariant holds when the application gets the result.               *)
LEMMA InitInv == Init => Inv
  BY ConstructedGood, ClassNextResultGood DEF Init, Inv, IsReply

(* The reply stays the same, so that only the object is to be looked at.   *)
LEMMA SameReply ==
  ASSUME IsReply, reply' = reply, Good(res')
  PROVE  Inv'
BY DEF Inv, IsReply, Good, IsResult, Free, Over, Sets, check_results, HasErrors

(* The end of a call by the application.                                   *)
LEMMA CallInv ==
  ASSUME IsReply, NEW r, NEW value, Good(r), Call(r, value)
  PROVE  Inv'
<1>1. res' = [r EXCEPT !.exc = FALSE] /\ reply' = reply
  BY DEF Call
<1>2. Good(res')
  BY <1>1, Zenon DEF Good, Free, Over, IsResult, Fields, check_results, HasErrors
<1> QED BY <1>1, <1>2, SameReply

(* Result_impl::get_row() after load_cache(), and an exception.            *)
LEMMA GetRowGood ==
  ASSUME NEW r, Good(r)
  PROVE  Good(get_row(r)) /\ Good(Throw(r))
<1>1. Agrees(Throw(r), r)
  BY Zenon DEF Good, Throw, Agrees, IsResult, Fields, check_results
<1>2. PICK a, b : [r EXCEPT !.cache[1] = Tail(@), !.size[1] = @ - 1] = [r EXCEPT !.cache = a, !.size = b]
  BY Zenon
<1>3. Agrees([r EXCEPT !.cache[1] = Tail(@), !.size[1] = @ - 1], r)
  BY <1>2, Zenon DEF Good, Agrees, IsResult, Fields, check_results
<1> QED BY <1>1, <1>3, AgreesGood DEF get_row

(* Every step preserves the invariant.                                     *)
LEMMA NextInv ==
  ASSUME Inv, [Next]_vars
  PROVE  Inv'
<1> USE DEF Inv
<1>1. CASE NextResult
  BY <1>1, ClassNextResultGood, CallInv DEF NextResult
<1>2. CASE GetRow
  <2>1. PICK loaded : loaded = load_cache(res, Prefetch)
    OBVIOUS
  <2>2. PICK r : r = IF loaded.exc THEN loaded ELSE get_row(loaded)
    OBVIOUS
  <2>3. Good(r)
    BY <2>1, <2>2, LoadCacheGood, GetRowGood
  <2>4. PICK value : Call(IF kind = "doc" /\ HasErrors(r) THEN Throw(r) ELSE r, value)
    BY <1>2, <2>1, <2>2, Zenon DEF GetRow
  <2> QED BY <2>3, <2>4, GetRowGood, CallInv
<1>3. CASE Count
  <2>1. PICK r : r = load_cache(res, 0)
    OBVIOUS
  <2>2. PICK value : Call(IF HasErrors(r) THEN Throw(r) ELSE r, value)
    BY <1>3, <2>1, Zenon DEF Count
  <2> QED BY <2>1, <2>2, LoadCacheGood, GetRowGood, CallInv
<1>4. CASE HasData
  BY <1>4, CallInv DEF HasData
<1>5. CASE Delete
  <2>1. PICK r : r = deregister_result(res)
    OBVIOUS
  <2>2. IsResult(r) /\ r.current # "this" /\ res' = [r EXCEPT !.state = "deleted"]
    BY <1>5, <2>1 DEF Delete, deregister_result, Good, IsResult, Fields, check_results
  <2>3. Good(res')
    BY <2>2 DEF Good, Free, Over, IsResult, Fields, check_results
  <2> QED BY <1>5, <2>3, SameReply DEF Delete
<1>6. CASE GetWarnings
  BY <1>6, SameReply DEF GetWarnings
<1>7. CASE OtherCommand
  <2>1. CASE res' = res
    BY <1>7, <2>1, SameReply DEF OtherCommand
  <2>2. CASE res.current # "this"
    <3>1. PICK c \in {"other", "none"} : res' = [res EXCEPT !.current = c]
      BY <1>7, <2>2 DEF OtherCommand
    <3>2. Good(res')
      BY <2>2, <3>1 DEF Good, Free, Over, IsResult, Fields, check_results
    <3> QED BY <1>7, <3>2, SameReply DEF OtherCommand
  <2> QED BY <1>7, <2>1, <2>2 DEF OtherCommand
<1>8. CASE StoreRound
  <2>1. PICK stored : stored = load_cache(res, 0)
    OBVIOUS
  <2>2. PICK r : r = IF stored.exc THEN stored ELSE read_next_result(stored)
    OBVIOUS
  <2>3. Good(r) /\ (~r.exc /\ ~r.ret => ~check_results(r))
    BY <2>1, <2>2, LoadCacheGood, ReadNextResultGood DEF Good
  <2>4. /\ reply' = reply
        /\ ((r.exc \/ ~r.ret) /\ Stored(r)) \/ res' = r
    BY <1>8, <2>1, <2>2, Zenon DEF StoreRound
  <2>5. CASE (r.exc \/ ~r.ret) /\ Stored(r)
    <3>1. PICK c : /\ res' = [r EXCEPT !.exc = FALSE, !.current = c]
                   /\ c = r.current \/ (c \in {"other", "none"} /\ ~r.exc)
      BY <2>5, Zenon DEF Stored
    <3>2. c # r.current => ~check_results(r)
      BY <2>3, <2>5, <3>1
    <3>3. Good(res')
      BY <2>3, <3>1, <3>2, Zenon DEF Good, Free, Over, IsResult, Fields, check_results, HasErrors
    <3> QED BY <2>4, <3>3, SameReply
  <2> QED BY <2>3, <2>4, <2>5, SameReply
<1>9. CASE UNCHANGED vars
  BY <1>9, SameReply DEF vars
<1> QED BY <1>1, <1>2, <1>3, <1>4, <1>5, <1>6, <1>7, <1>8, <1>9 DEF Next

(* The invariant holds all the time.                                       *)
THEOREM Inductive == Spec => []Inv
  BY InitInv, NextInv, PTL DEF Spec

(* For every reply and every number of rows to read ahead: when the        *)
(* session is free for other commands, the reply of the result was read to *)
(* its end (load_cache(), read_next_result() and prepare_for_cmd() never   *)
(* deregister a result too early).                                         *)
THEOREM FreeAfterReading == Spec => []FreeMeansRead
<1>1. Inv => FreeMeansRead
  BY DEF Inv, Good, Free, FreeMeansRead
<1> QED BY <1>1, Inductive, PTL

(* For every reply and every number of rows to read ahead: a result whose  *)
(* reply was read to its end does not keep the session waiting, unless the *)
(* reply ended in an error (load_cache() and read_next_result() never      *)
(* forget to deregister).                                                  *)
THEOREM FreeOnceRead == Spec => []ConsumedDeregistered
<1>1. Inv => ConsumedDeregistered
  BY DEF Inv, Good, Over, ConsumedDeregistered
<1> QED BY <1>1, Inductive, PTL
=============================================================================
