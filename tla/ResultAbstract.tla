--------------------------- MODULE ResultAbstract ---------------------------
(***************************************************************************)
(* What a result object promises to the application: the result sets of    *)
(* the reply one after the other and the rows of each in order, whatever   *)
(* else the session does in between.  There is no cache, no cursor and no  *)
(* session here (common/result.h and include/mysqlx/devapi/result.h are    *)
(* the interface described).                                               *)
(*                                                                         *)
(* Two exceptions of the code are part of the promise, as narrow as they   *)
(* are there: a fetch may answer "no more rows" in front of a whole batch  *)
(* of rejected rows (Gap), and a document can be lost to an error that     *)
(* comes after it (FetchError).                                            *)
(***************************************************************************)
EXTENDS Naturals, Sequences

CONSTANT Prefetch   \* rows in a batch

VARIABLES
  reply,   \* the reply: its result sets, each a sequence of rows, and how it ends
  kind,    \* "sql" for a result with several sets, "doc" for one with documents
  cur,     \* the current result set; 0 before the first, Len(reply.sets) + 1
           \* when there are no more
  taken,   \* rows of the current result set that the application has got
  out      \* what the last call returned

vars == <<reply, kind, cur, taken, out>>

Sets == Len(reply.sets)

Failed == reply.end \in {"rows_error", "next_error"}

(* The rows of result set i that the application is to see.                *)
Rows(i) == SelectSeq(reply.sets[i], LAMBDA row : row.keep)

(* A result that was not asked for yet is at its first result set.         *)
Here == IF cur = 0 THEN 1 ELSE cur

More == Here <= Sets /\ taken < Len(Rows(Here))

(* The error of the reply comes before anything else that could be read    *)
(* here.                                                                   *)
Due ==
  /\ Failed
  /\ Here > Sets \/ (Here = Sets /\ reply.end = "rows_error")

(* The filter rejects a whole batch of rows before the next row, or before *)
(* the end of the result set.                                              *)
Gap ==
  /\ Here <= Sets
  /\ LET rows == reply.sets[Here]
     IN \E p \in 0..Len(rows) :
          /\ p + Prefetch <= Len(rows)
          /\ Len(SelectSeq(SubSeq(rows, 1, p), LAMBDA row : row.keep)) = taken
          /\ \A j \in p + 1..p + Prefetch : ~rows[j].keep

Row == [type |-> "row", row |-> Rows(Here)[taken + 1]]
Bool(b) == [type |-> "bool", value |-> b]
Number(n) == [type |-> "number", value |-> n]
None == [type |-> "none"]
Null == [type |-> "null"]
Error == [type |-> "error"]

(* The constructor of a result with several sets moves to the first one.   *)
Init == cur = (IF kind = "sql" THEN 1 ELSE 0) /\ taken = 0 /\ out = None

(* The first result set becomes the current one without the application's  *)
(* doing.                                                                  *)
Begin ==
  /\ cur = 0
  /\ cur' = 1
  /\ UNCHANGED <<taken, out>>

FetchRow ==
  /\ More
  /\ cur' = Here /\ taken' = taken + 1
  /\ out' = Row

(* There are no more rows and no error is due, or so it seems.             *)
FetchEnd ==
  /\ out' = Null
  /\ (~More /\ ~Due) \/ Gap
  /\ cur' = Here /\ UNCHANGED taken

(* An error of the reply is reported when the rows of the result set were  *)
(* taken: at the latest when it is due, earlier if the rest of the reply   *)
(* was already read for another command.  For documents it can come in     *)
(* place of a document, which is then lost.                                *)
FetchError ==
  /\ Failed
  /\ out' = Error
  /\ \/ ~More /\ UNCHANGED taken
     \/ More /\ kind = "doc" /\ taken' = taken + 1
  /\ cur' = Here

NextSet ==
  /\ kind = "sql"
  /\ out' = Bool(TRUE)
  /\ cur < Sets
  /\ cur' = cur + 1 /\ taken' = 0

(* There is no next result set: an error, if that is why.                  *)
NoNextSet ==
  /\ kind = "sql"
  /\ out' = IF Failed THEN Error ELSE Bool(FALSE)
  /\ cur >= Sets
  /\ cur' = Sets + 1 /\ taken' = 0

(* The rows left, unless an error is due.                                  *)
Count ==
  /\ \/ ~Due /\ out' = Number(IF Here <= Sets THEN Len(Rows(Here)) - taken ELSE 0)
     \/ Failed /\ out' = Error
  /\ cur' = Here /\ UNCHANGED taken

(* No is the answer only if there is no row left.                          *)
HasData ==
  /\ out' \in {Bool(TRUE), Bool(FALSE)}
  /\ out' = Bool(FALSE) => cur = 0 \/ ~More
  /\ UNCHANGED <<cur, taken>>

(* The whole reply is read first, and its error with it.                   *)
Warnings ==
  /\ out' = IF Failed THEN Error ELSE None
  /\ cur' = Here /\ UNCHANGED taken

Next ==
  /\ \/ Begin \/ FetchRow \/ FetchEnd \/ FetchError \/ NextSet \/ NoNextSet
     \/ Count \/ HasData \/ Warnings
  /\ UNCHANGED <<reply, kind>>

Spec == Init /\ [][Next]_vars
=============================================================================
