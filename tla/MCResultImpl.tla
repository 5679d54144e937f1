---------------------------- MODULE MCResultImpl ----------------------------
(* Instances of ResultImpl for TLC.                                        *)
EXTENDS ResultImpl

(* A result set given by which of its rows pass the filter.                *)
Numbered(i, keep) == [j \in 1..Len(keep) |-> [id |-> <<i, j>>, keep |-> keep[j]]]

Reply(sets, end) ==
  [sets |-> [i \in 1..Len(sets) |-> Numbered(i, sets[i])], end |-> end]

All(n) == [j \in 1..n |-> TRUE]

Ends == {"ok", "more", "rows_error", "next_error"}

(* Results whose rows are filtered (lists of tables and collections) have  *)
(* one result set.  With a prefetch of two rows: rejected rows alone, and  *)
(* whole batches of them in front of a row, between two and at the end.    *)
Filtered ==
  {<<FALSE, TRUE>>, <<TRUE, FALSE, TRUE, FALSE>>, <<FALSE, FALSE, TRUE>>,
   <<TRUE, FALSE, FALSE, FALSE, TRUE>>, <<TRUE, TRUE, FALSE, FALSE>>}

(* No result set; one, two and three result sets of different sizes, empty *)
(* ones among them; filtered rows.                                         *)
MCReplies ==
  {Reply(<<>>, "ok")}
  \cup {Reply(<<All(n)>>, e) : n \in 0..5, e \in Ends}
  \cup {Reply(<<All(m), All(n)>>, e) : m \in {0, 1, 3}, n \in 0..2, e \in Ends}
  \cup {Reply(<<All(1), All(m), All(1)>>, e) : m \in {0, 2}, e \in Ends}
  \cup {Reply(<<keep>>, e) : keep \in Filtered, e \in {"ok", "rows_error"}}
=============================================================================
