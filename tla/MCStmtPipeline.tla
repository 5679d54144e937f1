--------------------------- MODULE MCStmtPipeline ---------------------------
(* Instances of StmtPipeline for TLC.                                      *)
EXTENDS StmtPipeline

(* No result set, one (with and without rows), two, and a last one that is *)
(* left out as after a stored procedure.                                   *)
MCReplies ==
  {<<"execute_ok">>,
   <<"mdata", "row", "row", "done", "execute_ok">>,
   <<"mdata", "done", "execute_ok">>,
   <<"mdata", "row", "more", "mdata", "row", "done", "execute_ok">>,
   <<"mdata", "more", "done", "execute_ok">>}
=============================================================================
