--------------------------- MODULE MCOpExecution ---------------------------
(* Instances of OpExecution for TLC.                                       *)
EXTENDS OpExecution, TLC

CONSTANTS d0, d1, d2

(* d0 refers to no parameter, d1 to the first one, d2 to the second one.   *)
MCUses == [d \in AllDefs |-> CASE d = d1 -> {1} [] d = d2 -> {2} [] OTHER -> {}]

Perms == Permutations(Ops)

(* No action reads last: the runs whose invariants do not speak of it can  *)
(* identify the states that differ only there.                             *)
WithoutLast == <<opDef, m_prepare_state, m_stmt_id, m_inited, m_reply, idVars,
                 m_current_result, m_prepare_execute, setting, server, unread>>

Careful == [supported |-> TRUE, careful |-> TRUE, ops |-> 2, defs |-> {d0, d2},
            names |-> {1, 2}, calls |-> {"limit"}, results |-> {"data"}]

(* Changing definitions with a limit; all limit calls on one definition.   *)
PreparedSettings ==
  {Careful, [Careful EXCEPT !.defs = {d2}, !.calls = {"limit", "offset"}]}

(* Many copies; failures wherever they can happen; a server that has no    *)
(* prepared statements.                                                    *)
IdSettings ==
  {[Careful EXCEPT !.ops = 3, !.defs = {d0}, !.calls = {}],
   [Careful EXCEPT !.careful = FALSE, !.defs = {d1}, !.names = {1}, !.calls = {},
                   !.results = {"rset_error"}],
   [Careful EXCEPT !.careful = FALSE, !.supported = FALSE, !.defs = {d0},
                   !.names = {}, !.calls = {}]}

AllSettings == PreparedSettings \cup IdSettings

NotSentSettings ==
  {[Careful EXCEPT !.defs = {d0}, !.results = {"data", "row_error", "rset_error"}]}

PlaceholderSettings == {[Careful EXCEPT !.careful = FALSE, !.defs = {d2}]}
=============================================================================
