----------------------------- MODULE MCProtocol -----------------------------
(***************************************************************************)
(* Instances of Protocol for TLC: payload sizes around the compression     *)
(* threshold and around the sizes at which the buffers grow.               *)
(***************************************************************************)
EXTENDS Protocol

\* Errors, notices and rows have a payload, the closing message has none.
MCSizes == [t \in {"Error", "Notice", "Row", "Done"} |->
              CASE t = "Error"  -> {1}
                [] t = "Notice" -> {1}
                [] t = "Row"    -> {1, 6}
                [] t = "Done"   -> {0}]

\* Messages of a pipeline: a statement and its parameters.
PipelineSizes == [t \in {"Row", "Done"} |-> IF t = "Row" THEN {4} ELSE {0}]
=============================================================================
