---------------------------- MODULE MCCdkSession ----------------------------
(* An instance of CdkSession for TLC.                                      *)
EXTENDS CdkSession

MCPrio == [h \in Hosts |-> IF h = "a" THEN 1 ELSE 2]
MCWeight == [h \in Hosts |-> IF h = "c" THEN 1 ELSE 0]

Option(ssl, auth, mode) ==
  [ssl |-> ssl, ca |-> FALSE, auth |-> auth, compression |-> mode,
   algorithms |-> <<"LZ4", "NONE", "DEFLATE">>, attributes |-> mode = "REQUIRED"]

MCOptions ==
  {Option("PREFERRED", "DEFAULT", "PREFERRED"), Option("REQUIRED", "MYSQL41", "REQUIRED"),
   Option("DISABLED", "PLAIN", "DISABLED"), Option("VERIFY_CA", "DEFAULT", "DISABLED")}

(* Two result sets; one, or an error while its rows are read; none.        *)
MCReplies ==
  [s \in Stmts |-> CASE s = "s1" -> {<<"rset", "more", "rset", "end">>}
                     [] s = "s2" -> {<<"rset", "end">>, <<"rset", "error">>}
                     [] s = "s3" -> {<<"ok">>}]
=============================================================================
