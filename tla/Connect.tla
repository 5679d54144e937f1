------------------------------ MODULE Connect ------------------------------
(***************************************************************************)
(* How a CDK session comes about: Multi_source::visit() goes through the   *)
(* data sources (cdk/include/mysql/cdk/data_source.h), Session_builder     *)
(* tries one at a time and reports how it went to the filter of the pool   *)
(* (cdk/core/session.cc), and the constructor of mysqlx::Session           *)
(* negotiates compression, sends the connection attributes and             *)
(* authenticates (cdk/mysqlx/session.cc).                                  *)
(*                                                                         *)
(* The server is what it answers: each request is accepted or refused, and *)
(* the connection may fail while any of them is being processed.           *)
(***************************************************************************)
EXTENDS Naturals, Sequences, SequencesExt, FiniteSets

CONSTANTS
  Hosts,         \* the data sources
  Sockets,       \* those that are Unix sockets; the others are TCP/IP
  Prio, Weight,  \* their priorities and weights
  OptionSets     \* the connection options to look at

ASSUME ConnectAssumption ==
  /\ Sockets \subseteq Hosts
  /\ Prio \in [Hosts -> Nat] /\ Weight \in [Hosts -> Nat]
  /\ \A o \in OptionSets :
       /\ o.ssl \in {"DISABLED", "PREFERRED", "REQUIRED", "VERIFY_CA"} /\ o.ca \in BOOLEAN
       /\ o.auth \in {"DEFAULT", "PLAIN", "EXTERNAL", "MYSQL41", "SHA256_MEMORY"}
       /\ o.compression \in {"DISABLED", "PREFERRED", "REQUIRED"}
       /\ o.attributes \in BOOLEAN

VARIABLES
  opt,          \* the connection options
  left,         \* visit(): data sources from the iterator on
  same_prio,    \* visit(): weights of the sources of one priority, not tried yet
  host,         \* the source that was tried last
  stage,        \* what the attempt is at
  requests,     \* compression algorithms whose reply was not read
  secure,       \* conn.is_secure()
  compression,  \* Protocol_impl: the compression type
  m_auth,       \* SessionAuth: method and state
  m_isvalid,
  server,       \* what the server supports and what it has agreed to
  tried,        \* history: the sources tried, in order
  filtered,     \* history: the sources that ep_filter() told to leave out
  reports       \* history: calls of ep_filter() with the status of a source

visitVars == <<left, same_prio, host, tried, filtered>>
connVars == <<requests, secure, compression, m_auth, m_isvalid, server>>
connectVars == <<opt, visitVars, stage, connVars, reports>>

NoHost == "none"
NoOptions == "none"
NoAuth == [am |-> "none", state |-> "INIT"]

-----------------------------------------------------------------------------
(* Multi_source::visit()                                                   *)

(* Mutant: the largest value first.                                        *)
SamePrio_largest == {h \in left : \A g \in left : Prio[h] >= Prio[g]}

(* The sources at the iterator: std::less puts the smallest value first.   *)
SamePrio == {h \in left : \A g \in left : Prio[h] <= Prio[g]}

(* If all weights are 0 they are set to 1.                                 *)
Weights(hs) ==
  [h \in hs |-> IF \A g \in hs : Weight[g] = 0 THEN 1 ELSE Weight[h]]

(* The next group, without the sources that the filter rejects.            *)
NextGroup ==
  /\ stage = "visit" /\ DOMAIN same_prio = {} /\ left # {}
  /\ \E hs \in SUBSET SamePrio :
       /\ same_prio' = Weights(hs)
       /\ filtered' = filtered \cup (SamePrio \ hs)
  /\ left' = left \ SamePrio
  /\ UNCHANGED <<opt, host, tried, stage, connVars, reports>>

(* std::discrete_distribution does not pick sources of weight 0.  When     *)
(* only such are left it is not defined what it picks.                     *)
Pickable ==
  LET positive == {h \in DOMAIN same_prio : same_prio[h] > 0}
  IN IF Cardinality(DOMAIN same_prio) = 1 \/ positive = {} THEN DOMAIN same_prio ELSE positive

Pick ==
  /\ stage = "visit"
  /\ \E h \in Pickable :
       /\ host' = h
       /\ tried' = Append(tried, h)
  /\ stage' = "connect"
  /\ UNCHANGED <<opt, left, same_prio, filtered, connVars, reports>>

(* No source is left: the constructor of cdk::Session throws.              *)
NoneLeft ==
  /\ stage = "visit" /\ DOMAIN same_prio = {} /\ left = {}
  /\ stage' = "failed"
  /\ UNCHANGED <<opt, visitVars, connVars, reports>>

-----------------------------------------------------------------------------
(* Session_builder                                                         *)

(* ~ReportStatus()                                                         *)
Report(status) == reports' = Append(reports, [id |-> host, status |-> status])

(* Mutant: only connect() reports.                                         *)
Fail_silent == stage' = "failed" /\ UNCHANGED reports

(* An exception: it leaves visit(), too.                                   *)
Fail == stage' = "failed" /\ Report("NO")

(* connect() returns false: the next source is visited.                    *)
ConnectError ==
  /\ stage = "connect"
  /\ stage' = "visit"
  /\ same_prio' = [h \in DOMAIN same_prio \ {host} |-> same_prio[h]]
  /\ Report("NO")
  /\ UNCHANGED <<opt, left, host, tried, filtered, connVars>>

(* The constructor of mysqlx::Session begins.                              *)
SessionStage == IF opt.compression = "DISABLED" THEN "attributes" ELSE "compression"
AlgorithmsSent ==
  IF opt.compression = "DISABLED" THEN <<>>
  ELSE SelectSeq(Reverse(opt.algorithms), LAMBDA a : a # "NONE")

StartSession(sec) ==
  /\ stage' = SessionStage /\ requests' = AlgorithmsSent
  /\ secure' = sec
  /\ UNCHANGED reports

(* A connection is made.  For TCP/IP tls_connect() comes next: without the *)
(* certificate to verify with it throws, with TLS disabled it does nothing.*)
Connected ==
  /\ stage = "connect"
  /\ \E algs \in SUBSET {"LZ4", "DEFLATE"} :
       server' = [algs |-> algs, alg |-> "NONE", authenticated |-> FALSE]
  /\ CASE host \in Sockets -> StartSession(TRUE)
       [] host \notin Sockets /\ opt.ssl = "VERIFY_CA" /\ ~opt.ca ->
            Fail /\ UNCHANGED <<requests, secure>>
       [] host \notin Sockets /\ opt.ssl = "DISABLED" -> StartSession(FALSE)
       [] OTHER -> stage' = "tls_caps" /\ UNCHANGED <<requests, secure, reports>>
  /\ UNCHANGED <<opt, visitVars, compression, m_auth, m_isvalid>>

(* tls_connect(): the reply to the TLS capability.  Error 5001 means that  *)
(* the server has no TLS.                                                  *)
TlsCaps(answer) ==
  /\ stage = "tls_caps"
  /\ CASE answer = "ok" -> stage' = "tls" /\ UNCHANGED <<requests, secure, reports>>
       [] answer = "5001" /\ opt.ssl = "PREFERRED" -> StartSession(FALSE)
       [] OTHER -> Fail /\ UNCHANGED <<requests, secure>>
  /\ UNCHANGED <<opt, visitVars, compression, m_auth, m_isvalid, server>>

TlsConnected ==
  /\ stage = "tls"
  /\ StartSession(TRUE)
  /\ UNCHANGED <<opt, visitVars, compression, m_auth, m_isvalid, server>>

-----------------------------------------------------------------------------
(* Session::Session()                                                      *)

(* Mutant: the first successful type is applied.                           *)
Negotiated_first(ok) ==
  IF ok /\ compression = "NONE" THEN Head(requests) ELSE compression

(* negotiate_compression(): the last successful type is applied.           *)
Negotiated(ok) == IF ok THEN Head(requests) ELSE compression

(* The server uses the algorithm it has agreed to last.                    *)
CompressionReply ==
  /\ stage = "compression" /\ requests # <<>>
  /\ LET ok == Head(requests) \in server.algs
     IN /\ compression' = Negotiated(ok)
        /\ server' = IF ok THEN [server EXCEPT !.alg = Head(requests)] ELSE server
  /\ requests' = Tail(requests)
  /\ UNCHANGED <<opt, visitVars, stage, secure, m_auth, m_isvalid, reports>>

CompressionDone ==
  /\ stage = "compression" /\ requests = <<>>
  /\ IF compression = "NONE" /\ opt.compression = "REQUIRED" THEN Fail
     ELSE stage' = "attributes" /\ UNCHANGED reports
  /\ UNCHANGED <<opt, visitVars, connVars>>

(* Mutant: PLAIN is the default for all connections.                       *)
DefaultMethod_plain(sec) == "PLAIN"

DefaultMethod(sec) == IF sec THEN "PLAIN" ELSE "MYSQL41"

FirstMethod == IF opt.auth = "DEFAULT" THEN DefaultMethod(secure) ELSE opt.auth

(* send_connection_attr(): error 5002, the server does not know them, is   *)
(* ignored.  Then do_authenticate() begins.                                *)
Attributes(answer) ==
  /\ stage = "attributes"
  /\ ~opt.attributes => answer = "ok"
  /\ IF answer \in {"ok", "5002"}
     THEN stage' = "auth" /\ m_auth' = [am |-> FirstMethod, state |-> "START"] /\ UNCHANGED reports
     ELSE Fail /\ UNCHANGED m_auth
  /\ UNCHANGED <<opt, visitVars, requests, secure, compression, m_isvalid, server>>

(* SessionAuth::auth_continue(): only the methods that send a hash go on.  *)
CanContinue == m_auth.am \in {"MYSQL41", "SHA256_MEMORY"}

Authenticating == m_auth.state \in {"START", "CONT"}

(* SessionAuth::do_wait(): one reply.  The handlers of the reply.          *)
AuthReply(answer) ==
  /\ Authenticating
  /\ answer = "continue" => CanContinue /\ m_auth.state = "START"
  /\ m_auth' = [m_auth EXCEPT !.state = CASE answer = "continue" -> "CONT"
                                          [] answer = "ok" -> "DONE"
                                          [] answer = "error" -> "ERROR"]
  /\ server' = [server EXCEPT !.authenticated = (answer = "ok")]

ConnectAuth(answer) ==
  /\ stage = "auth"
  /\ AuthReply(answer)
  /\ UNCHANGED <<opt, visitVars, stage, requests, secure, compression, m_isvalid, reports>>

(* do_authenticate(): the second attempt.                                  *)
SecondMethod == opt.auth = "DEFAULT" /\ ~secure /\ m_auth.am = "MYSQL41"

AuthAgain ==
  /\ stage = "auth" /\ m_auth.state = "ERROR" /\ SecondMethod
  /\ m_auth' = [am |-> "SHA256_MEMORY", state |-> "START"]
  /\ UNCHANGED <<opt, visitVars, stage, requests, secure, compression, m_isvalid, server, reports>>

(* authenticate() rethrows the error.                                      *)
AuthFailed ==
  /\ stage = "auth" /\ m_auth.state = "ERROR" /\ ~SecondMethod
  /\ Fail
  /\ UNCHANGED <<opt, visitVars, connVars>>

Established ==
  /\ stage = "auth" /\ m_auth.state = "DONE"
  /\ m_isvalid' = TRUE
  /\ stage' = "established"
  /\ Report("YES")
  /\ UNCHANGED <<opt, visitVars, requests, secure, compression, m_auth, server>>

(* The constructor of cdk::Session takes the session over; visit(), the    *)
(* builder and the options are gone, and encryption and compression are    *)
(* now the business of the connection and of the protocol object.          *)
TakeOver ==
  /\ stage = "established"
  /\ stage' = "up"
  /\ left' = {} /\ same_prio' = Weights({}) /\ host' = NoHost
  /\ tried' = <<>> /\ filtered' = {} /\ reports' = <<>>
  /\ opt' = NoOptions /\ secure' = FALSE /\ compression' = "NONE"
  /\ server' = [server EXCEPT !.algs = {}, !.alg = "NONE"]
  /\ UNCHANGED <<requests, m_auth, m_isvalid>>

(* Any other exception: connect() finds an error after which other sources *)
(* are not tried, the connection breaks after connect(), the server sends  *)
(* an authentication continuation that the method does not have.           *)
Exception ==
  /\ stage \in {"connect", "tls_caps", "tls", "compression", "attributes", "auth"}
  /\ Fail
  /\ UNCHANGED <<opt, visitVars, connVars>>

-----------------------------------------------------------------------------
ConnectInit ==
  /\ opt \in OptionSets
  /\ left = Hosts /\ same_prio = [h \in {} |-> 0] /\ host = NoHost
  /\ stage = "visit" /\ requests = <<>>
  /\ secure = FALSE /\ compression = "NONE"
  /\ m_auth = NoAuth /\ m_isvalid = FALSE
  /\ server = [algs |-> {}, alg |-> "NONE", authenticated |-> FALSE]
  /\ tried = <<>> /\ filtered = {} /\ reports = <<>>

ConnectNext ==
  \/ NextGroup \/ Pick \/ NoneLeft
  \/ ConnectError \/ Connected
  \/ \E answer \in {"ok", "5001", "error"} : TlsCaps(answer)
  \/ TlsConnected
  \/ CompressionReply \/ CompressionDone
  \/ \E answer \in {"ok", "5002", "error"} : Attributes(answer)
  \/ \E answer \in {"continue", "ok", "error"} : ConnectAuth(answer)
  \/ AuthAgain \/ AuthFailed \/ Established \/ TakeOver \/ Exception
=============================================================================
