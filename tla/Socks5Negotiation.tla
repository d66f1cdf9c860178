-------------------------- MODULE Socks5Negotiation --------------------------
(***************************************************************************)
(* The dialogue with the SOCKS5 proxy: of socks5_tcp_proxy_socket through  *)
(* overlapped operations ("connect"), of socks5_local_udp_proxy_server     *)
(* through blocking calls ("associate").  Neither looks at the number of   *)
(* bytes that have arrived: an answer that comes in pieces, or not at all, *)
(* is read with the fields of its buffer as they were.                     *)
(***************************************************************************)
EXTENDS Integers, Sequences

NoAuth   == 0
Password == 2
Refused  == 255

VARIABLES
  dialogue,   \* "connect" or "associate"
  credentials,  \* "none", "valid", or "invalid": a length outside 1 .. 255
  state,      \* current_state_
  method,     \* ident_resp_.method
  answer,     \* version and reply of {connect,associate}_resp(onse_)
  waiting,    \* the field a WSARecv or recv() is outstanding for
  requests,   \* requests that the proxy has not answered yet
  stream,     \* bytes of answers that have not been received yet
  result,     \* "open", "closed" or "relay"
  chosen, disclosed   \* history: the method the proxy chose, and whether the
                      \* credentials have been sent

socksVars == <<dialogue, credentials, state, method, answer, waiting, requests, stream,
               result, chosen, disclosed>>

Byte == {0, 1, 2, 5, 255}

SocksTypeOK ==
  /\ dialogue \in {"connect", "associate"}
  /\ credentials \in {"none", "valid", "invalid"}
  /\ state \in {"pre_login", "login_sent", "password_sent", "connect_sent",
                "responded"}
  /\ method \in Byte
  /\ answer \in [version: Byte, reply: Byte]
  /\ waiting \in {"none", "ident", "request"}
  /\ requests \in Seq({"ident", "auth", "request"})
  /\ stream \in Seq(Byte)
  /\ result \in {"open", "closed", "relay"}
  /\ chosen \in Byte \cup {-1}
  /\ disclosed \in BOOLEAN

DefaultIsPassword == Password

\* The defaults of socks5_ident_resp and socks5_resp.
DefaultMethod == NoAuth

SocksInit ==
  /\ dialogue \in {"connect", "associate"}
  /\ credentials \in {"none", "valid", "invalid"}
  /\ state = "pre_login"
  /\ method = DefaultMethod
  /\ answer = [version |-> 5, reply |-> 0]
  /\ waiting = "none"
  /\ requests = <<>> /\ stream = <<>>
  /\ result = "open"
  /\ chosen = -1
  /\ disclosed = FALSE

----------------------------------------------------------------------------
(* Requests *)

\* A request is sent and its answer asked for, or a call fails.  A failed
\* send goes on to the receive, which fails on the closed socket as well.
Asks(request, next, field) ==
  \/ /\ requests' = Append(requests, request)
     /\ state' = next
     /\ waiting' = field
     /\ result' = "open"
     /\ disclosed' = (disclosed \/ request = "auth")
  \/ /\ state' = next
     /\ waiting' = "none"
     /\ result' = "closed"
     /\ UNCHANGED <<requests, disclosed>>

Closes ==
  /\ state' = "responded"
  /\ waiting' = "none"
  /\ result' = "closed"
  /\ UNCHANGED <<requests, disclosed>>

\* remote_negotiate and the start of associate_to_socks5_proxy.
SendIdent ==
  /\ state = "pre_login" /\ result = "open"
  /\ Asks("ident", "login_sent", "ident")
  /\ UNCHANGED <<dialogue, credentials, method, answer, stream, chosen>>

----------------------------------------------------------------------------
(* What follows an answer, v being a version and m, r a method and a reply *)

AfterIdent(v, m) ==
  CASE v # 5 \/ m = Refused -> Closes
    [] v = 5 /\ m = Password ->
         IF credentials = "valid" THEN Asks("auth", "password_sent", "ident")
         ELSE Closes
    [] OTHER -> Asks("request", "connect_sent", "request")

AfterAuth(m) ==
  IF m # 0 THEN Closes ELSE Asks("request", "connect_sent", "request")

Relays ==
  /\ state' = "responded"
  /\ waiting' = "none"
  /\ result' = "relay"
  /\ UNCHANGED <<requests, disclosed>>

\* Only the blocking dialogue looks at the version of the last answer.
AfterRequest(v, r) ==
  IF r # 0 \/ (dialogue = "associate" /\ v # 5) THEN Closes ELSE Relays

\* The first n bytes of the stream are in the buffer of the receive.
Reads(n) ==
  LET version == IF n > 0 THEN stream[1] ELSE 5
      second  == IF n > 1 THEN stream[2] ELSE
                 IF waiting = "ident" THEN method ELSE answer.reply
  IN  /\ stream' = SubSeq(stream, n + 1, Len(stream))
      /\ IF waiting = "ident"
         THEN /\ method' = second
              /\ UNCHANGED answer
              /\ IF state = "login_sent" THEN AfterIdent(version, second)
                 ELSE AfterAuth(second)
         ELSE /\ answer' = [version |-> version, reply |-> second]
              /\ UNCHANGED method
              /\ AfterRequest(version, second)

Wants == IF waiting = "ident" THEN 2 ELSE 3

\* process_receive_negotiate_complete, or recv() returns.
Receive ==
  /\ waiting # "none" /\ result = "open"
  /\ \E n \in 1 .. Wants :
       n <= Len(stream) /\ Reads(n)
  /\ UNCHANGED <<dialogue, credentials, chosen>>

\* The proxy ends the stream: recv() returns 0, which is not an error, whereas
\* the handler of the completion port closes the client.
StreamEnds ==
  /\ waiting # "none" /\ result = "open"
  /\ stream = <<>>
  /\ IF dialogue = "associate" THEN Reads(0)
     ELSE Closes /\ UNCHANGED <<method, answer, stream>>
  /\ UNCHANGED <<dialogue, credentials, chosen>>

\* An error, or the timeout of the blocking calls.
ReceiveFails ==
  /\ waiting # "none" /\ result = "open"
  /\ Closes
  /\ UNCHANGED <<dialogue, credentials, method, answer, stream, chosen>>

----------------------------------------------------------------------------
(* The proxy answers what it likes *)

Answers(bytes) == stream' = stream \o bytes

ProxyAnswers ==
  /\ requests # <<>>
  /\ requests' = Tail(requests)
  /\ \/ /\ Head(requests) = "ident"
        /\ \E v \in {0, 5}, m \in {NoAuth, Password, Refused} :
             Answers(<<v, m>>) /\ chosen' = m
     \/ /\ Head(requests) = "auth"
        /\ \E s \in {0, 1} : Answers(<<1, s>>)
        /\ UNCHANGED chosen
     \/ /\ Head(requests) = "request"
        /\ \E v \in {0, 5}, r \in {0, 1} : Answers(<<v, r, 0>>)
        /\ UNCHANGED chosen
  /\ UNCHANGED <<dialogue, credentials, state, method, answer, waiting, result,
                 disclosed>>

----------------------------------------------------------------------------
SocksNext ==
  SendIdent \/ Receive \/ StreamEnds \/ ReceiveFails \/ ProxyAnswers

SocksSpec == SocksInit /\ [][SocksNext]_socksVars

----------------------------------------------------------------------------
(* Properties *)

\* The credentials of the user leave the machine only when the proxy has asked
\* for them and they can be encoded, however its answers are cut into pieces:
\* ident_resp_ is used for two answers and is read whether or not it was filled.
CredentialsOnlyIfAsked ==
  disclosed => chosen = Password /\ credentials = "valid"

=============================================================================
