------------------------------- MODULE TLSEcho -------------------------------
(***************************************************************************)
(* The echo server of tls/server.cpp and the clients of tls/client.cpp: a  *)
(* client shakes hands, sends a message, prints what comes back and ends.  *)
(* The server serves one connection at a time, with blocking calls, until  *)
(* it ends.  A client may crash, and the machine it runs on may be lost    *)
(* without a trace: what the server reads from it then never comes.        *)
(*                                                                         *)
(* OpenSSL and the sockets are external.  Of a handshake remain the three  *)
(* flights of TLS 1.3 and the check of the certificate.  Each record is    *)
(* sent once and the reader knows which it waits for, so that those in     *)
(* flight are a set.  What client.cpp says is always the same; the server, *)
(* whose buffer is modelled part by part, does not know that, and here     *)
(* messages differ in whose they are and in how many parts they have.      *)
(***************************************************************************)
EXTENDS Integers, Sequences

CONSTANTS
    Clients,   \* the runs of the client program
    Nobody,    \* no client, and no message
    BufSize    \* the parts that the server's buffer has

ASSUME ClientsAssumption == {Nobody, "flight", "nothing", "empty", "garbled"} \cap Clients = {}

ASSUME BufSizeAssumption == BufSize \in Nat \ {0}

VARIABLES
    certificate, \* what the server's certificate is, as its clients see it
    server,      \* where the server is
    client_ssl,  \* the connection it serves: that of a client, or Nobody's
    buf,         \* whose message each part of its buffer is of
    nread,       \* how many parts the last read has filled
    backlog,     \* the connections that wait to be accepted
    hung_up,     \* the clients whose connections the server has closed
    msg,         \* how many parts the message of each client has
    client,      \* where each client is
    services,    \* the addresses it has yet to try: whether the server is there
    silent,      \* the clients whose machines are lost
    up, down,    \* the records in flight from and to each client
    printed      \* whose message each client has printed

serverVars == <<server, client_ssl, buf, nread, hung_up>>
vars == <<certificate, msg, serverVars, backlog, client, services, silent, up, down, printed>>

Listening == server \notin {"setup", "failed", "killed"}

Over(c) == client[c] \in {"done", "failed", "crashed"}

(* What a lookup of the host gives: the server is at one address, or none. *)
Lookups == {<<TRUE>>, <<FALSE>>, <<FALSE, TRUE>>}

Init == /\ certificate \in {"good", "of another host", "of another authority"}
        /\ msg \in [Clients -> 1 .. BufSize]
        /\ server = "setup" /\ client_ssl = Nobody
        /\ buf = [i \in 1 .. BufSize |-> Nobody] /\ nread = 0
        /\ backlog = <<>> /\ hung_up = {}
        /\ client = [c \in Clients |-> "setup"]
        /\ services \in [Clients -> Lookups]
        /\ silent = {}
        /\ up = [c \in Clients |-> {}] /\ down = [c \in Clients |-> {}]
        /\ printed = [c \in Clients |-> "nothing"]

-----------------------------------------------------------------------------
(* The server.                                                             *)

(* The context, the certificate and its key, and the listening socket.     *)
ServerSetup == /\ server = "setup"
               /\ server' \in {"accept", "failed"}
               /\ UNCHANGED <<certificate, msg, client_ssl, buf, nread, hung_up, backlog,
                              client, services, silent, up, down, printed>>

(* The end of a round: the unique_ptrs free the handle and its socket.     *)
HangUp == /\ server' = "accept" /\ client_ssl' = Nobody
          /\ hung_up' = hung_up \cup {client_ssl}
          /\ UNCHANGED <<buf, down>>

(* SIGPIPE, which nothing in the program handles, for a write to a socket  *)
(* that the client has closed.  The system closes all connections.         *)
KilledWriting == /\ Over(client_ssl)
                 /\ server' = "killed" /\ client_ssl' = Nobody
                 /\ hung_up' = Clients
                 /\ UNCHANGED <<buf, down>>

(* A write to the client: it gets there, or fails if the client has closed.*)
Write(records, next) ==
    \/ /\ down' = [down EXCEPT ![client_ssl] = @ \cup records]
       /\ server' = next /\ UNCHANGED <<client_ssl, buf, hung_up>>
    \/ Over(client_ssl) /\ HangUp
    \/ KilledWriting

(* BIO_do_accept, tried again as long as it fails, and SSL_new.            *)
Accept == /\ server = "accept" /\ backlog # <<>>
          /\ backlog' = Tail(backlog)
          /\ \/ /\ server' = "hello" /\ client_ssl' = Head(backlog)
                /\ UNCHANGED hung_up
             \/ /\ hung_up' = hung_up \cup {Head(backlog)}
                /\ UNCHANGED <<server, client_ssl>>
          /\ UNCHANGED <<certificate, msg, buf, nread, client, services, silent, up, down,
                         printed>>

(* What the server waits for has come.                                     *)
Takes(record) == /\ record \in up[client_ssl]
                 /\ up' = [up EXCEPT ![client_ssl] = @ \ {record}]

(* A read ends in an error when the client refuses, or has closed.         *)
Broken == (Over(client_ssl) \/ "alert" \in up[client_ssl]) /\ HangUp /\ UNCHANGED up

(* SSL_accept: the client's hello is answered, and its finish awaited.     *)
AcceptHello == /\ server = "hello"
               /\ \/ Takes("hello") /\ Write({"flight"}, "handshake")
                  \/ Broken
               /\ UNCHANGED <<certificate, msg, nread, backlog, client, services, silent,
                              printed>>

(* The last that SSL_accept does is to write the session's tickets.        *)
AcceptFinished == /\ server = "handshake"
                  /\ \/ Takes("finished") /\ Write({}, "read")
                     \/ Broken
                  /\ UNCHANGED <<certificate, msg, nread, backlog, client, services, silent,
                                 printed>>

(* SSL_read_ex fills the first nread parts.                                *)
ReadMessage == /\ server = "read" /\ Takes("message")
               /\ nread'  = msg[client_ssl]
               /\ buf'    = [i \in 1 .. BufSize |-> IF i <= nread' THEN client_ssl ELSE buf[i]]
               /\ server' = "echo"
               /\ UNCHANGED <<client_ssl, hung_up, down>>

(* Mutant: the loop ends after the first message it reads.                 *)
ReadOnce == /\ server = "read"
            /\ Takes("message") /\ HangUp
            /\ UNCHANGED <<certificate, msg, nread, backlog, client, services, silent,
                           printed>>

(* Mutant: the server waits for another message of a client that is gone.  *)
ReadForEver == /\ ReadMessage
               /\ UNCHANGED <<certificate, msg, backlog, client, services, silent, printed>>

Read == /\ ReadMessage \/ (server = "read" /\ Broken /\ UNCHANGED nread)
        /\ UNCHANGED <<certificate, msg, backlog, client, services, silent, printed>>

(* The first n parts of the buffer: somebody's message, or no message.     *)
Message(c) == [i \in 1 .. msg[c] |-> c]

Contents(n) == LET parts == [i \in 1 .. n |-> buf[i]]
               IN  IF \E c \in Clients : parts = Message(c)
                   THEN CHOOSE c \in Clients : parts = Message(c) ELSE "garbled"

(* Mutant: the whole buffer is sent, buf.size() in the place of nread.     *)
EchoBuffer == /\ server = "echo"
              /\ Write({Contents(BufSize)}, "read") /\ nread' = 0
              /\ UNCHANGED <<certificate, msg, backlog, client, services, silent, up,
                             printed>>

Echo == /\ server = "echo"
        /\ Write({Contents(nread)}, "read") /\ nread' = 0
        /\ UNCHANGED <<certificate, msg, backlog, client, services, silent, up, printed>>

ServerStep == ServerSetup \/ Accept \/ AcceptHello \/ AcceptFinished \/ Read \/ Echo

-----------------------------------------------------------------------------
(* A client.                                                               *)

At(c, place) == client[c] = place /\ c \notin silent

Goes(c, place) == client' = [client EXCEPT ![c] = place]

Sends(c, record) == up' = [up EXCEPT ![c] = @ \cup {record}]

(* The context, the certificate of the authority, and getaddrinfo.         *)
ClientSetup(c) == /\ At(c, "setup")
                  /\ Goes(c, "connect") \/ Goes(c, "failed")
                  /\ UNCHANGED <<certificate, msg, serverVars, backlog, services, silent,
                                 up, down, printed>>

(* One address after the other, each with a socket of its own.             *)
Connect(c) ==
    /\ At(c, "connect")
    /\ \/ /\ services[c] # <<>> /\ Head(services[c]) /\ Listening
          /\ Goes(c, "connected") /\ backlog' = Append(backlog, c)
          /\ UNCHANGED services
       \/ /\ services[c] # <<>> /\ ~(Head(services[c]) /\ Listening)
          /\ services' = [services EXCEPT ![c] = Tail(@)]
          /\ UNCHANGED <<client, backlog>>
       \/ Goes(c, "failed") /\ UNCHANGED <<services, backlog>>
    /\ UNCHANGED <<certificate, msg, serverVars, silent, up, down, printed>>

(* SSL_connect begins, once the name that the certificate must have is set.*)
Hello(c) ==
    /\ At(c, "connected")
    /\ \/ Goes(c, "handshake") /\ Sends(c, "hello")
       \/ Goes(c, "failed") /\ UNCHANGED up
    /\ UNCHANGED <<certificate, msg, serverVars, backlog, services, silent, down, printed>>

(* Mutant: SSL_set1_host is left out, and any name will do.                *)
TrustedAnyHost == certificate # "of another authority"

(* SSL_VERIFY_PEER with the authority loaded and the host's name set.      *)
Trusted == certificate = "good"

Verify(c) ==
    /\ At(c, "handshake")
    /\ \/ /\ "flight" \in down[c]
          /\ \/ Trusted /\ Goes(c, "write") /\ Sends(c, "finished")
             \/ ~Trusted /\ Goes(c, "failed") /\ Sends(c, "alert")
       \/ c \in hung_up /\ Goes(c, "failed") /\ UNCHANGED up
    /\ UNCHANGED <<certificate, msg, serverVars, backlog, services, silent, down, printed>>

(* A write to a server that has hung up may fail: an assertion then, or, in*)
(* a build without assertions, nothing.                                    *)
Say(c) ==
    /\ At(c, "write")
    /\ \/ Goes(c, "read") /\ Sends(c, "message")
       \/ c \in hung_up /\ (Goes(c, "read") \/ Goes(c, "failed")) /\ UNCHANGED up
    /\ UNCHANGED <<certificate, msg, serverVars, backlog, services, silent, down, printed>>

(* What comes back is printed; nothing if the read fails, unchecked.       *)
Receive(c) ==
    /\ At(c, "read")
    /\ \/ \E m \in down[c] \ {"flight"} : printed' = [printed EXCEPT ![c] = m]
       \/ c \in hung_up /\ printed' = [printed EXCEPT ![c] = "empty"]
    /\ Goes(c, "done")
    /\ UNCHANGED <<certificate, msg, serverVars, backlog, services, silent, up, down>>

ClientStep(c) == ClientSetup(c) \/ Connect(c) \/ Hello(c) \/ Verify(c) \/ Say(c) \/ Receive(c)

Crash(c) == /\ ~Over(c) /\ c \notin silent
            /\ Goes(c, "crashed")
            /\ UNCHANGED <<certificate, msg, serverVars, backlog, services, silent, up,
                           down, printed>>

FallSilent(c) == /\ ~Over(c)
                 /\ silent' = silent \cup {c}
                 /\ UNCHANGED <<certificate, msg, serverVars, backlog, client, services, up,
                                down, printed>>

Next == ServerStep \/ \E c \in Clients : ClientStep(c) \/ Crash(c) \/ FallSilent(c)

Spec == /\ Init /\ [][Next]_vars
        /\ WF_vars(ServerStep) /\ \A c \in Clients : WF_vars(ClientStep(c))
-----------------------------------------------------------------------------
Places == {"setup", "connect", "connected", "handshake", "write", "read",
           "done", "failed", "crashed"}

TypeOK ==
    /\ certificate \in {"good", "of another host", "of another authority"}
    /\ server \in {"setup", "accept", "hello", "handshake", "read", "echo",
                   "failed", "killed"}
    /\ client_ssl \in Clients \cup {Nobody} /\ msg \in [Clients -> 1 .. BufSize]
    /\ buf \in [1 .. BufSize -> Clients \cup {Nobody}] /\ nread \in 0 .. BufSize
    /\ backlog \in Seq(Clients) /\ hung_up \subseteq Clients
    /\ client \in [Clients -> Places]
    /\ services \in [Clients -> Seq(BOOLEAN)] /\ silent \subseteq Clients
    /\ up \in [Clients -> SUBSET {"hello", "finished", "alert", "message"}]
    /\ down \in [Clients -> SUBSET (Clients \cup {"flight", "garbled"})]
    /\ printed \in [Clients -> Clients \cup {"nothing", "empty", "garbled"}]

(* A client prints its own message, all of it and no more, although the    *)
(* server reads all clients' messages into the same place and never clears *)
(* what is left there of a longer one.                                     *)
OwnMessageOnly == \A c \in Clients : printed[c] \in {"nothing", "empty", c}

(* A message leaves a client only for a server whose certificate is that of*)
(* the host it asked for, vouched for by the authority it trusts.          *)
SaidToTrustedOnly ==
    \A c \in Clients : "message" \in up[c] \/ printed[c] \in Clients => certificate = "good"

(* A client that says it received an empty message, as the result of its   *)
(* read is not looked at, was served by a server that was killed: nothing  *)
(* else makes the server hang up on a client that is well, whatever        *)
(* happens to the others.                                                  *)
EmptyOnlyIfKilled ==
    \A c \in Clients : printed[c] = "empty" => server = "killed"

(* Until the server is killed a connection is in one place: it is not yet  *)
(* made, waits in the backlog, is served, or has been hung up on.          *)
OnePlace ==
    /\ client_ssl # Nobody <=> server \in {"hello", "handshake", "read", "echo"}
    /\ server # "killed" =>
          /\ client_ssl \notin hung_up
          /\ \A i \in DOMAIN backlog :
                /\ backlog[i] # client_ssl /\ backlog[i] \notin hung_up
                /\ "flight" \notin down[backlog[i]]
                /\ \A j \in DOMAIN backlog : backlog[i] = backlog[j] => i = j
          /\ \A c \in Clients : client[c] \in {"setup", "connect"} =>
                /\ c # client_ssl /\ c \notin hung_up /\ "flight" \notin down[c]
                /\ \A i \in DOMAIN backlog : backlog[i] # c

(* What a client's place tells of its connection, and what is in flight.   *)
InStep(c) ==
    /\ client[c] \in {"write", "read"} => "flight" \in down[c] /\ Trusted
    /\ "message" \in up[c] => Trusted
    /\ "alert" \in up[c] => Over(c)
    /\ c \in hung_up /\ "flight" \in down[c] => Over(c) \/ server = "killed"
    /\ down[c] \subseteq {"flight", c}

(* What is to be echoed is the message of the client that is served.       *)
Filled == server = "echo" => nread = msg[client_ssl] /\ \A i \in 1 .. nread : buf[i] = client_ssl

Inv == /\ TypeOK /\ OnePlace /\ Filled /\ \A c \in Clients : InStep(c)
       /\ OwnMessageOnly /\ SaidToTrustedOnly /\ EmptyOnlyIfKilled

(* Whoever has connected gets its turn: it is accepted, or turned away at  *)
(* once where SSL_new fails.  Only a server that is stuck with a client    *)
(* that has fallen silent, or has been killed, keeps it waiting for ever.  *)
(* And the message of whoever begins its handshake with a server that it   *)
(* trusts comes back, unless one of the two is lost in the meantime.       *)
EveryoneServed ==
    \A c \in Clients :
        /\ (client[c] = "connected") ~>
              (client_ssl = c \/ c \in hung_up \/ client_ssl \in silent \/ server = "killed")
        /\ (client_ssl = c /\ client[c] = "handshake" /\ Trusted) ~>
              (printed[c] = c \/ client[c] = "crashed" \/ c \in silent \/ server = "killed")
=============================================================================
