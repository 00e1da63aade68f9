---------------------------- MODULE TLSEcho_proofs ----------------------------
(***************************************************************************)
(* That the echo server keeps its clients' messages apart, and that they   *)
(* speak to a trusted server only, for any number of clients.              *)
(***************************************************************************)
EXTENDS TLSEcho, TLAPS

LEMMA EmptyQueue == <<>> \in Seq(Clients) /\ DOMAIN <<>> = {}
  OBVIOUS

(* Nothing has happened yet.                                               *)
LEMMA InitInv == Init => Inv
<1> SUFFICES ASSUME Init PROVE Inv
  OBVIOUS
<1>1. TypeOK
  <2>1. services \in [Clients -> Seq(BOOLEAN)]
    <3>1. Lookups \subseteq Seq(BOOLEAN)
      <4>1. <<TRUE>> \in Seq(BOOLEAN) /\ <<FALSE>> \in Seq(BOOLEAN)
        OBVIOUS
      <4>2. <<FALSE, TRUE>> \in Seq(BOOLEAN)
        OBVIOUS
      <4> QED BY <4>1, <4>2 DEF Lookups
    <3> QED BY <3>1 DEF Init
  <2>2. backlog \in Seq(Clients)
    BY EmptyQueue DEF Init
  <2>3. /\ certificate \in {"good", "of another host", "of another authority"}
        /\ server = "setup" /\ client_ssl = Nobody /\ msg \in [Clients -> 1 .. BufSize]
        /\ hung_up = {} /\ silent = {}
    BY DEF Init
  <2>4. client \in [Clients -> Places]
    BY DEF Init, Places
  <2>5. /\ up \in [Clients -> SUBSET {"hello", "finished", "alert", "message"}]
        /\ down \in [Clients -> SUBSET (Clients \cup {"flight", "garbled"})]
        /\ printed \in [Clients -> Clients \cup {"nothing", "empty", "garbled"}]
    BY DEF Init
  <2>6. buf \in [1 .. BufSize -> Clients \cup {Nobody}] /\ nread \in 0 .. BufSize
    <3>1. buf = [i \in 1 .. BufSize |-> Nobody] /\ nread = 0
      BY DEF Init
    <3>2. 0 \in 0 .. BufSize
      BY BufSizeAssumption
    <3> QED BY <3>1, <3>2
  <2> QED BY <2>1, <2>2, <2>3, <2>4, <2>5, <2>6 DEF TypeOK
<1>2. OnePlace
  <2>1. server = "setup" /\ client_ssl = Nobody /\ hung_up = {} /\ Nobody \notin Clients
    BY ClientsAssumption DEF Init
  <2>2. DOMAIN backlog = {}
    BY EmptyQueue DEF Init
  <2>3. \A c \in Clients : down[c] = {}
    BY DEF Init
  <2> QED BY <2>1, <2>2, <2>3 DEF OnePlace
<1>3. \A c \in Clients : InStep(c)
  BY DEF Init, InStep
<1>4. OwnMessageOnly /\ SaidToTrustedOnly /\ EmptyOnlyIfKilled
  BY ClientsAssumption DEF Init, OwnMessageOnly, SaidToTrustedOnly, EmptyOnlyIfKilled
<1>5. Filled
  BY DEF Init, Filled
<1> QED BY <1>1, <1>2, <1>3, <1>4, <1>5 DEF Inv

(* Whoever is served is one of the clients.                                *)
LEMMA Served == ASSUME TypeOK, OnePlace, server \in {"hello", "handshake", "read", "echo"}
                PROVE  client_ssl \in Clients
  BY DEF TypeOK, OnePlace

(* The queue of connections that wait, when its first leaves it and when   *)
(* another joins it.                                                       *)
LEMMA Shorter == ASSUME NEW S, NEW q \in Seq(S), q # <<>>
                 PROVE  /\ Tail(q) \in Seq(S) /\ Head(q) \in S /\ 1 \in DOMAIN q
                        /\ Head(q) = q[1]
                        /\ \A i \in DOMAIN Tail(q) :
                              i + 1 \in DOMAIN q /\ i + 1 # 1 /\ Tail(q)[i] = q[i + 1]
                        /\ DOMAIN Tail(q) \subseteq Int
  OBVIOUS

LEMMA Longer == ASSUME NEW S, NEW q \in Seq(S), NEW e \in S
                PROVE  /\ Append(q, e) \in Seq(S)
                       /\ \A i \in DOMAIN Append(q, e) :
                             \/ i \in DOMAIN q /\ Append(q, e)[i] = q[i]
                             \/ i = Len(q) + 1 /\ Append(q, e)[i] = e
  OBVIOUS

Records == {"hello", "finished", "alert", "message"}

(* What a client's step does to its place and to what it has sent.         *)
LEMMA Moves ==
  ASSUME client \in [Clients -> Places], NEW c \in Clients, ClientStep(c) \/ Crash(c)
  PROVE  \E p \in Places : /\ client' = [client EXCEPT ![c] = p]
                           /\ p \in {"setup", "connect"} => client[c] \in {"setup", "connect"}
<1> USE DEF Goes, At, Places
<1>1. CASE ClientSetup(c)
  BY <1>1 DEF ClientSetup
<1>2. CASE Connect(c)
  BY <1>2 DEF Connect
<1>3. CASE Hello(c)
  BY <1>3 DEF Hello
<1>4. CASE Verify(c)
  BY <1>4 DEF Verify
<1>5. CASE Say(c)
  BY <1>5 DEF Say
<1>6. CASE Receive(c)
  BY <1>6 DEF Receive
<1>7. CASE Crash(c)
  BY <1>7 DEF Crash
<1> QED BY <1>1, <1>2, <1>3, <1>4, <1>5, <1>6, <1>7 DEF ClientStep

LEMMA SendsOnly ==
  ASSUME NEW c \in Clients, ClientStep(c) \/ Crash(c)
  PROVE  up' = up \/ \E r \in Records : up' = [up EXCEPT ![c] = @ \cup {r}]
<1> USE DEF Sends, Records
<1>1. CASE ClientSetup(c) \/ Connect(c) \/ Receive(c) \/ Crash(c)
  BY <1>1 DEF ClientSetup, Connect, Receive, Crash
<1>2. CASE Hello(c)
  BY <1>2 DEF Hello
<1>3. CASE Verify(c)
  BY <1>3 DEF Verify
<1>4. CASE Say(c)
  BY <1>4 DEF Say
<1> QED BY <1>1, <1>2, <1>3, <1>4 DEF ClientStep

LEMMA PrintsOnly ==
  ASSUME NEW c \in Clients, ClientStep(c) \/ Crash(c)
  PROVE  \/ printed' = printed
         \/ \E m \in (down[c] \ {"flight"}) \cup {"empty"} : printed' = [printed EXCEPT ![c] = m]
BY DEF ClientStep, ClientSetup, Connect, Hello, Verify, Say, Receive, Crash

(* What it leaves alone of the others.                                     *)
LEMMA Others == ASSUME TypeOK, NEW c \in Clients, ClientStep(c) \/ Crash(c),
                       NEW d \in Clients, d # c
                PROVE  client'[d] = client[d] /\ up'[d] = up[d] /\ printed'[d] = printed[d]
<1>1. /\ client \in [Clients -> Places] /\ up \in [Clients -> SUBSET Records]
      /\ printed \in [Clients -> Clients \cup {"nothing", "empty", "garbled"}]
  BY DEF TypeOK, Records
<1> QED BY <1>1, Moves, SendsOnly, PrintsOnly

LEMMA ClientLeaves == ASSUME NEW c \in Clients, ClientStep(c) \/ Crash(c)
                      PROVE  UNCHANGED <<certificate, msg, serverVars, silent, down>>
BY DEF ClientStep, ClientSetup, Connect, Hello, Verify, Say, Receive, Crash

(* What a client's step does to the client itself.                         *)
LEMMA Itself ==
  ASSUME TypeOK, NEW c \in Clients, InStep(c), ClientStep(c) \/ Crash(c),
         OwnMessageOnly, SaidToTrustedOnly, EmptyOnlyIfKilled
  PROVE  /\ InStep(c)'
         /\ printed'[c] \in {"nothing", "empty", c}
         /\ "message" \in up'[c] \/ printed'[c] \in Clients => certificate' = "good"
         /\ printed'[c] = "empty" => server' = "killed"
<1>0. /\ client \in [Clients -> Places] /\ up \in [Clients -> SUBSET Records]
      /\ down \in [Clients -> SUBSET (Clients \cup {"flight", "garbled"})]
      /\ printed \in [Clients -> Clients \cup {"nothing", "empty", "garbled"}]
  BY DEF TypeOK, Records
<1> USE ClientsAssumption, <1>0
    DEF InStep, OwnMessageOnly, SaidToTrustedOnly, EmptyOnlyIfKilled, Trusted, Over, serverVars,
        At, Goes, Sends
<1>1. CASE ClientSetup(c)
  BY <1>1 DEF ClientSetup
<1>2. CASE Connect(c)
  BY <1>2 DEF Connect
<1>3. CASE Hello(c)
  BY <1>3 DEF Hello
<1>4. CASE Verify(c)
  BY <1>4 DEF Verify
<1>5. CASE Say(c)
  BY <1>5 DEF Say
<1>6. CASE Receive(c)
  BY <1>6 DEF Receive
<1>7. CASE Crash(c)
  BY <1>7 DEF Crash
<1> QED BY <1>1, <1>2, <1>3, <1>4, <1>5, <1>6, <1>7 DEF ClientStep

(* A client waits for the server in the queue at most once.                *)
LEMMA ClientOnePlace ==
  ASSUME TypeOK, OnePlace, NEW c \in Clients, ClientStep(c) \/ Crash(c)
  PROVE  OnePlace'
<1> SUFFICES ASSUME server # "killed"
             PROVE  OnePlace'
  BY ClientLeaves DEF OnePlace, serverVars
<1>1. client \in [Clients -> Places] /\ backlog \in Seq(Clients)
  BY DEF TypeOK
<1>2. UNCHANGED <<server, client_ssl, hung_up, down>>
  BY ClientLeaves DEF serverVars
<1>3. \A d \in Clients : client'[d] \in {"setup", "connect"} => client[d] \in {"setup", "connect"}
  BY <1>1, Moves
<1>4. CASE UNCHANGED backlog
  BY <1>2, <1>3, <1>4 DEF OnePlace
<1>5. CASE backlog' # backlog
  <2>1. client[c] = "connect" /\ client'[c] = "connected" /\ backlog' = Append(backlog, c)
    BY <1>1, <1>5 DEF ClientStep, ClientSetup, Connect, Hello, Verify, Say, Receive, Crash, Goes, At
  <2>2. \A i \in DOMAIN backlog' : \/ i \in DOMAIN backlog /\ backlog'[i] = backlog[i]
                                   \/ i = Len(backlog) + 1 /\ backlog'[i] = c
    BY <1>1, <2>1, Longer
  <2>3. /\ c # client_ssl /\ c \notin hung_up /\ "flight" \notin down[c]
        /\ \A i \in DOMAIN backlog : backlog[i] # c
    BY <2>1 DEF OnePlace
  <2>4. ASSUME NEW d \in Clients, client'[d] \in {"setup", "connect"}
        PROVE  /\ d # client_ssl /\ d \notin hung_up /\ "flight" \notin down[d]
               /\ \A i \in DOMAIN backlog' : backlog'[i] # d
    <3>1. d # c /\ client[d] \in {"setup", "connect"}
      BY <1>3, <2>1, <2>4
    <3> QED BY <2>2, <3>1 DEF OnePlace
  <2>5. ASSUME NEW i \in DOMAIN backlog'
        PROVE  /\ backlog'[i] # client_ssl /\ backlog'[i] \notin hung_up
               /\ "flight" \notin down[backlog'[i]]
    BY <2>2, <2>3 DEF OnePlace
  <2>6. ASSUME NEW i \in DOMAIN backlog', NEW j \in DOMAIN backlog', backlog'[i] = backlog'[j]
        PROVE  i = j
    BY <2>2, <2>3, <2>6 DEF OnePlace
  <2> QED BY <1>2, <2>4, <2>5, <2>6 DEF OnePlace
<1> QED BY <1>4, <1>5

(* The variables keep their types.                                         *)
LEMMA ClientType == ASSUME TypeOK, NEW c \in Clients, ClientStep(c) \/ Crash(c)
                    PROVE  TypeOK'
<1>1. client' \in [Clients -> Places]
  <2>1. client \in [Clients -> Places]
    BY DEF TypeOK
  <2> QED BY <2>1, Moves
<1>2. up' \in [Clients -> SUBSET Records]
  <2>1. up \in [Clients -> SUBSET Records]
    BY DEF TypeOK, Records
  <2> QED BY <2>1, SendsOnly
<1>3. printed' \in [Clients -> Clients \cup {"nothing", "empty", "garbled"}]
  <2>1. /\ down \in [Clients -> SUBSET (Clients \cup {"flight", "garbled"})]
        /\ printed \in [Clients -> Clients \cup {"nothing", "empty", "garbled"}]
    BY DEF TypeOK
  <2> QED BY <2>1, PrintsOnly
<1>5. backlog' \in Seq(Clients)
  <2>1. backlog \in Seq(Clients)
    BY DEF TypeOK
  <2>2. backlog' \in {backlog, Append(backlog, c)}
    BY DEF ClientStep, ClientSetup, Connect, Hello, Verify, Say, Receive, Crash
  <2> QED BY <2>1, <2>2, Longer
<1>4. services' \in [Clients -> Seq(BOOLEAN)]
  <2>1. services[c] \in Seq(BOOLEAN)
    BY DEF TypeOK
  <2>2. services[c] # <<>> => Tail(services[c]) \in Seq(BOOLEAN)
    BY <2>1, Shorter
  <2> QED BY <2>2 DEF TypeOK, ClientStep, ClientSetup, Connect, Hello, Verify, Say, Receive, Crash
<1> QED BY <1>1, <1>2, <1>3, <1>4, <1>5, ClientLeaves DEF TypeOK, serverVars, Records

LEMMA ClientKeeps == ASSUME Inv, NEW c \in Clients, ClientStep(c) \/ Crash(c)
                     PROVE  Inv'
<1>1. TypeOK' /\ OnePlace'
  BY ClientType, ClientOnePlace DEF Inv
<1>2. /\ InStep(c)'
      /\ printed'[c] \in {"nothing", "empty", c}
      /\ "message" \in up'[c] \/ printed'[c] \in Clients => certificate' = "good"
      /\ printed'[c] = "empty" => server' = "killed"
  BY Itself DEF Inv
<1>3. UNCHANGED <<certificate, msg, server, client_ssl, buf, nread, hung_up, silent, down>>
  BY ClientLeaves DEF serverVars
<1>4. ASSUME NEW d \in Clients, d # c
      PROVE  /\ InStep(d)'
             /\ printed'[d] \in {"nothing", "empty", d}
             /\ "message" \in up'[d] \/ printed'[d] \in Clients => certificate' = "good"
             /\ printed'[d] = "empty" => server' = "killed"
  <2>1. client'[d] = client[d] /\ up'[d] = up[d] /\ printed'[d] = printed[d]
    BY <1>4, Others DEF Inv
  <2> QED BY <1>3, <2>1 DEF Inv, InStep, OwnMessageOnly, SaidToTrustedOnly, EmptyOnlyIfKilled,
                            Trusted, Over
<1>5. Filled'
  BY <1>3 DEF Inv, Filled
<1> QED BY <1>1, <1>2, <1>3, <1>4, <1>5
        DEF Inv, OwnMessageOnly, SaidToTrustedOnly, EmptyOnlyIfKilled

LEMMA SilentKeeps == ASSUME Inv, NEW c \in Clients, FallSilent(c)
                     PROVE  Inv'
<1>1. /\ silent' \subseteq Clients
      /\ UNCHANGED <<certificate, msg, server, client_ssl, buf, nread, hung_up, backlog,
                     client, services, up, down, printed>>
  BY DEF Inv, TypeOK, FallSilent, serverVars
<1> QED BY <1>1 DEF Inv, TypeOK, OnePlace, Filled, InStep, OwnMessageOnly, SaidToTrustedOnly,
                    EmptyOnlyIfKilled, Trusted, Over

(* The server's steps.                                                     *)
LEMMA SetupKeeps == ASSUME Inv, ServerSetup
                    PROVE  Inv'
<1>1. /\ server = "setup" /\ server' \in {"accept", "failed"}
      /\ UNCHANGED <<certificate, msg, client_ssl, buf, nread, hung_up, backlog, client,
                     services, silent, up, down, printed>>
  BY DEF ServerSetup
<1>2. TypeOK'
  BY <1>1 DEF Inv, TypeOK
<1>3. OnePlace'
  BY <1>1 DEF Inv, OnePlace
<1>4. Filled'
  BY <1>1 DEF Inv, Filled
<1> QED BY <1>1, <1>2, <1>3, <1>4 DEF Inv, InStep, OwnMessageOnly, SaidToTrustedOnly,
                                EmptyOnlyIfKilled, Trusted, Over

(* The first connection that waits is served, or hung up on at once.       *)
LEMMA AcceptKeeps == ASSUME Inv, Accept
                     PROVE  Inv'
<1>1. /\ server = "accept" /\ backlog # <<>> /\ backlog' = Tail(backlog)
      /\ UNCHANGED <<certificate, msg, buf, nread, client, services, silent, up, down, printed>>
      /\ \/ server' = "hello" /\ client_ssl' = Head(backlog) /\ hung_up' = hung_up
         \/ /\ server' = "accept" /\ client_ssl' = client_ssl
            /\ hung_up' = hung_up \cup {Head(backlog)}
  BY DEF Accept
<1>2. backlog \in Seq(Clients) /\ Nobody \notin Clients
  BY ClientsAssumption DEF Inv, TypeOK
<1>3. /\ backlog' \in Seq(Clients) /\ Head(backlog) \in Clients /\ 1 \in DOMAIN backlog
      /\ Head(backlog) = backlog[1] /\ DOMAIN backlog' \subseteq Int
      /\ \A i \in DOMAIN backlog' :
            i + 1 \in DOMAIN backlog /\ i + 1 # 1 /\ backlog'[i] = backlog[i + 1]
  BY <1>1, <1>2, Shorter
<1>4. TypeOK'
  BY <1>1, <1>3 DEF Inv, TypeOK
<1>5. client_ssl = Nobody /\ server # "killed"
  BY <1>1 DEF Inv, OnePlace
<1>6. /\ Head(backlog) \notin hung_up /\ "flight" \notin down[Head(backlog)]
      /\ client[Head(backlog)] \notin {"setup", "connect"}
  BY <1>3, <1>5 DEF Inv, OnePlace
<1>7. ASSUME NEW i \in DOMAIN backlog'
      PROVE  backlog'[i] # Head(backlog) /\ \A j \in DOMAIN backlog' :
                                               backlog'[i] = backlog'[j] => i = j
  <2>1. i + 1 \in DOMAIN backlog /\ i + 1 # 1 /\ backlog'[i] = backlog[i + 1]
    BY <1>3
  <2>2. backlog[i + 1] # backlog[1]
    BY <1>3, <1>5, <2>1 DEF Inv, OnePlace
  <2>3. ASSUME NEW j \in DOMAIN backlog', backlog'[i] = backlog'[j]
        PROVE  i = j
    <3>1. j + 1 \in DOMAIN backlog /\ backlog'[j] = backlog[j + 1]
      BY <1>3
    <3>2. i + 1 = j + 1
      BY <1>5, <2>1, <2>3, <3>1 DEF Inv, OnePlace
    <3> QED BY <1>3, <3>2
  <2> QED BY <1>3, <2>1, <2>2, <2>3
<1>8. ASSUME NEW i \in DOMAIN backlog'
      PROVE  /\ backlog'[i] # client_ssl' /\ backlog'[i] \notin hung_up'
             /\ "flight" \notin down'[backlog'[i]]
  <2>1. backlog'[i] \in Clients /\ backlog'[i] \notin hung_up /\ "flight" \notin down[backlog'[i]]
    BY <1>2, <1>3, <1>5 DEF Inv, OnePlace
  <2> QED BY <1>1, <1>2, <1>5, <1>7, <2>1
<1>9. ASSUME NEW c \in Clients, client'[c] \in {"setup", "connect"}
      PROVE  /\ c # client_ssl' /\ c \notin hung_up' /\ "flight" \notin down'[c]
             /\ \A i \in DOMAIN backlog' : backlog'[i] # c
  BY <1>1, <1>2, <1>3, <1>5, <1>6, <1>9 DEF Inv, OnePlace
<1>10. OnePlace'
  <2>1. client_ssl' # Nobody <=> server' \in {"hello", "handshake", "read", "echo"}
    BY <1>1, <1>2, <1>3, <1>5
  <2>2. client_ssl' \notin hung_up'
    BY <1>1, <1>2, <1>3, <1>5, <1>6 DEF Inv, OnePlace
  <2> QED BY <1>7, <1>8, <1>9, <2>1, <2>2 DEF OnePlace
<1>11. \A c \in Clients : InStep(c)'
  BY <1>1, <1>5, <1>6 DEF Inv, InStep, Trusted, Over
<1>12. Filled'
  BY <1>1 DEF Filled
<1> QED BY <1>1, <1>4, <1>5, <1>10, <1>11, <1>12
        DEF Inv, OwnMessageOnly, SaidToTrustedOnly, EmptyOnlyIfKilled

Serves == AcceptHello \/ AcceptFinished \/ Read \/ Echo

(* The parts that the last read has filled are its client's message: it is *)
(* nobody else's, as no message is without a part.                         *)
LEMMA EchoesOwn == ASSUME TypeOK, Filled, server = "echo", client_ssl \in Clients
                   PROVE  Contents(nread) = client_ssl
<1> DEFINE parts == [i \in 1 .. nread |-> buf[i]]
<1>1. nread = msg[client_ssl] /\ nread \in Nat /\ nread # 0
  <2>1. msg[client_ssl] \in 1 .. BufSize
    BY DEF TypeOK
  <2>2. nread = msg[client_ssl]
    BY DEF Filled
  <2> QED BY <2>1, <2>2, BufSizeAssumption
<1>2. parts = Message(client_ssl)
  BY <1>1 DEF Filled, Message
<1>3. ASSUME NEW c \in Clients, parts = Message(c) PROVE c = client_ssl
  <2>1. 1 \in DOMAIN parts /\ parts[1] = buf[1] /\ buf[1] = client_ssl
    BY <1>1 DEF Filled
  <2>2. DOMAIN Message(c) = 1 .. msg[c] /\ \A i \in 1 .. msg[c] : Message(c)[i] = c
    BY DEF Message
  <2> QED BY <1>3, <2>1, <2>2
<1> HIDE DEF parts
<1>4. (CHOOSE c \in Clients : parts = Message(c)) = client_ssl
  BY <1>2, <1>3
<1>5. Contents(nread) = IF \E c \in Clients : parts = Message(c)
                        THEN CHOOSE c \in Clients : parts = Message(c) ELSE "garbled"
  BY DEF Contents, parts
<1> QED BY <1>2, <1>4, <1>5

(* The buffer through a step of the server for the client that is served.  *)
LEMMA BufferKept == ASSUME Inv, Serves, client_ssl \in Clients
                    PROVE  /\ buf' \in [1 .. BufSize -> Clients \cup {Nobody}]
                           /\ nread' \in 0 .. BufSize
                           /\ Filled'
<1>0. /\ buf \in [1 .. BufSize -> Clients \cup {Nobody}] /\ nread \in 0 .. BufSize
      /\ msg[client_ssl] \in 1 .. BufSize /\ BufSize \in Nat
  BY BufSizeAssumption DEF Inv, TypeOK
<1>1. CASE ReadMessage /\ UNCHANGED msg
  <2>1. nread' = msg[client_ssl] /\ UNCHANGED client_ssl
    BY <1>1 DEF ReadMessage
  <2>2. buf' = [i \in 1 .. BufSize |-> IF i <= nread' THEN client_ssl ELSE buf[i]]
    BY <1>1 DEF ReadMessage
  <2>3. buf' \in [1 .. BufSize -> Clients \cup {Nobody}] /\ nread' \in 0 .. BufSize
    BY <1>0, <2>1, <2>2
  <2>4. \A i \in 1 .. nread' : i \in 1 .. BufSize /\ i <= nread'
    BY <1>0, <2>1
  <2>5. \A i \in 1 .. nread' : buf'[i] = client_ssl
    BY <2>2, <2>4
  <2> QED BY <1>1, <2>1, <2>3, <2>5 DEF Filled
<1>2. CASE server' # "echo" /\ UNCHANGED buf /\ nread' \in {nread, 0}
  BY <1>0, <1>2 DEF Filled
<1>3. \/ ReadMessage /\ UNCHANGED msg
      \/ server' # "echo" /\ UNCHANGED buf /\ nread' \in {nread, 0}
  BY DEF Serves, AcceptHello, AcceptFinished, Read, Echo, Write, HangUp, KilledWriting, Broken
<1> QED BY <1>1, <1>2, <1>3

(* What may come of a step for the client that is served: the server goes  *)
(* on with it, hangs up, or is killed.                                     *)
LEMMA Outcomes ==
  ASSUME Inv, Serves
  PROVE  /\ client_ssl \in Clients /\ server # "killed"
         /\ UNCHANGED <<certificate, msg, backlog, client, services, silent, printed>>
         /\ \E taken \in SUBSET Records :
               up' = up \/ up' = [up EXCEPT ![client_ssl] = @ \ taken]
         /\ \/ /\ server' \in {"handshake", "read", "echo"}
               /\ UNCHANGED <<client_ssl, hung_up>>
               /\ \E records \in SUBSET {"flight", client_ssl} :
                     down' = down \/ down' = [down EXCEPT ![client_ssl] = @ \cup records]
            \/ /\ Over(client_ssl) /\ server' = "accept" /\ client_ssl' = Nobody
               /\ hung_up' = hung_up \cup {client_ssl} /\ UNCHANGED down
            \/ /\ server' = "killed" /\ client_ssl' = Nobody
               /\ hung_up' = Clients /\ UNCHANGED down
<1>1. server \in {"hello", "handshake", "read", "echo"}
  BY DEF Serves, AcceptHello, AcceptFinished, Read, ReadMessage, Echo
<1>2. client_ssl \in Clients
  BY <1>1, Served DEF Inv
<1>3. "alert" \in up[client_ssl] => Over(client_ssl)
  BY <1>2 DEF Inv, InStep
<1> USE <1>1, <1>2, <1>3 DEF Takes, Write, Broken, HangUp, KilledWriting, Records
<1>4. CASE AcceptHello
  BY <1>4 DEF AcceptHello
<1>5. CASE AcceptFinished
  BY <1>5 DEF AcceptFinished
<1>6. CASE Read
  BY <1>6 DEF Read, ReadMessage
<1>7. CASE Echo
  <2>1. Contents(nread) = client_ssl
    BY <1>7, EchoesOwn DEF Echo, Inv
  <2> QED BY <1>7, <2>1 DEF Echo
<1> QED BY <1>4, <1>5, <1>6, <1>7 DEF Serves

LEMMA ServesKeeps == ASSUME Inv, Serves
                     PROVE  Inv'
<1> DEFINE s == client_ssl
<1>1. /\ s \in Clients /\ s # Nobody /\ server # "killed"
      /\ UNCHANGED <<certificate, msg, backlog, client, services, silent, printed>>
  BY Outcomes, ClientsAssumption
<1>2. /\ up' \in [Clients -> SUBSET Records]
      /\ \A c \in Clients : up'[c] \subseteq up[c]
  <2>1. up \in [Clients -> SUBSET Records]
    BY DEF Inv, TypeOK, Records
  <2> QED BY <1>1, <2>1, Outcomes
<1>3. /\ down' \in [Clients -> SUBSET (Clients \cup {"flight", "garbled"})]
      /\ \A c \in Clients : down[c] \subseteq down'[c] /\ down'[c] \subseteq {"flight", c}
      /\ \A c \in Clients \ {s} : down'[c] = down[c]
  <2>1. /\ down \in [Clients -> SUBSET (Clients \cup {"flight", "garbled"})]
        /\ \A c \in Clients : down[c] \subseteq {"flight", c}
    BY DEF Inv, TypeOK, InStep
  <2>2. \E records \in SUBSET {"flight", s} :
            down' = down \/ down' = [down EXCEPT ![s] = @ \cup records]
    BY Outcomes
  <2>3. CASE down' = down
    BY <2>1, <2>3
  <2>4. ASSUME NEW records \in SUBSET {"flight", s}, down' = [down EXCEPT ![s] = @ \cup records]
        PROVE  /\ down' \in [Clients -> SUBSET (Clients \cup {"flight", "garbled"})]
               /\ \A c \in Clients : down[c] \subseteq down'[c] /\ down'[c] \subseteq {"flight", c}
               /\ \A c \in Clients \ {s} : down'[c] = down[c]
    <3>1. \A c \in Clients \ {s} : down'[c] = down[c]
      BY <2>1, <2>4
    <3>2. down'[s] = down[s] \cup records
      BY <1>1, <2>1, <2>4
    <3>3. \A c \in Clients : down[c] \subseteq down'[c] /\ down'[c] \subseteq {"flight", c}
      BY <2>1, <3>1, <3>2
    <3>4. down' \in [Clients -> SUBSET (Clients \cup {"flight", "garbled"})]
      BY <1>1, <2>1, <2>4
    <3> QED BY <3>1, <3>3, <3>4
  <2> QED BY <2>2, <2>3, <2>4
<1>4. TypeOK' /\ Filled'
  <2>1. server' \in {"handshake", "read", "echo", "accept", "killed"}
    BY Outcomes
  <2>2. client_ssl' \in Clients \cup {Nobody} /\ hung_up' \subseteq Clients
    BY <1>1, Outcomes DEF Inv, TypeOK
  <2>3. /\ buf' \in [1 .. BufSize -> Clients \cup {Nobody}] /\ nread' \in 0 .. BufSize
        /\ Filled'
    BY <1>1, BufferKept
  <2> QED BY <1>1, <1>2, <1>3, <2>1, <2>2, <2>3 DEF Inv, TypeOK, Records
<1>5. \A i \in DOMAIN backlog : backlog[i] \in Clients
  <2>1. backlog \in Seq(Clients)
    BY DEF Inv, TypeOK
  <2> QED BY <2>1
<1>6. CASE /\ server' \in {"handshake", "read", "echo"}
           /\ UNCHANGED <<client_ssl, hung_up>>
  <2>1. OnePlace'
    BY <1>1, <1>3, <1>5, <1>6 DEF Inv, OnePlace
  <2>2. s \notin hung_up
    BY <1>1 DEF Inv, OnePlace
  <2>3. ASSUME NEW c \in Clients PROVE InStep(c)'
    <3>1. c \in hung_up' /\ "flight" \in down'[c] => Over(c)
      BY <1>1, <1>3, <1>6, <2>2 DEF Inv, InStep
    <3> QED BY <1>1, <1>2, <1>3, <3>1 DEF Inv, InStep, Trusted, Over
  <2> QED BY <1>1, <1>2, <1>4, <1>6, <2>1, <2>3
          DEF Inv, OwnMessageOnly, SaidToTrustedOnly, EmptyOnlyIfKilled
<1>7. CASE /\ Over(s) /\ server' = "accept" /\ client_ssl' = Nobody
           /\ hung_up' = hung_up \cup {s} /\ UNCHANGED down
  <2>1. OnePlace'
    <3>1. client'[s] \notin {"setup", "connect"}
      BY <1>1, <1>7 DEF Over
    <3>2. Nobody \notin hung_up'
      BY <1>4, ClientsAssumption DEF TypeOK
    <3>3. \A c \in Clients : c # Nobody
      BY ClientsAssumption
    <3> QED BY <1>1, <1>5, <1>7, <3>1, <3>2, <3>3 DEF Inv, OnePlace
  <2>2. ASSUME NEW c \in Clients PROVE InStep(c)'
    BY <1>1, <1>2, <1>3, <1>7 DEF Inv, InStep, Trusted, Over
  <2> QED BY <1>1, <1>2, <1>4, <1>7, <2>1, <2>2
          DEF Inv, OwnMessageOnly, SaidToTrustedOnly, EmptyOnlyIfKilled
<1>8. CASE server' = "killed" /\ client_ssl' = Nobody
  <2>1. OnePlace'
    BY <1>8 DEF OnePlace
  <2>2. ASSUME NEW c \in Clients PROVE InStep(c)'
    BY <1>1, <1>2, <1>3, <1>8 DEF Inv, InStep, Trusted, Over
  <2> QED BY <1>1, <1>2, <1>4, <1>8, <2>1, <2>2
          DEF Inv, OwnMessageOnly, SaidToTrustedOnly, EmptyOnlyIfKilled
<1> QED BY <1>6, <1>7, <1>8, Outcomes

LEMMA NextKeeps == Inv /\ [Next]_vars => Inv'
<1> SUFFICES ASSUME Inv, [Next]_vars PROVE Inv'
  OBVIOUS
<1>1. CASE UNCHANGED vars
  BY <1>1, ZenonT(60)
     DEF vars, serverVars, Inv, TypeOK, OnePlace, Filled, InStep, OwnMessageOnly, SaidToTrustedOnly,
         EmptyOnlyIfKilled, Trusted, Over
<1>2. CASE ServerStep
  BY <1>2, SetupKeeps, AcceptKeeps, ServesKeeps DEF ServerStep, Serves
<1>3. CASE \E c \in Clients : ClientStep(c) \/ Crash(c) \/ FallSilent(c)
  BY <1>3, ClientKeeps, SilentKeeps
<1> QED BY <1>1, <1>2, <1>3 DEF Next

(* Inv is inductive, however many clients come and in whatever way they    *)
(* end: a connection is in one place, until the server is killed, and what *)
(* is in flight fits the place its client has reached.                     *)
THEOREM Invariance == Spec => []Inv
  BY InitInv, NextKeeps, PTL DEF Spec

(* A client prints its own message or none, whoever was served before.     *)
THEOREM OwnMessage == Spec => []OwnMessageOnly
<1>1. Inv => OwnMessageOnly
  BY DEF Inv
<1> QED BY <1>1, Invariance, PTL

(* A message leaves a client only for a server that the client trusts.     *)
THEOREM SaidToTrusted == Spec => []SaidToTrustedOnly
<1>1. Inv => SaidToTrustedOnly
  BY DEF Inv
<1> QED BY <1>1, Invariance, PTL

(* A client that runs misses its answer only if the server was killed.     *)
THEOREM Answered == Spec => []EmptyOnlyIfKilled
<1>1. Inv => EmptyOnlyIfKilled
  BY DEF Inv
<1> QED BY <1>1, Invariance, PTL
=============================================================================
