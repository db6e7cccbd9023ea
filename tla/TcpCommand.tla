----------------------------- MODULE TcpCommand -----------------------------
(***************************************************************************)
(* Commands over TCP: clients connect and write commands, T6 accepts them  *)
(* (NetworkNode::acceptTcpClient), and T3 polls (receiveCommandTCP).       *)
(*                                                                         *)
(* A byte is known by its place: the part-th byte of the no-th command of  *)
(* its client.  The first byte of every command is SYNC, and others may    *)
(* have its value too.  The fd number stands for the connection it was     *)
(* opened for; a recv() in progress keeps the connection it was called on, *)
(* whatever close() does.                                                  *)
(***************************************************************************)
EXTENDS Integers, Sequences, FiniteSets

CONSTANTS
  MaxConns,    \* bound: connections clients open
  TypeOf,      \* the types of the commands a client sends on a connection
  HeaderLen,   \* bytes of the header, of which the type is the last (3)
  PayloadLen,  \* bytes of payload of each type of command (10 or 3)
  LooksSync    \* bytes of a command that may have the value of SYNC, 0xBB

Conns == 1 .. MaxConns
Types == DOMAIN PayloadLen
Last(no) == 1 + HeaderLen + PayloadLen[TypeOf[no]]

ASSUME CommandAssumption ==
  /\ MaxConns \in Nat /\ HeaderLen \in Nat \ {0}
  /\ \A t \in Types : PayloadLen[t] \in Nat \ {0}
  /\ TypeOf \in Seq(Types) /\ TypeOf # <<>>

NoConn == 0

VARIABLES
  running,  \* system_running
  peer,     \* of each connection: "new", "queued", "open", "closed"
  sent,     \* of each connection: the last byte its client wrote
  stream,   \* of each connection: what the kernel holds for the station
  \* NetworkNode and T6
  fd,       \* tcp_client_fd
  fdOpen,   \* its connection is not closed by T6
  t6,       \* "accept", "close", "store"
  new,      \* new_fd
  \* T3
  t3,       \* "idle", "header", "payload", "done"
  file,     \* the connection a blocking recv() is on
  got,      \* the bytes of a command received so far
  type,     \* pkt.type
  cut,      \* history: connections on which a recv() returned less than asked for
  command,  \* history: the bytes of the command T3 executed last
  strays    \* history: commands executed with bytes of a closed connection

client == <<peer, sent>>
accept == <<fd, fdOpen, t6, new>>
exec   == <<command, strays>>
poll   == <<t3, file, got, type, cut>>
vars   == <<running, client, stream, accept, poll, exec>>

Byte == [conn : Conns, no : DOMAIN TypeOf, part : Nat]
Whole(c, no) == [i \in 1 .. Last(no) |-> [conn |-> c, no |-> no, part |-> i]]

Init ==
  /\ running = TRUE
  /\ peer = [c \in Conns |-> "new"]
  /\ sent = [c \in Conns |-> [conn |-> c, no |-> 1, part |-> 0]]
  /\ stream = [c \in Conns |-> <<>>]
  /\ fd = NoConn /\ fdOpen = FALSE /\ t6 = "accept" /\ new = NoConn
  /\ t3 = "idle" /\ file = NoConn /\ got = <<>> /\ type \in Types /\ cut = {}
  /\ command = <<>> /\ strays = [c \in Conns |-> 0]

\* the station has connection c open, or a recv() in progress keeps it
Current(c) == new = c \/ (fd = c /\ fdOpen)
Held(c) == peer[c] = "queued" \/ Current(c) \/ file = c

-----------------------------------------------------------------------------
(***************************************************************************)
(* The clients.  What is written to a connection that the station no       *)
(* longer holds vanishes.                                                  *)
(***************************************************************************)
\* connections are numbered in the order in which the listener queues them
Connect(c) ==
  /\ peer[c] = "new" /\ \A d \in 1 .. c - 1 : peer[d] # "new"
  /\ peer' = [peer EXCEPT ![c] = "queued"]
  /\ UNCHANGED <<running, sent, stream, accept, poll, exec>>

\* the byte a client writes after b
Following(b) ==
  IF b.part < Last(b.no) THEN [conn |-> b.conn, no |-> b.no, part |-> b.part + 1]
  ELSE [conn |-> b.conn, no |-> b.no + 1, part |-> 1]

Write(c) ==
  LET b == Following(sent[c])
  IN /\ Held(c) /\ peer[c] # "closed"
     /\ b.no \in DOMAIN TypeOf
     /\ sent' = [sent EXCEPT ![c] = b]
     /\ stream' = [stream EXCEPT ![c] = Append(@, b)]
     /\ UNCHANGED <<running, peer, accept, poll, exec>>

Hangup(c) ==
  /\ peer[c] = "open"
  /\ peer' = [peer EXCEPT ![c] = "closed"]
  /\ UNCHANGED <<running, sent, stream, accept, poll, exec>>

-----------------------------------------------------------------------------
(***************************************************************************)
(* T6: acceptTcpClient never looks at system_running.                      *)
(***************************************************************************)
Accept(c) ==
  /\ t6 = "accept"
  /\ peer[c] = "queued" /\ \A d \in 1 .. c - 1 : peer[d] # "queued"
  /\ peer' = [peer EXCEPT ![c] = "open"]
  /\ new' = c
  /\ t6' = "close"
  /\ UNCHANGED <<running, sent, stream, fd, fdOpen, poll, exec>>

CloseOld ==
  /\ t6 = "close"
  /\ fdOpen' = FALSE
  /\ t6' = "store"
  /\ UNCHANGED <<running, client, stream, fd, new, poll, exec>>

StoreNew ==
  /\ t6 = "store"
  /\ fd' = new
  /\ fdOpen' = TRUE
  /\ new' = NoConn
  /\ t6' = "accept"
  /\ UNCHANGED <<running, client, stream, poll, exec>>

T6 == CloseOld \/ StoreNew \/ \E c \in Conns : Accept(c)

-----------------------------------------------------------------------------
(***************************************************************************)
(* T3: a poll takes one byte without blocking, then receives the header    *)
(* and the payload with blocking calls, each on whatever tcp_client_fd is. *)
(***************************************************************************)
t3Frame == <<running, client, accept>>

\* mutated: a failed poll keeps what it had received
EndPoll_KeepGot ==
  /\ t3' = "idle"
  /\ file' = NoConn
  /\ UNCHANGED got

\* mutated: the descriptor of the first blocking call is kept for later polls
EndPoll_KeepFile ==
  /\ t3' = "idle"
  /\ UNCHANGED file
  /\ got' = <<>>

\* receiveCommandTCP returns
EndPoll ==
  /\ t3' = "idle"
  /\ file' = NoConn
  /\ got' = <<>>

LooksLikeSync(b) == b.part = 1 \/ b.part \in LooksSync

Sync ==
  /\ t3 = "idle" /\ running
  /\ fdOpen /\ stream[fd] # <<>>
  /\ LET b == Head(stream[fd])
     IN IF LooksLikeSync(b) THEN t3' = "header" /\ got' = <<b>>
        ELSE UNCHANGED <<t3, got>>
  /\ stream' = [stream EXCEPT ![fd] = Tail(@)]
  /\ UNCHANGED <<t3Frame, file, type, cut, exec>>

Receiving == t3 \in {"header", "payload"}
Wanted == IF t3 = "header" THEN HeaderLen ELSE PayloadLen[type]

RecvCall ==
  /\ Receiving /\ file = NoConn
  /\ IF fdOpen THEN file' = fd /\ UNCHANGED <<t3, got>> ELSE EndPoll
  /\ UNCHANGED <<t3Frame, stream, type, cut, exec>>

\* what a byte says when it is taken for the type, the last byte of the header
TypesSeen(b) == IF b.part = 1 + HeaderLen THEN {TypeOf[b.no]} ELSE Types

ClosedByStation(c) == peer[c] \notin {"new", "queued"} /\ ~Current(c)

Execute(bytes) ==
  /\ command' = bytes
  /\ strays' = [c \in Conns |->
       IF ClosedByStation(c) /\ \E i \in DOMAIN bytes : bytes[i].conn = c
       THEN strays[c] + 1 ELSE strays[c]]

\* mutated: only an error ends the poll, whatever the number of bytes
Short_Ignored(n) == n <= 0

\* recv() returned fewer bytes than asked for
Short(n) == n # Wanted

RecvReturns ==
  /\ Receiving /\ file # NoConn /\ stream[file] # <<>>
  /\ LET n     == IF Len(stream[file]) < Wanted THEN Len(stream[file]) ELSE Wanted
         bytes == got \o SubSeq(stream[file], 1, n)
     IN /\ stream' = [stream EXCEPT ![file] = SubSeq(@, n + 1, Len(@))]
        /\ cut' = IF Short(n) THEN cut \cup {file} ELSE cut
        /\ CASE Short(n) -> EndPoll /\ UNCHANGED <<type, exec>>
             [] ~Short(n) /\ t3 = "header" ->
                  /\ t3' = "payload"
                  /\ file' = NoConn
                  /\ got' = bytes
                  /\ type' \in TypesSeen(bytes[Len(bytes)])
                  /\ UNCHANGED exec
             [] ~Short(n) /\ t3 = "payload" ->
                  EndPoll /\ Execute(bytes) /\ UNCHANGED type
  /\ UNCHANGED t3Frame

\* mutated: recv() is called again when it returns 0
RecvEof_Retry ==
  /\ Receiving /\ file # NoConn /\ stream[file] = <<>> /\ peer[file] = "closed"
  /\ file' = NoConn
  /\ UNCHANGED <<t3Frame, stream, t3, got, type, cut, exec>>

RecvEof ==
  /\ Receiving /\ file # NoConn /\ stream[file] = <<>> /\ peer[file] = "closed"
  /\ EndPoll
  /\ cut' = cut \cup {file}
  /\ UNCHANGED <<t3Frame, stream, type, exec>>

Leave ==
  /\ t3 = "idle" /\ ~running
  /\ t3' = "done"
  /\ UNCHANGED <<t3Frame, stream, file, got, type, cut, exec>>

T3 == Sync \/ RecvCall \/ RecvReturns \/ RecvEof \/ Leave

Signal ==
  /\ running
  /\ running' = FALSE
  /\ UNCHANGED <<client, stream, accept, poll, exec>>

Next ==
  \/ \E c \in Conns : Connect(c) \/ Write(c) \/ Hangup(c)
  \/ T6 \/ T3
  \/ Signal

Spec == Init /\ [][Next]_vars

(***************************************************************************)
(* T3 and T6 are threads that the system schedules; a client owes nothing. *)
(***************************************************************************)
FairSpec == Spec /\ WF_vars(T3) /\ WF_vars(T6)

-----------------------------------------------------------------------------
TypeOK ==
  /\ running \in BOOLEAN /\ fdOpen \in BOOLEAN
  /\ peer \in [Conns -> {"new", "queued", "open", "closed"}]
  /\ sent \in [Conns -> Byte]
  /\ stream \in [Conns -> Seq(Byte)]
  /\ t6 \in {"accept", "close", "store"}
  /\ fd \in Conns \cup {NoConn} /\ new \in Conns \cup {NoConn}
  /\ fdOpen => fd # NoConn
  /\ t3 \in {"idle", "header", "payload", "done"}
  /\ file \in Conns \cup {NoConn}
  /\ got \in Seq(Byte)
  /\ Len(got) = CASE t3 = "header" -> 1 [] t3 = "payload" -> 1 + HeaderLen [] OTHER -> 0
  /\ type \in Types
  /\ cut \subseteq Conns
  /\ command \in Seq(Byte)
  /\ strays \in [Conns -> Nat]

(***************************************************************************)
(* However the streams are cut, what T3 executes as a command is a stretch *)
(* of what a client wrote, or of several clients of which each replaced    *)
(* the one before; it begins after everything executed before, so that no  *)
(* byte is executed twice or out of order; and of one client and from the  *)
(* first byte of a command it is that command.  It begins elsewhere only   *)
(* if a recv() had fallen short on that connection, after which T3 hunts   *)
(* through the rest of the command (NetworkNode.cpp:220, 226, 238), or a   *)
(* client was replaced.                                                    *)
(***************************************************************************)
Earlier(b, d) ==
  \/ b.conn < d.conn
  \/ b.conn = d.conn /\ (b.no < d.no \/ (b.no = d.no /\ b.part < d.part))

OneClient(bytes) == \A i \in DOMAIN bytes : bytes[i].conn = bytes[1].conn

NeverReplaced == \A c \in Conns : ~ClosedByStation(c)

ExecutedInOrder ==
  [][/\ command' # <<>>
     /\ \A i \in 1 .. Len(command') - 1 :
          \/ command'[i + 1] = Following(command'[i])
          \/ command'[i + 1].conn > command'[i].conn
     /\ command # <<>> => Earlier(command[Len(command)], command'[1])
     /\ OneClient(command') /\ command'[1].part = 1
          => command' = Whole(command'[1].conn, command'[1].no)
     /\ \/ command'[1].part = 1
        \/ command'[1].conn \in cut
        \/ ~NeverReplaced]_command

(***************************************************************************)
(* Once T6 has closed a client's connection, at most one more command      *)
(* holds anything that client sent: the one T3 was receiving.              *)
(***************************************************************************)
ReplacedClientActsOnce == \A c \in Conns : strays[c] <= 1

(***************************************************************************)
(* A poll comes to an end whatever T6 does to its connection, unless T3 is *)
(* blocked for ever in the recv() of a header or a payload (226, 238, 245) *)
(* by a client that neither writes on nor hangs up.  Nothing else holds    *)
(* T3, but that does: only the first byte is read without blocking, where  *)
(* the comment at 208 calls the whole call non-blocking.                   *)
(***************************************************************************)
Blocked == file # NoConn /\ stream[file] = <<>> /\ peer[file] # "closed"

PollReturns == Receiving ~> t3 = "idle" \/ []Blocked

=============================================================================
