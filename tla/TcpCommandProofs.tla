-------------------------- MODULE TcpCommandProofs --------------------------
(***************************************************************************)
(* Theorems about TcpCommand, for any number of connections, any types of  *)
(* commands, any lengths and any bytes that look like the first one.       *)
(***************************************************************************)
EXTENDS TcpCommand, TLAPS

(***************************************************************************)
(* The type invariant in parts, with what T6 holds while it replaces a     *)
(* client and how much of a command T3 has at each place.                  *)
(***************************************************************************)
Flags == running \in BOOLEAN /\ fdOpen \in BOOLEAN

Clients ==
  /\ peer \in [Conns -> {"new", "queued", "open", "closed"}]
  /\ sent \in [Conns -> Byte] /\ \A c \in Conns : sent[c].conn = c

Streams == stream \in [Conns -> Seq(Byte)]

Acceptor ==
  /\ t6 \in {"accept", "close", "store"}
  /\ fd \in Conns \cup {NoConn} /\ new \in Conns \cup {NoConn}
  /\ t6 \in {"close", "store"} => new \in Conns
  /\ fdOpen = TRUE => fd \in Conns

Poller ==
  /\ t3 \in {"idle", "header", "payload", "done"}
  /\ file \in Conns \cup {NoConn}
  /\ got \in Seq(Byte)
  /\ t3 = "header" => Len(got) = 1
  /\ t3 = "payload" => Len(got) = 1 + HeaderLen
  /\ t3 \in {"idle", "done"} => got = <<>>
  /\ type \in Types

Cuts == cut \subseteq Conns

History == command \in Seq(Byte) /\ strays \in [Conns -> Nat]

Shape == Flags /\ Clients /\ Streams /\ Acceptor /\ Poller /\ Cuts /\ History

LEMMA Constants ==
  /\ MaxConns \in Nat /\ NoConn \notin Conns
  /\ \A t \in Types : PayloadLen[t] \in Nat /\ PayloadLen[t] >= 1
  /\ TypeOf \in Seq(Types) /\ 1 \in DOMAIN TypeOf
  /\ \A no \in DOMAIN TypeOf : TypeOf[no] \in Types
  /\ HeaderLen \in Nat /\ HeaderLen >= 1
BY CommandAssumption DEF Conns, NoConn

(***************************************************************************)
(* The byte that follows another of the same client.                       *)
(***************************************************************************)
Piece(c, no, part) == [conn |-> c, no |-> no, part |-> part]

LEMMA NextPiece ==
  ASSUME NEW b \in Byte
  PROVE  /\ b.no \in Nat /\ b.part \in Nat /\ b.conn \in Conns
         /\ b = Piece(b.conn, b.no, b.part)
         /\ Following(b).conn = b.conn
         /\ b.part < Last(b.no) => Following(b) = Piece(b.conn, b.no, b.part + 1)
         /\ ~(b.part < Last(b.no)) => Following(b) = Piece(b.conn, b.no + 1, 1)
         /\ Following(b).no \in Nat /\ Following(b).part \in Nat
         /\ Following(b).no \in DOMAIN TypeOf => Following(b) \in Byte
         /\ Following(b) = Piece(b.conn, Following(b).no, Following(b).part)
<1>1. b.no \in Nat /\ b.part \in Nat /\ b.conn \in Conns /\ b = Piece(b.conn, b.no, b.part)
  BY Constants DEF Byte, Piece
<1>2. CASE b.part < Last(b.no)
  <2>1. Following(b) = Piece(b.conn, b.no, b.part + 1)
    BY <1>2 DEF Following, Piece
  <2>. QED
    BY <1>1, <1>2, <2>1 DEF Piece, Byte
<1>3. CASE ~(b.part < Last(b.no))
  <2>1. Following(b) = Piece(b.conn, b.no + 1, 1)
    BY <1>3 DEF Following, Piece
  <2>. QED
    BY <1>1, <1>3, <2>1 DEF Piece, Byte
<1>. QED
  BY <1>2, <1>3

(***************************************************************************)
(* Who changes what.                                                       *)
(***************************************************************************)
LEMMA AcceptFrame ==
  ASSUME accept' = accept
  PROVE  fd' = fd /\ fdOpen' = fdOpen /\ t6' = t6 /\ new' = new
BY Zenon DEF accept

LEMMA AcceptSteps ==
  ASSUME [Next]_vars
  PROVE  \/ accept' = accept
         \/ \E c \in Conns : Accept(c)
         \/ CloseOld \/ StoreNew
BY Zenon DEF Next, vars, T6, T3, Connect, Write, Hangup, Sync, RecvCall, RecvReturns,
             RecvEof, Leave, Signal, t3Frame

LEMMA ClientSteps ==
  ASSUME [Next]_vars
  PROVE  \/ peer' = peer /\ sent' = sent
         \/ \E c \in Conns : Connect(c) \/ Write(c) \/ Hangup(c) \/ Accept(c)
BY Zenon DEF Next, vars, T6, T3, CloseOld, StoreNew, Sync, RecvCall, RecvReturns,
             RecvEof, Leave, Signal, t3Frame, client

LEMMA StreamSteps ==
  ASSUME [Next]_vars
  PROVE  \/ stream' = stream
         \/ \E c \in Conns : Write(c)
         \/ Sync \/ RecvReturns
BY Zenon DEF Next, vars, T6, T3, Connect, Hangup, Accept, CloseOld, StoreNew, RecvCall,
             RecvEof, Leave, Signal

LEMMA PollSteps ==
  ASSUME [Next]_vars
  PROVE  \/ T3
         \/ /\ t3' = t3 /\ file' = file /\ got' = got /\ type' = type
            /\ command' = command /\ strays' = strays /\ cut' = cut
BY Zenon DEF Next, vars, T6, Connect, Write, Hangup, Accept, CloseOld, StoreNew, Signal,
             poll, exec

(***************************************************************************)
(* A blocking recv(): what it returns and what it leaves.                  *)
(***************************************************************************)
LEMMA TwoInARow ==
  ASSUME NEW S, NEW a \in Seq(S), NEW b \in Seq(S)
  PROVE  /\ a \o b \in Seq(S) /\ Len(a \o b) = Len(a) + Len(b)
         /\ \A i \in 1 .. Len(a) : (a \o b)[i] = a[i]
         /\ \A i \in 1 .. Len(b) : (a \o b)[Len(a) + i] = b[i]
OBVIOUS

Taken(s, w) == IF Len(s) < w THEN Len(s) ELSE w

LEMMA TakenPart ==
  ASSUME NEW s \in Seq(Byte), NEW g \in Seq(Byte), NEW w \in Nat
  PROVE  LET n     == Taken(s, w)
             bytes == g \o SubSeq(s, 1, n)
             rest  == SubSeq(s, n + 1, Len(s))
         IN  /\ n \in 0 .. w
             /\ bytes \in Seq(Byte) /\ Len(bytes) = Len(g) + n
             /\ rest \in Seq(Byte)
             /\ \A i \in DOMAIN rest : \E j \in DOMAIN s : rest[i] = s[j]
             /\ \A i \in DOMAIN bytes : \/ i \in DOMAIN g /\ bytes[i] = g[i]
                                        \/ \E j \in DOMAIN s : bytes[i] = s[j]
<1> DEFINE n == Taken(s, w)
           part == SubSeq(s, 1, n)
           bytes == g \o part
           rest == SubSeq(s, n + 1, Len(s))
<1>1. n \in 0 .. w /\ n <= Len(s) /\ n \in Nat
  BY DEF Taken
<1> HIDE DEF n
<1>2. part \in Seq(Byte) /\ Len(part) = n /\ \A i \in 1 .. n : part[i] = s[i]
  BY <1>1
<1>3. /\ rest \in Seq(Byte)
      /\ \A i \in DOMAIN rest : n + i \in DOMAIN s /\ rest[i] = s[n + i]
  BY <1>1
<1> HIDE DEF part, rest
<1>4. /\ bytes \in Seq(Byte) /\ Len(bytes) = Len(g) + Len(part)
      /\ \A i \in 1 .. Len(g) : bytes[i] = g[i]
      /\ \A i \in 1 .. Len(part) : bytes[Len(g) + i] = part[i]
  BY <1>2, TwoInARow
<1> HIDE DEF bytes
<1>5. \A i \in DOMAIN bytes : \/ i \in DOMAIN g /\ bytes[i] = g[i]
                              \/ \E j \in DOMAIN s : bytes[i] = s[j]
  <2> SUFFICES ASSUME NEW i \in DOMAIN bytes, i \notin DOMAIN g
               PROVE  \E j \in DOMAIN s : bytes[i] = s[j]
    BY <1>4
  <2>1. i - Len(g) \in 1 .. n
    BY <1>1, <1>2, <1>4
  <2>2. bytes[Len(g) + (i - Len(g))] = s[i - Len(g)]
    BY <1>2, <1>4, <2>1
  <2>3. i - Len(g) \in DOMAIN s /\ Len(g) + (i - Len(g)) = i
    BY <1>1, <1>4, <2>1
  <2>4. QED
    BY <2>2, <2>3
<1>6. QED
  BY <1>1, <1>2, <1>3, <1>4, <1>5 DEF n, part, bytes, rest

LEMMA Returned ==
  ASSUME Shape, RecvReturns
  PROVE  LET n     == Taken(stream[file], Wanted)
             bytes == got \o SubSeq(stream[file], 1, n)
         IN  /\ file \in Conns /\ Wanted \in Nat /\ stream[file] \in Seq(Byte)
             /\ stream' = [stream EXCEPT ![file] = SubSeq(@, n + 1, Len(@))]
             /\ cut' = IF n # Wanted THEN cut \cup {file} ELSE cut
             /\ \/ /\ t3' = "idle" /\ file' = NoConn /\ got' = <<>> /\ type' = type
                   /\ command' = command /\ strays' = strays /\ n # Wanted
                \/ /\ t3 = "header" /\ n = HeaderLen
                   /\ t3' = "payload" /\ file' = NoConn /\ got' = bytes
                   /\ type' \in TypesSeen(bytes[Len(bytes)])
                   /\ command' = command /\ strays' = strays
                \/ /\ t3 = "payload" /\ n = Wanted
                   /\ t3' = "idle" /\ file' = NoConn /\ got' = <<>> /\ type' = type
                   /\ Execute(bytes)
<1> DEFINE n == Taken(stream[file], Wanted)
           bytes == got \o SubSeq(stream[file], 1, n)
<1>1. file \in Conns /\ stream[file] \in Seq(Byte)
  BY DEF RecvReturns, Shape, Poller, Streams
<1>2. Wanted \in Nat
  BY Constants DEF Wanted, Shape, Poller
<1>3. stream' = [stream EXCEPT ![file] = SubSeq(@, n + 1, Len(@))]
  BY DEF RecvReturns, Taken
<1>4. cut' = IF n # Wanted THEN cut \cup {file} ELSE cut
  BY DEF RecvReturns, Taken, Short
<1>5. \/ Short(n) /\ EndPoll /\ UNCHANGED <<type, exec>>
      \/ /\ ~Short(n) /\ t3 = "header" /\ t3' = "payload" /\ file' = NoConn
         /\ got' = bytes /\ type' \in TypesSeen(bytes[Len(bytes)]) /\ UNCHANGED exec
      \/ /\ ~Short(n) /\ t3 = "payload"
         /\ EndPoll /\ Execute(bytes) /\ UNCHANGED type
  BY DEF RecvReturns, Receiving, Taken
<1>6. QED
  BY <1>1, <1>2, <1>3, <1>4, <1>5 DEF EndPoll, exec, Short, Wanted

LEMMA SyncTakes ==
  ASSUME Shape, Sync
  PROVE  /\ t3 = "idle" /\ fdOpen = TRUE /\ fd \in Conns /\ stream[fd] # <<>>
         /\ stream' = [stream EXCEPT ![fd] = Tail(@)]
         /\ file' = file /\ type' = type /\ command' = command /\ strays' = strays
         /\ cut' = cut
         /\ \/ t3' = "header" /\ got' = <<Head(stream[fd])>>
            \/ t3' = t3 /\ got' = got /\ ~LooksLikeSync(Head(stream[fd]))
<1>0. fdOpen \in BOOLEAN /\ (fdOpen = TRUE => fd \in Conns)
  BY DEF Shape, Flags, Acceptor
<1>1. fdOpen = TRUE
  BY Zenon, <1>0 DEF Sync
<1>2. /\ t3 = "idle" /\ stream[fd] # <<>> /\ file' = file
      /\ type' = type /\ command' = command /\ strays' = strays /\ cut' = cut
      /\ stream' = [stream EXCEPT ![fd] = Tail(@)]
  BY Zenon DEF Sync, exec
<1>3. \/ t3' = "header" /\ got' = <<Head(stream[fd])>>
      \/ t3' = t3 /\ got' = got /\ ~LooksLikeSync(Head(stream[fd]))
  BY Zenon DEF Sync
<1>4. QED
  BY <1>0, <1>1, <1>2, <1>3

\* the other steps of T3
LEMMA OtherPollSteps ==
  ASSUME Shape, T3, ~RecvReturns, ~Sync
  PROVE  /\ command' = command /\ strays' = strays /\ type' = type
         /\ stream' = stream
         /\ \/ /\ t3 \in {"header", "payload"} /\ t3' = t3 /\ got' = got
               /\ fdOpen = TRUE /\ fd \in Conns /\ file' = fd /\ cut' = cut
            \/ /\ t3' = "idle" /\ file' = NoConn /\ got' = <<>>
               /\ \/ file \in Conns /\ cut' = cut \cup {file}
                  \/ ~(fdOpen = TRUE) /\ t3 \in {"header", "payload"} /\ cut' = cut
            \/ cut' = cut /\ t3 = "idle" /\ t3' = "done" /\ file' = file /\ got' = got
<1>0. fdOpen \in BOOLEAN /\ (fdOpen = TRUE => fd \in Conns)
  BY DEF Shape, Flags, Acceptor
<1>2. CASE RecvCall
  <2>1. /\ t3 \in {"header", "payload"} /\ stream' = stream /\ type' = type
        /\ command' = command /\ strays' = strays
    BY Zenon, <1>2 DEF RecvCall, Receiving, exec
  <2>3. cut' = cut
    BY Zenon, <1>2 DEF RecvCall
  <2>2. \/ fdOpen = TRUE /\ file' = fd /\ t3' = t3 /\ got' = got
        \/ t3' = "idle" /\ file' = NoConn /\ got' = <<>> /\ ~(fdOpen = TRUE)
    BY Zenon, <1>0, <1>2 DEF RecvCall, EndPoll
  <2>4. QED
    BY <1>0, <2>1, <2>2, <2>3
<1>3. CASE RecvEof
  <2>1. file \in Conns
    BY <1>3 DEF RecvEof, Shape, Poller
  <2>. QED
    BY Zenon, <1>3, <2>1 DEF RecvEof, EndPoll, exec
<1>4. CASE Leave
  BY Zenon, <1>4 DEF Leave, exec
<1>5. QED
  BY <1>2, <1>3, <1>4 DEF T3

(***************************************************************************)
(* Every step keeps the shape.                                             *)
(***************************************************************************)
LEMMA StepsKeepShape ==
  ASSUME Shape, [Next]_vars
  PROVE  Shape'
<1>0. Flags /\ Clients /\ Streams /\ Acceptor /\ Poller /\ Cuts /\ History
  BY DEF Shape
<1>1. Flags'
  BY Zenon, <1>0
     DEF Flags, Next, vars, T6, T3, Connect, Write, Hangup, Accept, CloseOld, StoreNew,
         Sync, RecvCall, RecvReturns, RecvEof, Leave, Signal, accept, t3Frame
<1>2. Clients'
  <2> USE DEF Clients
  <2>1. ASSUME NEW c \in Conns, Connect(c) \/ Hangup(c) \/ Accept(c)
        PROVE  Clients'
    BY <1>0, <2>1 DEF Connect, Hangup, Accept
  <2>2. ASSUME NEW c \in Conns, Write(c)
        PROVE  Clients'
    <3>1. sent[c] \in Byte /\ Following(sent[c]).no \in DOMAIN TypeOf
      BY <1>0, <2>2 DEF Write
    <3>2. Following(sent[c]) \in Byte /\ Following(sent[c]).conn = c
      BY <1>0, <3>1, NextPiece
    <3>3. peer' = peer /\ sent' = [sent EXCEPT ![c] = Following(sent[c])]
      BY <2>2 DEF Write
    <3>4. QED
      BY <1>0, <3>2, <3>3
  <2>3. QED
    BY <1>0, <2>1, <2>2, ClientSteps
<1>3. Streams'
  <2> USE DEF Streams
  <2>1. ASSUME NEW c \in Conns, Write(c)
        PROVE  Streams'
    <3> DEFINE b == Following(sent[c])
    <3>1. sent[c] \in Byte /\ b.no \in DOMAIN TypeOf
      BY <1>0, <2>1 DEF Write, Clients
    <3>2. b \in Byte
      BY <3>1, NextPiece
    <3>3. stream' = [stream EXCEPT ![c] = Append(@, b)]
      BY <2>1 DEF Write
    <3> HIDE DEF b
    <3>4. QED
      BY <1>0, <3>2, <3>3
  <2>2. CASE Sync
    <3>1. fd \in Conns /\ stream[fd] # <<>> /\ stream' = [stream EXCEPT ![fd] = Tail(@)]
      BY <2>2, SyncTakes
    <3>2. Tail(stream[fd]) \in Seq(Byte)
      BY <1>0, <3>1
    <3>3. QED
      BY <1>0, <3>1, <3>2
  <2>3. CASE RecvReturns
    <3> DEFINE n == Taken(stream[file], Wanted)
    <3>1. /\ file \in Conns /\ stream[file] \in Seq(Byte) /\ Wanted \in Nat
          /\ stream' = [stream EXCEPT ![file] = SubSeq(@, n + 1, Len(@))]
      BY <2>3, Returned
    <3>2. SubSeq(stream[file], n + 1, Len(stream[file])) \in Seq(Byte)
      BY <1>0, <3>1, TakenPart DEF Poller
    <3> HIDE DEF n
    <3>3. QED
      BY <1>0, <3>1, <3>2
  <2>4. QED
    BY <1>0, <2>1, <2>2, <2>3, StreamSteps
<1>4. Acceptor'
  <2> USE DEF Acceptor
  <2>1. CASE accept' = accept
    BY <1>0, <2>1, AcceptFrame
  <2>2. ASSUME NEW c \in Conns, Accept(c)
        PROVE  Acceptor'
    BY <1>0, <2>2 DEF Accept
  <2>3. CASE CloseOld
    <3>1. t6 = "close" /\ t6' = "store" /\ fd' = fd /\ new' = new /\ fdOpen' = FALSE
      BY Zenon, <2>3 DEF CloseOld
    <3>2. ~(fdOpen' = TRUE)
      BY Zenon, <3>1
    <3>3. QED
      BY <1>0, <3>1, <3>2
  <2>4. CASE StoreNew
    <3>1. t6 = "store" /\ t6' = "accept" /\ fd' = new /\ new' = NoConn
      BY Zenon, <2>4 DEF StoreNew
    <3>2. QED
      BY <1>0, <3>1
  <2>5. QED
    BY <2>1, <2>2, <2>3, <2>4, AcceptSteps
<1>5. Poller'
  <2> USE DEF Poller
  <2>1. CASE RecvReturns
    <3> DEFINE n == Taken(stream[file], Wanted)
               bytes == got \o SubSeq(stream[file], 1, n)
    <3>1. file \in Conns /\ stream[file] \in Seq(Byte) /\ Wanted \in Nat /\ got \in Seq(Byte)
      BY <1>0, <2>1, Returned
    <3>2. bytes \in Seq(Byte) /\ Len(bytes) = Len(got) + n
      BY <3>1, TakenPart
    <3>3. \/ t3' = "idle" /\ file' = NoConn /\ got' = <<>> /\ type' = type
          \/ /\ t3 = "header" /\ n = HeaderLen
             /\ t3' = "payload" /\ file' = NoConn /\ got' = bytes
             /\ type' \in TypesSeen(bytes[Len(bytes)])
      BY <2>1, Returned
    <3> HIDE DEF n, bytes
    <3>4. CASE t3' = "idle" /\ file' = NoConn /\ got' = <<>> /\ type' = type
      BY <1>0, <3>4
    <3>5. CASE /\ t3 = "header" /\ n = HeaderLen
               /\ t3' = "payload" /\ file' = NoConn /\ got' = bytes
               /\ type' \in TypesSeen(bytes[Len(bytes)])
      <4>1. Len(bytes) = 1 + HeaderLen
        BY <1>0, <3>2, <3>5
      <4>2. bytes[Len(bytes)] \in Byte
        <5>1. Len(bytes) \in DOMAIN bytes
          BY <3>2, <4>1, Constants
        <5>2. QED
          BY <3>2, <5>1
      <4>3. TypesSeen(bytes[Len(bytes)]) \subseteq Types
        BY <4>2, Constants DEF TypesSeen, Byte
      <4>4. QED
        BY <3>2, <3>5, <4>1, <4>3
    <3>6. QED
      BY <3>3, <3>4, <3>5
  <2>2. CASE Sync
    <3>1. Head(stream[fd]) \in Byte
      BY <1>0, <2>2, SyncTakes DEF Streams
    <3>2. CASE t3' = "header" /\ got' = <<Head(stream[fd])>>
      <4>1. got' \in Seq(Byte) /\ Len(got') = 1
        BY <3>1, <3>2
      <4>2. file' = file /\ type' = type
        BY <2>2, SyncTakes
      <4>3. QED
        BY <1>0, <3>2, <4>1, <4>2
    <3>3. CASE t3' = t3 /\ got' = got
      BY <1>0, <2>2, <3>3, SyncTakes
    <3>4. QED
      BY <2>2, <3>2, <3>3, SyncTakes
  <2>3. CASE T3 /\ ~RecvReturns /\ ~Sync
    <3>1. type' = type
      BY <2>3, OtherPollSteps
    <3>2. CASE t3' = t3 /\ got' = got /\ file' \in Conns
      BY <1>0, <3>1, <3>2
    <3>3. CASE t3' = "idle" /\ file' = NoConn /\ got' = <<>>
      BY <1>0, <3>1, <3>3
    <3>4. CASE t3 = "idle" /\ t3' = "done" /\ file' = file /\ got' = got
      BY <1>0, <3>1, <3>4
    <3>5. QED
      BY <2>3, <3>2, <3>3, <3>4, OtherPollSteps
  <2>4. CASE t3' = t3 /\ file' = file /\ got' = got /\ type' = type
    BY <1>0, <2>4
  <2>5. QED
    BY <2>1, <2>2, <2>3, <2>4, PollSteps
<1>6. History'
  <2> USE DEF History
  <2>1. CASE RecvReturns
    <3> DEFINE n == Taken(stream[file], Wanted)
               bytes == got \o SubSeq(stream[file], 1, n)
    <3>1. bytes \in Seq(Byte)
      BY <1>0, <2>1, Returned, TakenPart DEF Poller
    <3>2. (command' = command /\ strays' = strays) \/ Execute(bytes)
      BY <2>1, Returned
    <3> HIDE DEF n, bytes
    <3>3. CASE Execute(bytes)
      <4>1. \A c \in Conns : strays[c] \in Nat /\ strays[c] + 1 \in Nat
        BY <1>0
      <4>2. QED
        BY <3>1, <3>3, <4>1 DEF Execute
    <3>4. QED
      BY <1>0, <3>2, <3>3
  <2>2. CASE command' = command /\ strays' = strays
    BY <1>0, <2>2
  <2>3. QED
    BY <2>1, <2>2, PollSteps, SyncTakes, OtherPollSteps
<1>7. Cuts'
  BY <1>0, PollSteps, Returned, SyncTakes, OtherPollSteps DEF Cuts
<1>8. QED
  BY <1>1, <1>2, <1>3, <1>4, <1>5, <1>6, <1>7 DEF Shape

LEMMA InitShape ==
  ASSUME Init
  PROVE  Shape
<1>1. Flags
  BY Zenon DEF Init, Flags
<1>2. Clients /\ Streams
  BY Constants DEF Init, Clients, Streams, Byte
<1>3. Acceptor
  <2>1. t6 = "accept" /\ fd = NoConn /\ new = NoConn /\ ~(fdOpen = TRUE)
    BY Zenon DEF Init
  <2>2. QED
    BY <2>1 DEF Acceptor
<1>4. Poller /\ Cuts /\ History
  BY DEF Init, Poller, Cuts, History
<1>5. QED
  BY <1>1, <1>2, <1>3, <1>4 DEF Shape

(***************************************************************************)
(* Type correctness, for all constants.                                    *)
(***************************************************************************)
THEOREM TypeCorrect == Spec => []TypeOK
<1>1. Init => Shape
  BY InitShape
<1>2. Shape /\ [Next]_vars => Shape'
  BY StepsKeepShape
<1>3. Shape => TypeOK
  <2> SUFFICES ASSUME Shape
               PROVE  TypeOK
    OBVIOUS
  <2>1. fdOpen => fd # NoConn
    BY Zenon, Constants DEF Shape, Acceptor
  <2>2. Len(got) = CASE t3 = "header" -> 1 [] t3 = "payload" -> 1 + HeaderLen [] OTHER -> 0
    BY DEF Shape, Poller
  <2>3. QED
    BY Zenon, <2>1, <2>2
       DEF Shape, Flags, Clients, Streams, Acceptor, Poller, Cuts, History, TypeOK
<1>4. QED
  BY <1>1, <1>2, <1>3, PTL DEF Spec

-----------------------------------------------------------------------------
(***************************************************************************)
(* A replaced client.  A stream holds bytes of its own connection only, so *)
(* after T6 closed it bytes can come in only through the recv() that T3    *)
(* had called; when the command with them is executed, none are left.      *)
(***************************************************************************)
Owned == \A c \in Conns : \A i \in DOMAIN stream[c] : stream[c][i].conn = c

Replaced(c) ==
  /\ peer[c] \notin {"new", "queued"}
  /\ new # c
  /\ fd = c => fdOpen = FALSE

Has(bytes, c) == \E i \in DOMAIN bytes : bytes[i].conn = c

Spent ==
  \A c \in Conns :
    /\ strays[c] <= 1
    /\ strays[c] > 0 => Replaced(c) /\ file # c /\ ~Has(got, c)

LEMMA ReplacedMeans ==
  ASSUME Shape, NEW c \in Conns
  PROVE  Replaced(c) <=> ClosedByStation(c)
BY Zenon DEF Shape, Flags, Replaced, ClosedByStation, Current

LEMMA ReplacedStays ==
  ASSUME Shape, Shape', [Next]_vars, NEW c \in Conns, Replaced(c)
  PROVE  Replaced(c)'
<1>0. Clients /\ Acceptor
  BY DEF Shape
<1>1. peer'[c] \notin {"new", "queued"}
  <2>1. ASSUME NEW d \in Conns, Connect(d) \/ Write(d) \/ Hangup(d) \/ Accept(d)
        PROVE  peer'[c] \notin {"new", "queued"}
    BY <1>0, <2>1 DEF Connect, Write, Hangup, Accept, Clients, Replaced
  <2>2. QED
    BY <2>1, ClientSteps DEF Replaced
<1>2. CASE accept' = accept
  BY <1>1, <1>2, AcceptFrame DEF Replaced
<1>3. ASSUME NEW d \in Conns, Accept(d)
      PROVE  Replaced(c)'
  <2>1. peer[d] = "queued" /\ fd' = fd /\ fdOpen' = fdOpen /\ new' = d
    BY Zenon, <1>3 DEF Accept
  <2>2. QED
    BY <1>1, <2>1 DEF Replaced
<1>4. CASE CloseOld
  <2>1. fd' = fd /\ new' = new /\ fdOpen' = FALSE
    BY Zenon, <1>4 DEF CloseOld
  <2>2. QED
    BY Zenon, <1>1, <2>1 DEF Replaced
<1>5. CASE StoreNew
  <2>1. fd' = new /\ new' = NoConn
    BY Zenon, <1>5 DEF StoreNew
  <2>2. QED
    BY <1>1, <2>1, Constants DEF Replaced
<1>6. QED
  BY <1>2, <1>3, <1>4, <1>5, AcceptSteps

LEMMA StepsKeepOwned ==
  ASSUME Shape, Owned, [Next]_vars
  PROVE  Owned'
<1>0. stream \in [Conns -> Seq(Byte)] /\ got \in Seq(Byte)
  BY DEF Shape, Streams, Poller
<1>1. ASSUME NEW c \in Conns, Write(c)
      PROVE  Owned'
  <2> DEFINE b == Following(sent[c])
  <2>1. stream' = [stream EXCEPT ![c] = Append(@, b)]
    BY <1>1 DEF Write
  <2>2. b.conn = c
    BY NextPiece DEF Shape, Clients
  <2> HIDE DEF b
  <2>3. \A i \in DOMAIN Append(stream[c], b) : Append(stream[c], b)[i].conn = c
    BY <1>0, <2>2 DEF Owned
  <2>4. QED
    BY <1>0, <2>1, <2>3 DEF Owned
<1>2. CASE Sync
  <2>1. fd \in Conns /\ stream[fd] # <<>> /\ stream' = [stream EXCEPT ![fd] = Tail(@)]
    BY <1>2, SyncTakes
  <2>2. \A i \in DOMAIN Tail(stream[fd]) : Tail(stream[fd])[i].conn = fd
    BY <1>0, <2>1 DEF Owned
  <2>3. QED
    BY <1>0, <2>1, <2>2 DEF Owned
<1>3. CASE RecvReturns
  <2> DEFINE n == Taken(stream[file], Wanted)
             rest == SubSeq(stream[file], n + 1, Len(stream[file]))
  <2>1. /\ file \in Conns /\ stream[file] \in Seq(Byte) /\ Wanted \in Nat
        /\ stream' = [stream EXCEPT ![file] = rest]
    BY <1>3, Returned
  <2>2. n \in Nat
    BY <2>1 DEF Taken
  <2> HIDE DEF n
  <2>3. \A i \in DOMAIN rest :
          n + i \in DOMAIN stream[file] /\ rest[i] = stream[file][n + i]
    BY <2>1, <2>2
  <2> HIDE DEF rest
  <2>4. \A i \in DOMAIN rest : rest[i].conn = file
    BY <2>1, <2>3 DEF Owned
  <2>5. QED
    BY <1>0, <2>1, <2>4 DEF Owned
<1>4. CASE stream' = stream
  BY <1>4 DEF Owned
<1>5. QED
  BY <1>1, <1>2, <1>3, <1>4, StreamSteps

LEMMA StepsKeepSpent ==
  ASSUME Shape, Shape', Owned, Spent, [Next]_vars, NEW c \in Conns
  PROVE  /\ strays'[c] <= 1
         /\ strays'[c] > 0 => Replaced(c)' /\ file' # c /\ ~Has(got', c)
<1>0. /\ strays[c] \in Nat /\ strays[c] <= 1 /\ c # NoConn
      /\ strays[c] > 0 => Replaced(c) /\ Replaced(c)' /\ file # c /\ ~Has(got, c)
  BY ReplacedStays, Constants DEF Spent, Shape, History
<1>1. CASE file' = file /\ got' = got /\ strays' = strays
  BY <1>0, <1>1
<1>2. CASE file' = NoConn /\ got' = <<>> /\ strays' = strays
  BY <1>0, <1>2 DEF Has
<1>3. CASE Sync
  <2>1. /\ fd \in Conns /\ stream[fd] # <<>> /\ fdOpen = TRUE
        /\ file' = file /\ strays' = strays
        /\ got' = <<Head(stream[fd])>> \/ got' = got
    BY <1>3, SyncTakes
  <2>2. Head(stream[fd]).conn = fd
    BY <2>1 DEF Owned, Shape, Streams
  <2>3. Replaced(c) => fd # c
    BY Zenon, <2>1 DEF Replaced
  <2>4. QED
    BY <1>0, <2>1, <2>2, <2>3 DEF Has
<1>4. CASE RecvReturns
  <2> DEFINE n == Taken(stream[file], Wanted)
             bytes == got \o SubSeq(stream[file], 1, n)
  <2>1. /\ file \in Conns /\ stream[file] \in Seq(Byte) /\ Wanted \in Nat
        /\ got \in Seq(Byte)
    BY <1>4, Returned DEF Shape, Poller
  <2>2. \A i \in DOMAIN bytes : \/ i \in DOMAIN got /\ bytes[i] = got[i]
                                \/ \E j \in DOMAIN stream[file] : bytes[i] = stream[file][j]
    BY <2>1, TakenPart
  <2>3. /\ file' = NoConn
        /\ \/ strays' = strays /\ got' \in {<<>>, bytes}
           \/ got' = <<>> /\ Execute(bytes)
    BY <1>4, Returned
  <2> HIDE DEF n, bytes
  <2>4. Has(bytes, c) => file = c \/ Has(got, c)
    BY <2>1, <2>2 DEF Has, Owned
  <2>5. CASE strays' = strays
    BY <1>0, <2>3, <2>4, <2>5 DEF Has
  <2>6. CASE got' = <<>> /\ Execute(bytes)
    <3>1. strays'[c] = IF ClosedByStation(c) /\ Has(bytes, c) THEN strays[c] + 1
                       ELSE strays[c]
      BY <2>6 DEF Execute, Has
    <3>2. CASE ClosedByStation(c) /\ Has(bytes, c)
      <4>1. strays[c] = 0
        BY <1>0, <2>4, <3>2
      <4>2. Replaced(c)'
        BY <3>2, ReplacedMeans, ReplacedStays
      <4>3. QED
        BY <1>0, <2>3, <2>6, <3>1, <3>2, <4>1, <4>2 DEF Has
    <3>3. CASE ~(ClosedByStation(c) /\ Has(bytes, c))
      BY <1>0, <2>3, <2>6, <3>1, <3>3 DEF Has
    <3>4. QED
      BY <3>2, <3>3
  <2>7. QED
    BY <2>3, <2>5, <2>6
<1>5. CASE fdOpen = TRUE /\ file' = fd /\ got' = got /\ strays' = strays
  <2>1. Replaced(c) => fd # c
    BY Zenon, <1>5 DEF Replaced
  <2>2. QED
    BY <1>0, <1>5, <2>1
<1>6. QED
  BY <1>1, <1>2, <1>3, <1>4, <1>5, PollSteps, OtherPollSteps

(***************************************************************************)
(* After T6 closed a client's connection, one command at most holds bytes  *)
(* of it, for all constants.                                               *)
(***************************************************************************)
THEOREM ActsOnce == Spec => []ReplacedClientActsOnce
<1>1. Init => Shape /\ Owned /\ Spent
  <2> SUFFICES ASSUME Init
               PROVE  Shape /\ Owned /\ Spent
    OBVIOUS
  <2>1. stream = [c \in Conns |-> <<>>] /\ strays = [c \in Conns |-> 0]
    BY Zenon DEF Init
  <2>2. Owned /\ Spent
    BY <2>1 DEF Owned, Spent
  <2>3. QED
    BY <2>2, InitShape
<1>2. Shape /\ Owned /\ Spent /\ [Next]_vars => Shape' /\ Owned' /\ Spent'
  BY StepsKeepShape, StepsKeepOwned, StepsKeepSpent DEF Spent
<1>3. Spent => ReplacedClientActsOnce
  BY DEF Spent, ReplacedClientActsOnce
<1>4. QED
  BY <1>1, <1>2, <1>3, PTL DEF Spec

-----------------------------------------------------------------------------
(***************************************************************************)
(* The order in which commands are executed.  What the kernel holds of a   *)
(* connection is a stretch of the bytes its client wrote, up to the last:  *)
(* no byte is missing, and none comes twice.                               *)
(***************************************************************************)
Stretch(s, end) ==
  /\ s \in Seq(Byte)
  /\ \A i \in DOMAIN s : s[i].part \in 1 .. Last(s[i].no)
  /\ \A i, j \in DOMAIN s : i < j => Earlier(s[i], s[j])
  /\ \A i \in DOMAIN s : i + 1 \in DOMAIN s => s[i + 1] = Following(s[i])
  /\ \A i, j \in DOMAIN s :
       i <= j /\ s[i].part + (j - i) <= Last(s[i].no)
         => s[j] = Piece(s[i].conn, s[i].no, s[i].part + (j - i))
  /\ s # <<>> => s[Len(s)] = end

Stretches ==
  \A c \in Conns : Stretch(stream[c], sent[c]) /\ sent[c].part \in 0 .. Last(sent[c].no)

\* the byte of each connection that the station receives next
Coming ==
  [c \in Conns |-> IF stream[c] # <<>> THEN stream[c][1] ELSE Following(sent[c])]

(***************************************************************************)
(* Which connections T6 has to do with: they are not queued any more, they *)
(* come in the order of their numbers, and an old one is closed before the *)
(* new one is stored.                                                      *)
(***************************************************************************)
Owners ==
  /\ new # NoConn => peer[new] \in {"open", "closed"} /\ fd < new
  /\ fd # NoConn => peer[fd] \in {"open", "closed"}
  /\ t6 = "accept" => new = NoConn
  /\ t6 = "store" => fdOpen = FALSE
  /\ fd # NoConn /\ t6 # "store" => fdOpen = TRUE

Numbered ==
  /\ \A c \in Conns : peer[c] \in {"new", "queued"} => fd < c /\ new < c
  /\ \A c, d \in Conns : peer[c] = "new" /\ peer[d] # "new" => d < c

(***************************************************************************)
(* What T3 has received is consecutive, but where its client was replaced, *)
(* and the stream it was received from last goes on where it ends; what    *)
(* was executed is before it.  Nothing was received yet of a connection    *)
(* that T6 has not stored.                                                 *)
(***************************************************************************)
Link(b, d) == d = Following(b) \/ d.conn > b.conn

Linked(bytes) == \A i \in 1 .. Len(bytes) - 1 : Link(bytes[i], bytes[i + 1])

\* of one client and from the first byte of a command
Proper(bytes) == OneClient(bytes) /\ bytes[1].part = 1

Begun ==
  got # <<>> =>
    /\ Linked(got)
    /\ Following(got[Len(got)]) = Coming[got[Len(got)].conn]
    /\ got[Len(got)].conn <= fd
    /\ file # NoConn => got[Len(got)].conn <= file
    /\ Proper(got) => \A i \in DOMAIN got : got[i] = Piece(got[1].conn, got[1].no, i)
    /\ Proper(got) /\ t3 = "payload" => type = TypeOf[got[1].no]

Calling == file # NoConn => got # <<>> /\ file <= fd

Behind ==
  command # <<>> =>
    /\ command[Len(command)].conn \in Conns /\ command[Len(command)].conn <= fd
    /\ Earlier(command[Len(command)], Coming[command[Len(command)].conn])
    /\ got # <<>> => Earlier(command[Len(command)], got[1])

Untouched == \A c \in Conns : fd < c => Coming[c].part = 1

(***************************************************************************)
(* While no client was replaced T3 has one connection, and is in step with *)
(* its client until a recv() falls short.                                  *)
(***************************************************************************)
InStep ==
  NeverReplaced =>
    /\ file # NoConn => file = fd
    /\ \A i \in DOMAIN got : got[i].conn = fd
    /\ fd \in Conns \ cut =>
         IF got = <<>> THEN Coming[fd].part = 1 ELSE got[1].part = 1

Order == Begun /\ Calling /\ Behind /\ Untouched /\ InStep

LEMMA Lengths ==
  ASSUME NEW no \in DOMAIN TypeOf
  PROVE  /\ Last(no) \in Nat /\ Last(no) = 1 + HeaderLen + PayloadLen[TypeOf[no]]
         /\ Last(no) >= 2 + HeaderLen /\ PayloadLen[TypeOf[no]] \in Nat
BY Constants DEF Last

LEMMA Later ==
  ASSUME NEW b \in Byte
  PROVE  Earlier(b, Following(b))
BY NextPiece DEF Earlier, Piece

\* the byte that comes next may be one the client does not have
Place == [conn : Conns, no : Nat, part : Nat]

LEMMA Places ==
  /\ Byte \subseteq Place
  /\ \A b \in Byte : Following(b) \in Place
<1>1. Byte \subseteq Place
  BY Constants DEF Byte, Place
<1>2. ASSUME NEW b \in Byte
      PROVE  Following(b) \in Place
  <2>1. Following(b) = Piece(b.conn, Following(b).no, Following(b).part)
    BY NextPiece
  <2>2. b.conn \in Conns /\ Following(b).no \in Nat /\ Following(b).part \in Nat
    BY NextPiece
  <2>3. Piece(b.conn, Following(b).no, Following(b).part) \in Place
    BY <2>2 DEF Piece, Place
  <2>. QED
    BY <2>1, <2>3
<1>. QED
  BY <1>1, <1>2

LEMMA StillEarlier ==
  ASSUME NEW a \in Place, NEW b \in Place, NEW d \in Place, Earlier(a, b), Earlier(b, d)
  PROVE  Earlier(a, d)
BY DEF Earlier, Place, Conns

LEMMA Rest ==
  ASSUME NEW end, NEW s, Stretch(s, end), NEW k \in 0 .. Len(s)
  PROVE  Stretch(SubSeq(s, k + 1, Len(s)), end)
<1> DEFINE r == SubSeq(s, k + 1, Len(s))
<1>1. s \in Seq(Byte) /\ k \in Nat
  BY DEF Stretch
<1>2. /\ r \in Seq(Byte) /\ Len(r) = Len(s) - k
      /\ \A i \in DOMAIN r : i + k \in DOMAIN s /\ r[i] = s[i + k] /\ i \in Nat
  BY <1>1
<1> HIDE DEF r
<1>3. \A i \in DOMAIN r : r[i].part \in 1 .. Last(r[i].no)
  BY <1>2 DEF Stretch
<1>4. \A i, j \in DOMAIN r : i < j => Earlier(r[i], r[j])
  <2>1. \A i, j \in DOMAIN r : i < j => i + k < j + k
    BY <1>1, <1>2
  <2>. QED
    BY <1>2, <2>1 DEF Stretch
<1>7. \A i \in DOMAIN r : i + 1 \in DOMAIN r => r[i + 1] = Following(r[i])
  <2> SUFFICES ASSUME NEW i \in DOMAIN r, i + 1 \in DOMAIN r
               PROVE  r[i + 1] = Following(r[i])
    OBVIOUS
  <2>1. /\ i + k \in DOMAIN s /\ r[i] = s[i + k]
        /\ (i + k) + 1 \in DOMAIN s /\ r[i + 1] = s[(i + k) + 1]
    <3>1. (i + 1) + k = (i + k) + 1
      BY <1>1, <1>2
    <3>. QED
      BY <1>2, <3>1
  <2>. QED
    BY <2>1 DEF Stretch
<1>5. \A i, j \in DOMAIN r :
        i <= j /\ r[i].part + (j - i) <= Last(r[i].no)
          => r[j] = Piece(r[i].conn, r[i].no, r[i].part + (j - i))
  <2> SUFFICES ASSUME NEW i \in DOMAIN r, NEW j \in DOMAIN r, i <= j,
                      r[i].part + (j - i) <= Last(r[i].no)
               PROVE  r[j] = Piece(r[i].conn, r[i].no, r[i].part + (j - i))
    OBVIOUS
  <2> DEFINE a == i + k
             b == j + k
  <2>1. b - a = j - i /\ a <= b
    BY <1>1, <1>2
  <2>2. a \in DOMAIN s /\ b \in DOMAIN s /\ r[i] = s[a] /\ r[j] = s[b]
    BY <1>2
  <2> HIDE DEF a, b
  <2>3. s[a].part + (b - a) <= Last(s[a].no)
    BY <2>1, <2>2
  <2>4. s[b] = Piece(s[a].conn, s[a].no, s[a].part + (b - a))
    BY <2>1, <2>2, <2>3 DEF Stretch
  <2>. QED
    BY <2>1, <2>2, <2>4
<1>6. r # <<>> => r[Len(r)] = end
  <2> SUFFICES ASSUME r # <<>>
               PROVE  r[Len(r)] = end
    OBVIOUS
  <2>1. Len(r) \in DOMAIN r /\ Len(r) + k = Len(s) /\ s # <<>>
    BY <1>1, <1>2
  <2>. QED
    BY <1>2, <2>1 DEF Stretch
<1>. QED
  BY <1>2, <1>3, <1>4, <1>5, <1>6, <1>7 DEF Stretch, r

\* the next byte of the client
LEMMA OneMore ==
  ASSUME NEW end \in Byte, end.part \in 0 .. Last(end.no), NEW s, Stretch(s, end),
         NEW u, u = Following(end), u.no \in DOMAIN TypeOf
  PROVE  Stretch(Append(s, u), u) /\ u.part \in 1 .. Last(u.no)
<1> DEFINE more == Append(s, u)
<1>1. s \in Seq(Byte) /\ u \in Byte /\ end.no \in DOMAIN TypeOf /\ end.part \in Nat
  BY NextPiece DEF Stretch, Byte
<1>2. /\ u.conn = end.conn
      /\ \/ end.part < Last(end.no) /\ u.no = end.no /\ u.part = end.part + 1
         \/ end.part = Last(end.no) /\ u.no = end.no + 1 /\ u.part = 1
  BY <1>1, Lengths, NextPiece DEF Piece
<1>3. u = Piece(u.conn, u.no, u.part)
  BY <1>1, NextPiece
<1>4. u.part \in 1 .. Last(u.no)
  <2>1. u.part \in Nat /\ u.part >= 1
    BY <1>1, <1>2
  <2>2. Last(u.no) \in Nat /\ Last(u.no) >= 1
    BY Lengths, Constants
  <2>3. u.part <= Last(u.no)
    BY <1>1, <1>2, <2>2, Lengths
  <2>. QED
    BY <2>1, <2>2, <2>3
<1>5. /\ more \in Seq(Byte) /\ Len(more) = Len(s) + 1 /\ more[Len(s) + 1] = u
      /\ \A i \in DOMAIN s : more[i] = s[i] /\ i \in Nat /\ i <= Len(s)
      /\ \A i \in DOMAIN more : i \in DOMAIN s \/ i = Len(s) + 1
      /\ Len(s) \in Nat
  BY <1>1, <1>4
<1> HIDE DEF more
<1>6. \A i \in DOMAIN s : /\ s[i].no \in Nat /\ s[i].part \in Nat /\ s[i] \in Byte
                          /\ Last(s[i].no) \in Nat /\ s[i].part <= Last(s[i].no)
  <2> SUFFICES ASSUME NEW i \in DOMAIN s
               PROVE  /\ s[i].no \in Nat /\ s[i].part \in Nat /\ s[i] \in Byte
                      /\ Last(s[i].no) \in Nat /\ s[i].part <= Last(s[i].no)
    OBVIOUS
  <2>1. s[i] \in Byte /\ s[i].part \in 1 .. Last(s[i].no)
    BY <1>1 DEF Stretch
  <2>2. s[i].no \in DOMAIN TypeOf /\ s[i].part \in Nat
    BY <2>1 DEF Byte
  <2>3. s[i].no \in Nat
    BY <2>2, Constants
  <2>. QED
    BY <2>1, <2>2, <2>3, Lengths
<1>7. s # <<>> => Len(s) \in DOMAIN s /\ s[Len(s)] = end
  BY <1>1 DEF Stretch
<1>8. \A i \in DOMAIN more : more[i].part \in 1 .. Last(more[i].no)
  BY <1>4, <1>5 DEF Stretch
<1>9. \A i \in DOMAIN s : Earlier(s[i], u)
  <2> SUFFICES ASSUME NEW i \in DOMAIN s
               PROVE  Earlier(s[i], u)
    OBVIOUS
  <2>0. Earlier(end, u)
    BY Later
  <2>1. CASE i = Len(s)
    BY <1>7, <2>0, <2>1
  <2>2. CASE i < Len(s)
    <3>1. Earlier(s[i], end)
      BY <1>5, <1>7, <2>2 DEF Stretch
    <3>2. s[i] \in Place /\ end \in Place /\ u \in Place
      BY <1>1, <1>6, Places
    <3>. QED
      BY <2>0, <3>1, <3>2, StillEarlier
  <2>. QED
    BY <1>5, <2>1, <2>2
<1>10. \A i, j \in DOMAIN more : i < j => Earlier(more[i], more[j])
  BY <1>5, <1>9 DEF Stretch
<1>12. \A i \in DOMAIN more : i + 1 \in DOMAIN more => more[i + 1] = Following(more[i])
  <2> SUFFICES ASSUME NEW i \in DOMAIN more, i + 1 \in DOMAIN more
               PROVE  more[i + 1] = Following(more[i])
    OBVIOUS
  <2>1. i \in DOMAIN s
    BY <1>5
  <2>2. CASE i + 1 \in DOMAIN s
    BY <1>5, <2>1, <2>2 DEF Stretch
  <2>3. CASE i + 1 = Len(s) + 1
    <3>1. i = Len(s) /\ s # <<>>
      BY <1>1, <1>5, <2>1, <2>3
    <3>. QED
      BY <1>5, <1>7, <2>1, <2>3, <3>1
  <2>. QED
    BY <1>5, <2>2, <2>3
<1>11. ASSUME NEW i \in DOMAIN more, NEW j \in DOMAIN more,
              i <= j, more[i].part + (j - i) <= Last(more[i].no)
       PROVE  more[j] = Piece(more[i].conn, more[i].no, more[i].part + (j - i))
  <2>1. CASE j \in DOMAIN s
    <3>1. i \in DOMAIN s
      BY <1>5, <1>11, <2>1
    <3>2. more[i] = s[i] /\ more[j] = s[j]
      BY <1>5, <2>1, <3>1
    <3>3. s[i].part + (j - i) <= Last(s[i].no)
      BY <1>11, <3>2
    <3>. QED
      BY <1>11, <2>1, <3>1, <3>2, <3>3 DEF Stretch
  <2>2. CASE i = Len(s) + 1 /\ j = Len(s) + 1
    BY <1>3, <1>4, <1>5, <2>2
  <2>3. CASE i \in DOMAIN s /\ j = Len(s) + 1
    <3>1. /\ Len(s) \in DOMAIN s /\ i <= Len(s) /\ j - i = (Len(s) - i) + 1
          /\ Len(s) - i \in Nat
      BY <1>5, <1>7, <2>3
    <3>2. s[i].part + (Len(s) - i) < Last(s[i].no)
      <4>1. s[i].part + ((Len(s) - i) + 1) <= Last(s[i].no)
        BY <1>5, <1>11, <2>3, <3>1
      <4>. QED
        BY <1>6, <2>3, <3>1, <4>1
    <3>3. s[Len(s)] = Piece(s[i].conn, s[i].no, s[i].part + (Len(s) - i))
      BY <1>6, <2>3, <3>1, <3>2 DEF Stretch
    <3>4. /\ end.conn = s[i].conn /\ end.no = s[i].no
          /\ end.part = s[i].part + (Len(s) - i)
      BY <1>7, <3>1, <3>3 DEF Piece
    <3>5. u.conn = s[i].conn /\ u.no = s[i].no /\ u.part = s[i].part + (j - i)
      <4>1. end.part < Last(end.no)
        BY <3>2, <3>4
      <4>2. u.conn = end.conn /\ u.no = end.no /\ u.part = end.part + 1
        BY <1>1, <1>2, <1>6, <2>3, <3>4, <4>1
      <4>. QED
        BY <1>6, <2>3, <3>1, <3>4, <4>2
    <3>. QED
      BY <1>3, <1>5, <2>3, <3>5
  <2>. QED
    BY <1>5, <1>11, <2>1, <2>2, <2>3
<1>. QED
  BY <1>4, <1>5, <1>8, <1>10, <1>11, <1>12 DEF Stretch, more

\* a recv() takes the first k bytes
Consumed(c, k) ==
  /\ sent' = sent
  /\ stream' = [stream EXCEPT ![c] = SubSeq(@, k + 1, Len(@))]

LEMMA SyncConsumes ==
  ASSUME Shape, Sync
  PROVE  Consumed(fd, 1) /\ fd \in Conns /\ 1 \in 1 .. Len(stream[fd])
<1>0. stream \in [Conns -> Seq(Byte)]
  BY DEF Shape, Streams
<1>1. fd \in Conns /\ stream[fd] # <<>> /\ stream' = [stream EXCEPT ![fd] = Tail(@)]
  BY SyncTakes
<1>2. /\ Tail(stream[fd]) = SubSeq(stream[fd], 1 + 1, Len(stream[fd]))
      /\ 1 \in 1 .. Len(stream[fd])
  BY <1>0, <1>1
<1>3. sent' = sent
  BY Zenon DEF Sync, t3Frame, client
<1>4. stream' = [stream EXCEPT ![fd] = SubSeq(@, 1 + 1, Len(@))]
  BY <1>0, <1>1, <1>2
<1>. QED
  BY <1>1, <1>2, <1>3, <1>4 DEF Consumed

LEMMA RecvConsumes ==
  ASSUME Shape, RecvReturns
  PROVE  /\ Consumed(file, Taken(stream[file], Wanted)) /\ file \in Conns
         /\ Taken(stream[file], Wanted) \in 1 .. Len(stream[file])
<1> DEFINE n == Taken(stream[file], Wanted)
<1>1. /\ file \in Conns /\ Wanted \in Nat /\ stream[file] \in Seq(Byte)
      /\ stream' = [stream EXCEPT ![file] = SubSeq(@, n + 1, Len(@))]
  BY Returned
<1>2. Wanted >= 1 /\ stream[file] # <<>>
  <2>1. stream[file] # <<>> /\ t3 \in {"header", "payload"}
    BY Zenon DEF RecvReturns, Receiving
  <2>2. type \in Types
    BY DEF Shape, Poller
  <2>. QED
    BY <2>1, <2>2, Constants DEF Wanted
<1>3. n \in 1 .. Len(stream[file])
  BY <1>1, <1>2 DEF Taken
<1>4. sent' = sent
  BY Zenon DEF RecvReturns, t3Frame, client
<1>. QED
  BY <1>1, <1>3, <1>4 DEF Consumed

LEMMA StreamsFrame ==
  ASSUME Shape, [Next]_vars
  PROVE  \/ stream' = stream /\ sent' = sent
         \/ \E c \in Conns : Write(c)
         \/ Sync \/ RecvReturns
<1>1. CASE stream' = stream /\ ~(sent' = sent)
  <2>1. \A c \in Conns : Connect(c) \/ Hangup(c) \/ Accept(c) => sent' = sent
    BY Zenon DEF Connect, Hangup, Accept
  <2>. QED
    BY <1>1, <2>1, ClientSteps
<1>. QED
  BY <1>1, StreamSteps

LEMMA Written ==
  ASSUME Shape, Stretches, NEW c \in Conns, Write(c)
  PROVE  LET b == Following(sent[c])
         IN  /\ sent' = [sent EXCEPT ![c] = b]
             /\ stream' = [stream EXCEPT ![c] = Append(@, b)]
             /\ b \in Byte /\ b.part \in 1 .. Last(b.no)
             /\ Stretch(Append(stream[c], b), b)
<1> DEFINE b == Following(sent[c])
<1>1. /\ sent' = [sent EXCEPT ![c] = b]
      /\ stream' = [stream EXCEPT ![c] = Append(@, b)]
      /\ b.no \in DOMAIN TypeOf
  BY DEF Write
<1>2. sent[c] \in Byte
  BY DEF Shape, Clients
<1>3. b \in Byte
  BY <1>1, <1>2, NextPiece
<1>4. Stretch(stream[c], sent[c]) /\ sent[c].part \in 0 .. Last(sent[c].no)
  BY DEF Stretches
<1> HIDE DEF b
<1>5. b = Following(sent[c])
  BY DEF b
<1>6. Stretch(Append(stream[c], b), b) /\ b.part \in 1 .. Last(b.no)
  BY <1>1, <1>2, <1>4, <1>5, OneMore
<1>. QED
  BY <1>1, <1>3, <1>6 DEF b

LEMMA StepsKeepStretches ==
  ASSUME Shape, Stretches, [Next]_vars
  PROVE  Stretches'
<1>0. stream \in [Conns -> Seq(Byte)] /\ sent \in [Conns -> Byte]
  BY DEF Shape, Streams, Clients
<1>1. ASSUME NEW c \in Conns, Write(c)
      PROVE  Stretches'
  <2> DEFINE b == Following(sent[c])
  <2>1. /\ sent' = [sent EXCEPT ![c] = b]
        /\ stream' = [stream EXCEPT ![c] = Append(@, b)]
        /\ b \in Byte /\ b.part \in 1 .. Last(b.no)
        /\ Stretch(Append(stream[c], b), b)
    BY <1>1, Written
  <2> HIDE DEF b
  <2>3. b.part \in 0 .. Last(b.no)
    BY <2>1, Lengths DEF Byte
  <2>4. ASSUME NEW d \in Conns
        PROVE  /\ Stretch(stream'[d], sent'[d])
               /\ sent'[d].part \in 0 .. Last(sent'[d].no)
    <3>1. CASE d = c
      <4>1. stream'[d] = Append(stream[c], b) /\ sent'[d] = b
        BY <1>0, <2>1, <3>1
      <4>. QED
        BY <2>1, <2>3, <3>1, <4>1
    <3>2. CASE d # c
      <4>1. stream'[d] = stream[d] /\ sent'[d] = sent[d]
        BY <1>0, <2>1, <3>2
      <4>. QED
        BY <4>1 DEF Stretches
    <3>. QED
      BY <3>1, <3>2
  <2>. QED
    BY <2>4 DEF Stretches, Stretch, Earlier, Following, Byte, Conns, Piece, Last
<1>2. ASSUME NEW c \in Conns, NEW k \in 1 .. Len(stream[c]), Consumed(c, k)
      PROVE  Stretches'
  <2>0. k \in 0 .. Len(stream[c]) /\ sent' = sent
        /\ stream' = [stream EXCEPT ![c] = SubSeq(@, k + 1, Len(@))]
    BY <1>2 DEF Consumed
  <2>1. Stretch(SubSeq(stream[c], k + 1, Len(stream[c])), sent[c])
    BY <2>0, Rest DEF Stretches
  <2>2. ASSUME NEW d \in Conns
        PROVE  /\ Stretch(stream'[d], sent'[d])
               /\ sent'[d].part \in 0 .. Last(sent'[d].no)
    <3>1. CASE d = c
      <4>1. stream'[d] = SubSeq(stream[c], k + 1, Len(stream[c])) /\ sent'[d] = sent[c]
        BY <1>0, <2>0, <3>1
      <4>. QED
        BY <2>1, <3>1, <4>1 DEF Stretches
    <3>2. CASE d # c
      <4>1. stream'[d] = stream[d] /\ sent'[d] = sent[d]
        BY <1>0, <2>0, <3>2
      <4>. QED
        BY <4>1 DEF Stretches
    <3>. QED
      BY <3>1, <3>2
  <2>. QED
    BY <2>2 DEF Stretches, Stretch, Earlier, Following, Byte, Conns, Piece, Last
<1>3. CASE Sync
  BY <1>2, <1>3, SyncConsumes
<1>4. CASE RecvReturns
  BY <1>2, <1>4, RecvConsumes
<1>5. CASE stream' = stream /\ sent' = sent
  <2>1. ASSUME NEW d \in Conns
        PROVE  /\ Stretch(stream'[d], sent'[d])
               /\ sent'[d].part \in 0 .. Last(sent'[d].no)
    BY <1>5 DEF Stretches
  <2>. QED
    BY <2>1 DEF Stretches, Stretch, Earlier, Following, Byte, Conns, Piece, Last
<1>. QED
  BY <1>1, <1>3, <1>4, <1>5, StreamsFrame

(***************************************************************************)
(* What comes next: writing leaves it as it is, and receiving the first k  *)
(* bytes makes it the byte that follows the k-th.                          *)
(***************************************************************************)
LEMMA NowComing ==
  ASSUME NEW c \in Conns
  PROVE  /\ stream'[c] # <<>> => Coming'[c] = stream'[c][1]
         /\ stream'[c] = <<>> => Coming'[c] = Following(sent'[c])
         /\ stream'[c] = stream[c] /\ sent'[c] = sent[c] => Coming'[c] = Coming[c]
BY Zenon DEF Coming, Following, Last

LEMMA SameFunction ==
  ASSUME \A c \in Conns : Coming'[c] = Coming[c]
  PROVE  Coming' = Coming
BY DEF Coming, Following, Last

LEMMA QuietKeepsComing ==
  ASSUME stream' = stream, sent' = sent
  PROVE  Coming' = Coming
BY NowComing, SameFunction

LEMMA WriteKeepsComing ==
  ASSUME Shape, Stretches, NEW c \in Conns, Write(c)
  PROVE  Coming' = Coming
<1> SUFFICES ASSUME NEW d \in Conns
             PROVE  Coming'[d] = Coming[d]
  BY SameFunction
<1> DEFINE b == Following(sent[c])
<1>1. /\ sent' = [sent EXCEPT ![c] = b]
      /\ stream' = [stream EXCEPT ![c] = Append(@, b)]
      /\ b \in Byte
  BY Written
<1>2. stream \in [Conns -> Seq(Byte)] /\ sent \in [Conns -> Byte]
  BY DEF Shape, Streams, Clients
<1>3. CASE d # c
  <2>1. stream'[d] = stream[d] /\ sent'[d] = sent[d]
    BY <1>1, <1>2, <1>3
  <2>. QED
    BY <2>1, NowComing
<1>4. CASE d = c
  <2> DEFINE s == stream[c]
  <2>0. s \in Seq(Byte)
    BY <1>2
  <2>1. stream'[d] = Append(s, b)
    BY <1>1, <1>2, <1>4
  <2>5. Coming[d] = IF s # <<>> THEN s[1] ELSE b
    BY <1>4 DEF Coming
  <2> HIDE DEF s, b
  <2>2. /\ Append(s, b) # <<>>
        /\ Append(s, b)[1] = IF s # <<>> THEN s[1] ELSE b
    <3>1. Len(Append(s, b)) = Len(s) + 1 /\ Len(s) \in Nat /\ Append(s, b) \in Seq(Byte)
      BY <1>1, <2>0
    <3>2. Append(s, b) # <<>>
      BY <3>1
    <3>3. CASE s = <<>>
      BY <1>1, <3>2, <3>3
    <3>4. CASE s # <<>>
      <4>1. 1 \in DOMAIN s
        BY <2>0, <3>4
      <4>2. Append(s, b)[1] = s[1]
        BY <1>1, <2>0, <4>1
      <4>. QED
        BY <3>2, <3>4, <4>2
    <3>. QED
      BY <3>3, <3>4
  <2>3. stream'[d] # <<>> /\ stream'[d][1] = Coming[d]
    BY <2>1, <2>2, <2>5
  <2>. QED
    BY <2>3, NowComing
<1>. QED
  BY <1>3, <1>4

LEMMA ComingAfter ==
  ASSUME Shape, Stretches, NEW c \in Conns, NEW k \in 1 .. Len(stream[c]), Consumed(c, k)
  PROVE  /\ Coming'[c] = Following(stream[c][k])
         /\ \A d \in Conns : d # c => Coming'[d] = Coming[d]
<1> DEFINE s == stream[c]
           rest == SubSeq(s, k + 1, Len(s))
<1>0. s \in Seq(Byte) /\ Stretch(s, sent[c]) /\ k \in 1 .. Len(s)
  BY DEF Shape, Streams, Stretches
<1>1. /\ sent' = sent /\ stream'[c] = rest
      /\ \A d \in Conns : d # c => stream'[d] = stream[d]
  BY DEF Consumed, Shape, Streams
<1>2. \A d \in Conns : d # c => Coming'[d] = Coming[d]
  BY <1>1, NowComing
<1>3. CASE k = Len(s)
  <2>1. rest = <<>>
    BY <1>0, <1>3
  <2>2. s[k] = sent[c]
    BY <1>0, <1>3 DEF Stretch
  <2>3. Coming'[c] = Following(sent'[c])
    BY <1>1, <2>1, NowComing
  <2>. QED
    BY <1>1, <1>2, <2>2, <2>3
<1>4. CASE k < Len(s)
  <2>1. rest # <<>> /\ rest[1] = s[k + 1]
    <3>1. rest \in Seq(Byte) /\ Len(rest) = Len(s) - k
          /\ \A i \in 1 .. Len(s) - k : rest[i] = s[k + i]
      BY <1>0
    <3>2. 1 \in 1 .. Len(s) - k
      BY <1>0, <1>4
    <3> HIDE DEF rest, s
    <3>. QED
      BY <3>1, <3>2
  <2>2. s[k + 1] = Following(s[k])
    <3>1. k \in DOMAIN s /\ k + 1 \in DOMAIN s
      BY <1>0, <1>4
    <3>. QED
      BY <1>0, <3>1 DEF Stretch
  <2>3. Coming'[c] = stream'[c][1]
    BY <1>1, <2>1, NowComing
  <2>. QED
    BY <1>1, <1>2, <2>1, <2>2, <2>3
<1>. QED
  BY <1>0, <1>3, <1>4

(***************************************************************************)
(* T6 and the connections.                                                 *)
(***************************************************************************)
LEMMA StepsKeepOwners ==
  ASSUME Shape, Owners, Numbered, [Next]_vars
  PROVE  Owners'
<1>0. Clients /\ Acceptor /\ (fdOpen = TRUE \/ fdOpen = FALSE)
  BY DEF Shape, Flags
<1>1. ASSUME accept' = accept,
             \A c \in Conns : peer[c] \in {"open", "closed"} => peer'[c] \in {"open", "closed"}
      PROVE  Owners'
  <2>1. fd' = fd /\ fdOpen' = fdOpen /\ t6' = t6 /\ new' = new
    BY <1>1, AcceptFrame
  <2>. QED
    BY <1>0, <1>1, <2>1 DEF Owners, Acceptor
<1>2. ASSUME NEW c \in Conns, Connect(c) \/ Write(c) \/ Hangup(c)
      PROVE  Owners'
  <2>1. accept' = accept
    BY Zenon, <1>2 DEF Connect, Write, Hangup
  <2>2. \A d \in Conns :
          peer[d] \in {"open", "closed"} => peer'[d] \in {"open", "closed"}
    BY <1>0, <1>2 DEF Connect, Write, Hangup, Clients
  <2>. QED
    BY <1>1, <2>1, <2>2
<1>3. ASSUME NEW c \in Conns, Accept(c)
      PROVE  Owners'
  <2>1. /\ t6 = "accept" /\ peer[c] = "queued" /\ peer' = [peer EXCEPT ![c] = "open"]
        /\ new' = c /\ t6' = "close" /\ fd' = fd /\ fdOpen' = fdOpen
    BY Zenon, <1>3 DEF Accept
  <2>2. peer'[c] = "open" /\ \A d \in Conns : d # c => peer'[d] = peer[d]
    BY <1>0, <2>1 DEF Clients
  <2>3. fd < c
    BY <2>1 DEF Numbered
  <2>. QED
    BY <1>0, <2>1, <2>2, <2>3 DEF Owners, Acceptor
<1>4. CASE CloseOld
  <2>1. /\ t6 = "close" /\ fdOpen' = FALSE /\ t6' = "store" /\ fd' = fd /\ new' = new
        /\ peer' = peer
    BY Zenon, <1>4 DEF CloseOld, client
  <2>. QED
    BY <2>1 DEF Owners
<1>5. CASE StoreNew
  <2>1. /\ t6 = "store" /\ fd' = new /\ fdOpen' = TRUE /\ new' = NoConn /\ t6' = "accept"
        /\ peer' = peer
    BY Zenon, <1>5 DEF StoreNew, client
  <2>2. new \in Conns /\ new # NoConn
    BY <1>0, <2>1, Constants DEF Acceptor
  <2>. QED
    BY <2>1, <2>2 DEF Owners
<1>6. CASE accept' = accept /\ peer' = peer
  BY <1>1, <1>6
<1>. QED
  BY <1>2, <1>3, <1>4, <1>5, <1>6, AcceptSteps, ClientSteps

LEMMA StepsKeepNumbered ==
  ASSUME Shape, Owners, Numbered, [Next]_vars
  PROVE  Numbered'
<1>0. Clients /\ Acceptor
  BY DEF Shape
<1>1. ASSUME fd' = fd, new' = new, peer' = peer
      PROVE  Numbered'
  BY <1>1 DEF Numbered
<1>2. ASSUME NEW c \in Conns, Connect(c)
      PROVE  Numbered'
  <2>1. /\ peer[c] = "new" /\ (\A d \in 1 .. c - 1 : peer[d] # "new")
        /\ peer' = [peer EXCEPT ![c] = "queued"] /\ accept' = accept
    BY Zenon, <1>2 DEF Connect
  <2>2. peer'[c] = "queued" /\ \A d \in Conns : d # c => peer'[d] = peer[d]
    BY <1>0, <2>1 DEF Clients
  <2>3. \A d \in Conns : peer[d] = "new" /\ d # c => c < d
    BY <2>1, Constants DEF Conns
  <2>. QED
    BY <2>1, <2>2, <2>3, AcceptFrame DEF Numbered
<1>3. ASSUME NEW c \in Conns, Hangup(c)
      PROVE  Numbered'
  <2>1. /\ peer[c] = "open" /\ peer' = [peer EXCEPT ![c] = "closed"] /\ accept' = accept
    BY Zenon, <1>3 DEF Hangup
  <2>2. peer'[c] = "closed" /\ \A d \in Conns : d # c => peer'[d] = peer[d]
    BY <1>0, <2>1 DEF Clients
  <2>. QED
    BY <2>1, <2>2, AcceptFrame DEF Numbered
<1>4. ASSUME NEW c \in Conns, Accept(c)
      PROVE  Numbered'
  <2>1. /\ peer[c] = "queued" /\ (\A d \in 1 .. c - 1 : peer[d] # "queued")
        /\ peer' = [peer EXCEPT ![c] = "open"] /\ new' = c /\ fd' = fd
    BY Zenon, <1>4 DEF Accept
  <2>2. peer'[c] = "open" /\ \A d \in Conns : d # c => peer'[d] = peer[d]
    BY <1>0, <2>1 DEF Clients
  <2>3. \A d \in Conns : peer[d] \in {"new", "queued"} /\ d # c => c < d
    BY <2>1, Constants DEF Conns, Numbered
  <2>. QED
    BY <2>1, <2>2, <2>3 DEF Numbered
<1>5. CASE CloseOld
  <2>1. fd' = fd /\ new' = new /\ peer' = peer
    BY Zenon, <1>5 DEF CloseOld, client
  <2>. QED
    BY <1>1, <2>1
<1>6. CASE StoreNew
  <2>1. t6 = "store" /\ fd' = new /\ new' = NoConn /\ peer' = peer
    BY Zenon, <1>6 DEF StoreNew, client
  <2>2. \A c \in Conns : NoConn < c
    BY DEF Conns, NoConn
  <2>. QED
    BY <2>1, <2>2 DEF Numbered
<1>7. ASSUME NEW c \in Conns, Write(c)
      PROVE  Numbered'
  <2>1. accept' = accept /\ peer' = peer
    BY Zenon, <1>7 DEF Write
  <2>. QED
    BY <1>1, <2>1, AcceptFrame
<1>8. CASE accept' = accept /\ peer' = peer
  BY <1>1, <1>8, AcceptFrame
<1>. QED
  BY <1>2, <1>3, <1>4, <1>5, <1>6, <1>7, <1>8, AcceptSteps, ClientSteps

LEMMA NoneReplaced ==
  ASSUME Shape, Shape', Owners, [Next]_vars, NeverReplaced'
  PROVE  /\ NeverReplaced
         /\ fd # NoConn => fd' = fd /\ fdOpen = TRUE
<1>1. NeverReplaced
  <2>1. ASSUME NEW c \in Conns, Replaced(c)
        PROVE  FALSE
    <3>1. Replaced(c)'
      BY <2>1, ReplacedStays
    <3>2. ClosedByStation(c)'
      BY Zenon, <3>1 DEF Shape, Flags, Replaced, ClosedByStation, Current
    <3>. QED
      BY <3>2 DEF NeverReplaced
  <2>. QED
    BY <2>1, ReplacedMeans DEF NeverReplaced
<1>2. fd # NoConn => fdOpen = TRUE
  <2> SUFFICES ASSUME fd # NoConn, ~(fdOpen = TRUE)
               PROVE  FALSE
    OBVIOUS
  <2>1. fd \in Conns /\ peer[fd] \in {"open", "closed"} /\ (new # NoConn => fd < new)
        /\ fdOpen = FALSE /\ fd \in Nat
    BY DEF Owners, Shape, Acceptor, Flags, Conns
  <2>2. new # fd
    BY <2>1
  <2>3. Replaced(fd)
    BY <2>1, <2>2 DEF Replaced
  <2>. QED
    BY <1>1, <2>1, <2>3, ReplacedMeans DEF NeverReplaced
<1>3. CASE StoreNew
  <2>1. t6 = "store"
    BY <1>3 DEF StoreNew
  <2>2. fdOpen = FALSE
    BY <2>1 DEF Owners
  <2>. QED
    BY <1>1, <1>2, <2>2
<1>4. CASE ~StoreNew
  <2>1. fd' = fd
    BY Zenon, <1>4, AcceptSteps, AcceptFrame DEF Accept, CloseOld
  <2>. QED
    BY <1>1, <1>2, <2>1
<1>. QED
  BY <1>3, <1>4

LEMMA T3Frame ==
  ASSUME T3
  PROVE  fd' = fd /\ sent' = sent /\ peer' = peer /\ accept' = accept
BY Zenon DEF T3, Sync, RecvCall, RecvReturns, RecvEof, Leave, t3Frame, client, accept

(***************************************************************************)
(* What T3 has when a recv() returned.                                     *)
(***************************************************************************)
Count == Taken(stream[file], Wanted)
Bytes == got \o SubSeq(stream[file], 1, Count)

LEMMA BytesAre ==
  ASSUME Shape, Owned, RecvReturns
  PROVE  /\ file \in Conns /\ got \in Seq(Byte) /\ got # <<>>
         /\ stream[file] \in Seq(Byte) /\ Count \in 1 .. Len(stream[file])
         /\ Coming[file] = stream[file][1]
         /\ \A i \in DOMAIN stream[file] : stream[file][i] \in Byte /\ stream[file][i].conn = file
         /\ Bytes \in Seq(Byte) /\ Len(Bytes) = Len(got) + Count /\ Len(got) \in Nat \ {0}
         /\ \A i \in 1 .. Len(got) : Bytes[i] = got[i]
         /\ \A i \in 1 .. Count : Bytes[Len(got) + i] = stream[file][i]
<1>1. /\ file \in Conns /\ Count \in 1 .. Len(stream[file])
      /\ stream[file] \in Seq(Byte) /\ got \in Seq(Byte)
  BY RecvConsumes DEF Count, Shape, Streams, Poller
<1>2. got # <<>> /\ Len(got) \in Nat \ {0}
  <2>1. t3 \in {"header", "payload"}
    BY Zenon DEF RecvReturns, Receiving
  <2>2. Len(got) = 1 \/ Len(got) = 1 + HeaderLen
    BY <2>1 DEF Shape, Poller
  <2>5. HeaderLen \in Nat
    BY Constants
  <2>3. Len(got) # 0
    BY <2>2, <2>5
  <2>4. got # <<>> /\ Len(got) \in Nat
    BY <1>1, <2>3
  <2>. QED
    BY <2>3, <2>4
<1>3. Coming[file] = stream[file][1]
  BY <1>1 DEF Coming
<1>4. \A i \in DOMAIN stream[file] : stream[file][i] \in Byte /\ stream[file][i].conn = file
  BY <1>1 DEF Owned
<1>5. /\ Bytes \in Seq(Byte) /\ Len(Bytes) = Len(got) + Count
      /\ \A i \in 1 .. Len(got) : Bytes[i] = got[i]
      /\ \A i \in 1 .. Count : Bytes[Len(got) + i] = stream[file][i]
  <2> DEFINE part == SubSeq(stream[file], 1, Count)
  <2>1. part \in Seq(Byte) /\ Len(part) = Count
        /\ \A i \in 1 .. Count : part[i] = stream[file][i]
    BY <1>1
  <2>2. Bytes = got \o part
    BY DEF Bytes
  <2> HIDE DEF part
  <2>3. /\ got \o part \in Seq(Byte) /\ Len(got \o part) = Len(got) + Len(part)
        /\ \A i \in 1 .. Len(got) : (got \o part)[i] = got[i]
        /\ \A i \in 1 .. Len(part) : (got \o part)[Len(got) + i] = part[i]
    <3>1. got \in Seq(Byte) /\ part \in Seq(Byte)
      BY <1>1, <2>1
    <3>. QED
      BY <3>1, TwoInARow
  <2>4. ASSUME NEW i \in 1 .. Count
        PROVE  Bytes[Len(got) + i] = stream[file][i]
    <3>1. i \in 1 .. Len(part) /\ part[i] = stream[file][i]
      BY <2>1
    <3>. QED
      BY Zenon, <2>2, <2>3, <3>1
  <2>5. Bytes \in Seq(Byte) /\ Len(Bytes) = Len(got) + Count
    <3>1. Len(part) = Count
      BY <2>1
    <3>. QED
      BY Zenon, <2>2, <2>3, <3>1
  <2>. QED
    BY Zenon, <2>2, <2>3, <2>4, <2>5
<1>. QED
  BY <1>1, <1>2, <1>3, <1>4, <1>5

LEMMA BytesEnd ==
  ASSUME Shape, Owned, RecvReturns
  PROVE  /\ Bytes # <<>> /\ Bytes[1] = got[1]
         /\ Len(Bytes) \in DOMAIN Bytes
         /\ Bytes[Len(Bytes)] = stream[file][Count]
         /\ stream[file][Count] \in Byte /\ stream[file][Count].conn = file
<1>1. Bytes # <<>> /\ Len(Bytes) \in DOMAIN Bytes
  BY BytesAre
<1>2. Bytes[1] = got[1]
  BY BytesAre
<1>3. Bytes[Len(Bytes)] = stream[file][Count]
  <2>1. Count \in 1 .. Count /\ Len(Bytes) = Len(got) + Count
    BY BytesAre
  <2>. QED
    BY <2>1, BytesAre
<1>4. Count \in DOMAIN stream[file]
  BY BytesAre
<1>. QED
  BY <1>1, <1>2, <1>3, <1>4, BytesAre

LEMMA BytesLinked ==
  ASSUME Shape, Owned, Stretches, Begun, Calling, RecvReturns
  PROVE  Linked(Bytes)
<1> SUFFICES ASSUME NEW i \in 1 .. Len(Bytes) - 1
             PROVE  Link(Bytes[i], Bytes[i + 1])
  BY DEF Linked
<1> DEFINE s == stream[file]
           l == Len(got)
<1>1. /\ l \in Nat \ {0} /\ Len(Bytes) = l + Count /\ Count \in 1 .. Len(s)
      /\ Len(s) \in Nat /\ s \in Seq(Byte) /\ got \in Seq(Byte)
      /\ \A j \in 1 .. l : Bytes[j] = got[j]
      /\ \A j \in 1 .. Count : Bytes[l + j] = s[j]
  BY BytesAre
<1>2. /\ Linked(got) /\ Following(got[l]) = Coming[got[l].conn]
      /\ got[l].conn <= file
  BY BytesAre, Constants DEF Begun
<1>3. Coming[file] = s[1] /\ s[1].conn = file
  BY <1>1, BytesAre
<1>4. Stretch(s, sent[file])
  BY BytesAre DEF Stretches
<1>5. file \in Nat /\ got[l].conn \in Nat
  <2>1. got[l] \in Byte /\ file \in Conns
    BY <1>1, BytesAre
  <2>. QED
    BY <2>1 DEF Byte, Conns
<1> HIDE DEF s, l
<1>6. CASE i < l
  <2>1. i \in 1 .. l /\ i + 1 \in 1 .. l /\ i \in 1 .. l - 1
    BY <1>1, <1>6
  <2>2. Link(got[i], got[i + 1])
    BY <1>2, <2>1 DEF Linked, l
  <2>. QED
    BY <1>1, <2>1, <2>2
<1>7. CASE i = l
  <2>1. Bytes[i] = got[l]
    BY <1>1, <1>7
  <2>2. Bytes[i + 1] = s[1]
    BY <1>1, <1>7
  <2>3. CASE got[l].conn = file
    BY <1>2, <1>3, <2>1, <2>2, <2>3 DEF Link
  <2>4. CASE got[l].conn < file
    BY <1>3, <2>1, <2>2, <2>4 DEF Link
  <2>. QED
    BY <1>2, <1>5, <2>3, <2>4
<1>8. CASE l < i
  <2> DEFINE k == i - l
  <2>1. k \in 1 .. Count /\ k + 1 \in 1 .. Count /\ l + k = i /\ l + (k + 1) = i + 1
    BY <1>1, <1>8
  <2> HIDE DEF k
  <2>2. Bytes[i] = s[k] /\ Bytes[i + 1] = s[k + 1]
    BY <1>1, <2>1
  <2>3. k \in DOMAIN s /\ k + 1 \in DOMAIN s
    BY <1>1, <2>1
  <2>4. s[k + 1] = Following(s[k])
    BY <1>4, <2>3 DEF Stretch
  <2>. QED
    BY <2>2, <2>4 DEF Link
<1>. QED
  BY <1>1, <1>6, <1>7, <1>8

\* of one client and from the first byte of a command, they are a part of it
LEMMA BytesProper ==
  ASSUME Shape, Owned, Stretches, Begun, RecvReturns, Proper(Bytes),
         Len(Bytes) <= Last(Bytes[1].no)
  PROVE  /\ Proper(got) /\ file = got[1].conn
         /\ \A i \in DOMAIN Bytes : Bytes[i] = Piece(got[1].conn, got[1].no, i)
<1> DEFINE s == stream[file]
           l == Len(got)
           c == got[1].conn
           no == got[1].no
<1>1. /\ l \in Nat \ {0} /\ Len(Bytes) = l + Count /\ Count \in 1 .. Len(s)
      /\ Len(s) \in Nat /\ s \in Seq(Byte) /\ got \in Seq(Byte) /\ Bytes \in Seq(Byte)
      /\ \A j \in 1 .. l : Bytes[j] = got[j]
      /\ \A j \in 1 .. Count : Bytes[l + j] = s[j]
  <2> HIDE DEF s, l
  <2>1. /\ got # <<>> /\ got \in Seq(Byte) /\ s \in Seq(Byte) /\ Count \in 1 .. Len(s)
        /\ Bytes \in Seq(Byte) /\ Len(Bytes) = l + Count /\ l \in Nat \ {0}
    BY Zenon, BytesAre DEF s, l
  <2>2. /\ \A j \in 1 .. l : Bytes[j] = got[j]
        /\ \A j \in 1 .. Count : Bytes[l + j] = s[j]
    BY Zenon, BytesAre DEF s, l
  <2>. QED
    BY <2>1, <2>2
<1>2. Bytes[1] = got[1] /\ got[1] \in Byte /\ no \in DOMAIN TypeOf
  <2>1. got[1] \in Byte
    BY <1>1
  <2>. QED
    BY <2>1, BytesEnd DEF Byte
<1>3. Proper(got)
  <2>1. \A i \in DOMAIN got : i \in DOMAIN Bytes /\ Bytes[i] = got[i]
    BY <1>1
  <2>. QED
    BY <1>2, <2>1 DEF Proper, OneClient
<1>4. /\ \A i \in DOMAIN got : got[i] = Piece(c, no, i)
      /\ Following(got[l]) = Coming[got[l].conn]
  BY <1>3, BytesAre DEF Begun
<1>5. file = c
  <2>1. l + 1 \in DOMAIN Bytes /\ Bytes[l + 1] = s[1] /\ 1 \in DOMAIN s
    BY <1>1
  <2>2. s[1].conn = file
    BY <2>1, BytesAre
  <2>3. Bytes[l + 1].conn = Bytes[1].conn
    BY <2>1 DEF Proper, OneClient
  <2>. QED
    BY <1>2, <2>1, <2>2, <2>3
<1>6. Stretch(s, sent[file]) /\ Coming[file] = s[1]
  BY BytesAre DEF Stretches
<1>7. Last(no) \in Nat /\ l + Count <= Last(no)
  BY <1>1, <1>2, Lengths
<1>8. s[1] = Piece(c, no, l + 1)
  <2>1. got[l] = Piece(c, no, l) /\ got[l] \in Byte
    BY <1>1, <1>4
  <2>2. got[l].conn = c /\ got[l].no = no /\ got[l].part = l
    BY <2>1 DEF Piece
  <2>3. Following(got[l]) = Piece(c, no, l + 1)
    <3>1. l < Last(no)
      BY <1>1, <1>7
    <3>. QED
      BY <2>1, <2>2, <3>1, NextPiece
  <2>. QED
    BY <1>4, <1>5, <1>6, <2>2, <2>3
<1> HIDE DEF s, l, c, no
<1>9. ASSUME NEW i \in DOMAIN Bytes
      PROVE  Bytes[i] = Piece(c, no, i)
  <2>1. CASE i <= l
    BY <1>1, <1>4, <2>1 DEF l
  <2>2. CASE l < i
    <3> DEFINE k == i - l
    <3>1. k \in 1 .. Count /\ l + k = i /\ (l + 1) + (k - 1) = i /\ i <= Last(no)
      BY <1>1, <1>7, <2>2
    <3> HIDE DEF k
    <3>2. 1 \in DOMAIN s /\ k \in DOMAIN s /\ 1 <= k
      BY <1>1, <3>1
    <3>3. s[1].conn = c /\ s[1].no = no /\ s[1].part = l + 1
      BY <1>8 DEF Piece
    <3>4. s[k] = Piece(s[1].conn, s[1].no, s[1].part + (k - 1))
      BY <1>6, <3>1, <3>2, <3>3 DEF Stretch
    <3>. QED
      BY <1>1, <3>1, <3>3, <3>4
  <2>. QED
    BY <1>1, <2>1, <2>2
<1>. QED
  BY <1>3, <1>5, <1>9 DEF c, no

LEMMA WholeCommand ==
  ASSUME NEW c \in Conns, NEW no \in DOMAIN TypeOf, NEW s \in Seq(Byte),
         Len(s) = Last(no), \A i \in DOMAIN s : s[i] = Piece(c, no, i)
  PROVE  s = Whole(c, no)
<1>1. Last(no) \in Nat
  BY Lengths
<1>2. s \in [1 .. Last(no) -> Byte]
  BY <1>1
<1>3. \A i \in 1 .. Last(no) : s[i] = Whole(c, no)[i]
  BY <1>2 DEF Whole, Piece
<1>. QED
  BY <1>2, <1>3 DEF Whole

(***************************************************************************)
(* The steps of T6, of the clients and of the signal leave T3 and what     *)
(* comes next alone; only a client that is stored first keeps the others   *)
(* from being replaced.                                                    *)
(***************************************************************************)
Idle == /\ t3' = t3 /\ file' = file /\ got' = got /\ type' = type
        /\ command' = command /\ cut' = cut /\ Coming' = Coming

LEMMA QuietKeepsOrder ==
  ASSUME Order, Idle, fd' = fd, NeverReplaced' => NeverReplaced
  PROVE  Order'
<1>1. Begun' /\ Calling' /\ Behind'
  BY Zenon DEF Order, Idle, Begun, Calling, Behind, Linked, Link, Proper, OneClient, Piece,
               Earlier, Following, Last
<1>2. Untouched' /\ InStep'
  BY Zenon DEF Order, Idle, Untouched, InStep
<1>. QED
  BY <1>1, <1>2 DEF Order

LEMMA StoreKeepsOrder ==
  ASSUME Shape, Shape', Owners, Order, StoreNew, Idle, [Next]_vars
  PROVE  Order'
<1>1. /\ fd' = new /\ new \in Conns /\ fd < new /\ fd \in Nat /\ new \in Nat
      /\ fd = NoConn \/ fd \in Conns
  <2>1. t6 = "store" /\ fd' = new
    BY Zenon DEF StoreNew
  <2>2. new \in Conns /\ (fd = NoConn \/ fd \in Conns)
    BY <2>1 DEF Shape, Acceptor
  <2>3. fd < new
    BY <2>2, Constants DEF Owners
  <2>. QED
    BY <2>1, <2>2, <2>3 DEF Conns, NoConn
<1>2. got # <<>> => got[Len(got)] \in Byte
  BY DEF Shape, Poller
<1>3. \A c \in Conns : c \in Nat /\ c >= 1
  BY DEF Conns
<1>9. \A c \in Conns : c <= fd => c <= new
  BY <1>1, <1>3
<1>4. Begun'
  <2>1. got # <<>> => got[Len(got)].conn <= new
    <3>1. got # <<>> => got[Len(got)].conn \in Conns
      BY <1>2 DEF Byte
    <3>. QED
      BY Zenon, <1>9, <3>1 DEF Order, Begun
  <2>. QED
    BY Zenon, <1>1, <2>1
       DEF Order, Idle, Begun, Linked, Link, Proper, OneClient, Piece, Following, Last
<1>5. Calling'
  <2>1. file # NoConn => file <= new
    BY <1>1, <1>3 DEF Order, Calling, Shape, Poller
  <2>. QED
    BY Zenon, <1>1, <2>1 DEF Order, Idle, Calling
<1>6. Behind'
  <2>1. command # <<>> => command[Len(command)].conn <= new
    BY Zenon, <1>9 DEF Order, Behind
  <2>. QED
    BY Zenon, <1>1, <2>1 DEF Order, Idle, Behind, Earlier
<1>7. Untouched'
  <2>1. \A c \in Conns : new < c => Coming[c].part = 1
    BY <1>1, <1>3 DEF Order, Untouched
  <2>. QED
    BY Zenon, <1>1, <2>1 DEF Idle, Untouched
<1>8. InStep'
  <2> SUFFICES ASSUME NeverReplaced'
               PROVE  /\ file' # NoConn => file' = fd'
                      /\ \A i \in DOMAIN got' : got'[i].conn = fd'
                      /\ fd' \in Conns \ cut' =>
                           IF got' = <<>> THEN Coming'[fd'].part = 1 ELSE got'[1].part = 1
    BY DEF InStep
  <2>1. fd = NoConn
    <3>1. fd' # fd
      BY <1>1
    <3>. QED
      BY <3>1, NoneReplaced
  <2>2. got = <<>>
    BY <1>2, <1>3, <2>1 DEF Order, Begun, Byte, NoConn
  <2>3. file = NoConn
    BY <1>1, <2>2 DEF Order, Calling
  <2>4. Coming[new].part = 1
    BY <1>1 DEF Order, Untouched
  <2>. QED
    BY <1>1, <2>2, <2>3, <2>4 DEF Idle
<1>. QED
  BY <1>4, <1>5, <1>6, <1>7, <1>8 DEF Order

LEMMA OthersKeepOrder ==
  ASSUME Shape, Shape', Stretches, Owners, Order, [Next]_vars, ~T3
  PROVE  Order' /\ command' = command
<1>1. /\ t3' = t3 /\ file' = file /\ got' = got /\ type' = type /\ command' = command
      /\ cut' = cut
  BY PollSteps
<1>2. Coming' = Coming
  <2>1. ASSUME NEW c \in Conns, Write(c)
        PROVE  Coming' = Coming
    BY <2>1, WriteKeepsComing
  <2>. QED
    BY <2>1, QuietKeepsComing, StreamsFrame DEF T3
<1>3. Idle
  BY <1>1, <1>2 DEF Idle
<1>4. CASE StoreNew
  BY <1>1, <1>3, <1>4, StoreKeepsOrder
<1>5. CASE ~StoreNew
  <2>1. fd' = fd
    BY Zenon, <1>5, AcceptSteps, AcceptFrame DEF Accept, CloseOld
  <2>2. NeverReplaced' => NeverReplaced
    BY NoneReplaced
  <2>. QED
    BY <1>1, <1>3, <2>1, <2>2, QuietKeepsOrder
<1>. QED
  BY <1>4, <1>5

(***************************************************************************)
(* What was before the byte that comes next stays before it.               *)
(***************************************************************************)
LEMMA ComingLater ==
  ASSUME Shape, Owned, Stretches, NEW c \in Conns, NEW k \in 1 .. Len(stream[c]),
         Consumed(c, k), NEW b \in Place, Earlier(b, Coming[b.conn])
  PROVE  Earlier(b, Coming'[b.conn])
<1> DEFINE s == stream[c]
<1>0. b.conn \in Conns
  BY DEF Place
<1>1. CASE b.conn # c
  BY <1>0, <1>1, ComingAfter
<1>2. CASE b.conn = c
  <2>1. /\ s \in Seq(Byte) /\ Stretch(s, sent[c]) /\ k \in DOMAIN s /\ 1 \in DOMAIN s
        /\ s[k] \in Byte /\ s[1] \in Byte /\ Coming[c] = s[1]
    BY DEF Shape, Streams, Stretches, Coming
  <2>2. Coming'[c] = Following(s[k])
    BY ComingAfter
  <2> HIDE DEF s
  <2>3. Earlier(s[k], Following(s[k]))
    BY <2>1, Later
  <2>4. /\ s[1] \in Place /\ s[k] \in Place /\ Following(s[k]) \in Place
    BY <2>1, Places
  <2>5. Earlier(b, s[k])
    <3>1. Earlier(b, s[1])
      BY <1>2, <2>1
    <3>2. CASE k = 1
      BY <3>1, <3>2
    <3>3. CASE k # 1
      <4>1. 1 < k
        BY <2>1, <3>3
      <4>2. Earlier(s[1], s[k])
        BY <2>1, <4>1 DEF Stretch
      <4>. QED
        BY <2>4, <3>1, <4>2, StillEarlier
    <3>. QED
      BY <3>2, <3>3
  <2>6. Earlier(b, Following(s[k]))
    BY <2>3, <2>4, <2>5, StillEarlier
  <2>. QED
    BY <1>2, <2>2, <2>6
<1>. QED
  BY <1>1, <1>2

Executed == command[Len(command)]

LEMMA ExecutedIs ==
  ASSUME Shape, Behind, command # <<>>
  PROVE  /\ Executed \in Place /\ Executed.conn \in Conns /\ Executed.conn <= fd
         /\ Earlier(Executed, Coming[Executed.conn])
         /\ got # <<>> => Earlier(Executed, got[1])
<1>1. command \in Seq(Byte)
  BY DEF Shape, History
<1>2. Executed \in Byte
  <2>1. Len(command) \in DOMAIN command
    BY <1>1
  <2>. QED
    BY <1>1, <2>1 DEF Executed
<1>3. Executed \in Place
  BY <1>2, Places
<1>. QED
  BY Zenon, <1>3 DEF Behind, Executed

\* nothing is taken from a connection that T6 has not stored
LEMMA UntouchedStays ==
  ASSUME Shape, Stretches, Untouched, fd' = fd, fd \in Conns,
         NEW c \in Conns, c <= fd, NEW k \in 1 .. Len(stream[c]), Consumed(c, k)
  PROVE  Untouched'
<1> SUFFICES ASSUME NEW d \in Conns, fd < d
             PROVE  Coming'[d].part = 1
  BY Zenon DEF Untouched
<1>1. d # c
  BY DEF Conns
<1>. QED
  BY <1>1, ComingAfter DEF Untouched

LEMMA SyncKeepsOrder ==
  ASSUME Shape, Shape', Owned, Stretches, Owners, Order, Sync, [Next]_vars
  PROVE  Order'
<1> DEFINE b == stream[fd][1]
<1>1. /\ t3 = "idle" /\ fd \in Conns /\ fd' = fd /\ fd \in Nat
      /\ file' = file /\ command' = command /\ cut' = cut
      /\ Consumed(fd, 1) /\ 1 \in 1 .. Len(stream[fd])
      /\ stream[fd] \in Seq(Byte) /\ stream[fd] # <<>>
  <2>1. fd' = fd
    BY T3Frame DEF T3
  <2>2. fd \in Conns /\ stream[fd] # <<>> /\ Consumed(fd, 1) /\ 1 \in 1 .. Len(stream[fd])
    BY Zenon, SyncTakes, SyncConsumes
  <2>3. stream[fd] \in Seq(Byte) /\ fd \in Nat
    BY <2>2 DEF Shape, Streams, Conns
  <2>. QED
    BY Zenon, <2>1, <2>2, <2>3, SyncTakes
<1>2. got = <<>> /\ file = NoConn
  BY <1>1 DEF Shape, Poller, Order, Calling
<1>3. b \in Byte /\ b.conn = fd /\ Coming[fd] = b
  BY <1>1 DEF Owned, Coming
<1>4. Coming'[fd] = Following(b)
  BY <1>1, ComingAfter
<1>5. \/ t3' = "header" /\ got' = <<b>>
      \/ t3' = t3 /\ got' = <<>> /\ b.part # 1
  <2>1. Head(stream[fd]) = b
    BY <1>1
  <2>. QED
    BY <1>2, <2>1, SyncTakes DEF LooksLikeSync
<1> HIDE DEF b
<1>6. got' # <<>> => /\ t3' = "header" /\ Len(got') = 1 /\ got'[1] = b /\ got' = <<b>>
                     /\ DOMAIN got' = 1 .. 1
  BY <1>3, <1>5
<1>7. Begun'
  <2> SUFFICES ASSUME got' # <<>>
               PROVE  Begun'
    BY Zenon DEF Begun
  <2>1. Linked(got)'
    <3>1. \A i \in 1 .. Len(got') - 1 : FALSE
      BY <1>6
    <3>. QED
      BY Zenon, <3>1 DEF Linked, Link, Following, Last
  <2>2. Proper(got)' => b = Piece(b.conn, b.no, 1)
    <3>1. Proper(got)' => b.part = 1
      BY <1>6 DEF Proper, OneClient
    <3>. QED
      BY <1>3, <3>1, NextPiece
  <2>3. \A i \in DOMAIN got' : i = 1
    BY <1>6
  <2>4. Proper(got)' => \A i \in DOMAIN got' :
                          got'[i] = Piece(got'[1].conn, got'[1].no, i)
    BY <1>6, <2>2, <2>3
  <2>5. /\ got'[Len(got')] = b /\ t3' # "payload" /\ ~(file' # NoConn)
        /\ b.conn <= fd' /\ Following(b) = Coming'[b.conn]
    <3>1. b.conn = fd /\ fd <= fd' /\ file' = NoConn
      BY <1>1, <1>2, <1>3
    <3>2. got'[Len(got')] = b /\ t3' # "payload"
      BY <1>6
    <3>. QED
      BY Zenon, <1>4, <3>1, <3>2
  <2>. QED
    BY Zenon, <2>1, <2>4, <2>5 DEF Begun, Proper, OneClient, Following, Last, Piece
<1>8. Calling'
  BY <1>1, <1>2 DEF Calling
<1>9. Behind'
  <2> SUFFICES ASSUME command # <<>>
               PROVE  /\ Executed.conn \in Conns /\ Executed.conn <= fd
                      /\ Earlier(Executed, Coming'[Executed.conn])
                      /\ got' # <<>> => Earlier(Executed, b)
    BY Zenon, <1>1, <1>6 DEF Behind, Executed, Earlier
  <2>1. /\ Executed \in Place /\ Executed.conn \in Conns /\ Executed.conn <= fd
        /\ Earlier(Executed, Coming[Executed.conn])
    BY ExecutedIs DEF Order
  <2>2. Earlier(Executed, Coming'[Executed.conn])
    BY <1>1, <2>1, ComingLater
  <2>3. Earlier(Executed, b)
    <3>1. CASE Executed.conn = fd
      BY <1>3, <2>1, <3>1
    <3>2. CASE Executed.conn # fd
      BY <1>1, <1>3, <2>1, <3>2 DEF Earlier, Conns
    <3>. QED
      BY <3>1, <3>2
  <2>. QED
    BY <2>1, <2>2, <2>3
<1>10. Untouched'
  BY <1>1, UntouchedStays DEF Order
<1>11. InStep'
  <2> SUFFICES ASSUME NeverReplaced'
               PROVE  /\ \A i \in DOMAIN got' : got'[i].conn = fd
                      /\ fd \notin cut => got' # <<>> /\ got'[1].part = 1
    BY <1>1, <1>2 DEF InStep
  <2>1. NeverReplaced
    BY NoneReplaced
  <2>2. fd \notin cut => b.part = 1
    BY <1>1, <1>2, <1>3, <2>1 DEF Order, InStep
  <2>3. \A i \in DOMAIN got' : got'[i].conn = fd
    BY <1>3, <1>5
  <2>. QED
    BY <1>5, <1>6, <2>2, <2>3
<1>. QED
  BY <1>7, <1>8, <1>9, <1>10, <1>11 DEF Order

LEMMA PollKeepsOrder ==
  ASSUME Shape, Shape', Stretches, Owners, Order, T3, ~RecvReturns, ~Sync, [Next]_vars
  PROVE  Order'
<1>1. /\ command' = command /\ type' = type /\ fd' = fd /\ Coming' = Coming
  BY OtherPollSteps, T3Frame, QuietKeepsComing
<1>2. NeverReplaced' => NeverReplaced /\ (fd # NoConn => fdOpen = TRUE)
  BY NoneReplaced
<1>3. CASE /\ t3 \in {"header", "payload"} /\ t3' = t3 /\ got' = got
           /\ fdOpen = TRUE /\ fd \in Conns /\ file' = fd /\ cut' = cut
  <2>1. got # <<>>
    <3>1. HeaderLen \in Nat
      BY Constants
    <3>2. Len(got) = 1 \/ Len(got) = 1 + HeaderLen
      BY <1>3 DEF Shape, Poller
    <3>3. Len(got) # 0
      BY <3>1, <3>2
    <3>. QED
      BY <3>3
  <2>2. Begun'
    <3>1. got[Len(got)].conn <= fd
      BY <2>1 DEF Order, Begun
    <3>. QED
      BY Zenon, <1>1, <1>3, <3>1
         DEF Order, Begun, Linked, Link, Proper, OneClient, Piece, Following, Last
  <2>3. Calling'
    <3>1. fd <= fd
      BY <1>3 DEF Conns
    <3>. QED
      BY Zenon, <1>1, <1>3, <2>1, <3>1 DEF Calling
  <2>4. Behind'
    BY Zenon, <1>1, <1>3 DEF Order, Behind, Earlier
  <2>5. Untouched' /\ InStep'
    BY Zenon, <1>1, <1>2, <1>3 DEF Order, Untouched, InStep
  <2>. QED
    BY <2>2, <2>3, <2>4, <2>5 DEF Order
<1>4. CASE /\ t3' = "idle" /\ file' = NoConn /\ got' = <<>>
           /\ \/ file \in Conns /\ cut' = cut \cup {file}
              \/ ~(fdOpen = TRUE) /\ t3 \in {"header", "payload"} /\ cut' = cut
  <2>1. Begun' /\ Calling'
    BY Zenon, <1>4 DEF Begun, Calling
  <2>2. Behind'
    BY Zenon, <1>1, <1>4 DEF Order, Behind, Earlier
  <2>3. Untouched'
    BY Zenon, <1>1 DEF Order, Untouched
  <2>4. InStep'
    <3> SUFFICES ASSUME NeverReplaced', fd \in Conns \ cut'
                 PROVE  FALSE
      BY <1>1, <1>4 DEF InStep
    <3>1. NeverReplaced /\ fdOpen = TRUE
      BY <1>2, Constants
    <3>2. file \in Conns /\ cut' = cut \cup {file}
      BY <1>4, <3>1
    <3>3. file = fd
      BY <3>1, <3>2, Constants DEF Order, InStep
    <3>. QED
      BY <3>2, <3>3
  <2>. QED
    BY <2>1, <2>2, <2>3, <2>4 DEF Order
<1>5. CASE cut' = cut /\ t3 = "idle" /\ t3' = "done" /\ file' = file /\ got' = got
  <2>1. got = <<>>
    BY <1>5 DEF Shape, Poller
  <2>2. Begun' /\ Calling'
    BY Zenon, <1>1, <1>5, <2>1 DEF Begun, Calling, Order
  <2>3. Behind'
    BY Zenon, <1>1, <1>5 DEF Order, Behind, Earlier
  <2>4. Untouched' /\ InStep'
    BY Zenon, <1>1, <1>2, <1>5 DEF Order, Untouched, InStep
  <2>. QED
    BY <2>2, <2>3, <2>4 DEF Order
<1>. QED
  BY <1>3, <1>4, <1>5, OtherPollSteps

(***************************************************************************)
(* A blocking recv(), and the command it may complete.                     *)
(***************************************************************************)
Executes ==
  /\ command' # <<>>
  /\ \A i \in 1 .. Len(command') - 1 :
       \/ command'[i + 1] = Following(command'[i])
       \/ command'[i + 1].conn > command'[i].conn
  /\ command # <<>> => Earlier(command[Len(command)], command'[1])
  /\ OneClient(command') /\ command'[1].part = 1
       => command' = Whole(command'[1].conn, command'[1].no)
  /\ \/ command'[1].part = 1
     \/ command'[1].conn \in cut
     \/ ~NeverReplaced

LEMMA RecvIs ==
  ASSUME Shape, RecvReturns
  PROVE  /\ fd' = fd /\ file' = NoConn
         /\ \/ /\ t3' = "idle" /\ got' = <<>> /\ command' = command
               /\ Count # Wanted /\ cut' = cut \cup {file}
            \/ /\ t3 = "header" /\ Count = HeaderLen /\ Len(got) = 1 /\ cut' = cut
               /\ t3' = "payload" /\ got' = Bytes
               /\ type' \in TypesSeen(Bytes[Len(Bytes)])
               /\ command' = command
            \/ /\ t3 = "payload" /\ Count = PayloadLen[type] /\ Len(got) = 1 + HeaderLen
               /\ cut' = cut /\ t3' = "idle" /\ got' = <<>> /\ command' = Bytes
<1>1. fd' = fd
  BY T3Frame DEF T3
<1>2. cut' = IF Count # Wanted THEN cut \cup {file} ELSE cut
  BY Zenon, Returned DEF Count
<1>3. file' = NoConn
  BY Zenon, Returned
<1>4. \/ t3' = "idle" /\ got' = <<>> /\ command' = command /\ Count # Wanted
      \/ /\ t3 = "header" /\ Count = HeaderLen
         /\ t3' = "payload" /\ got' = Bytes
         /\ type' \in TypesSeen(Bytes[Len(Bytes)])
         /\ command' = command
      \/ /\ t3 = "payload" /\ Count = Wanted /\ t3' = "idle" /\ got' = <<>>
         /\ Execute(Bytes)
  BY Zenon, Returned DEF Count, Bytes
<1>5. /\ t3 = "header" => Len(got) = 1 /\ Wanted = HeaderLen
      /\ t3 = "payload" => Len(got) = 1 + HeaderLen /\ Wanted = PayloadLen[type]
  BY DEF Shape, Poller, Wanted
<1>6. Execute(Bytes) => command' = Bytes
  BY Zenon DEF Execute
<1>. QED
  BY Zenon, <1>1, <1>2, <1>3, <1>4, <1>5, <1>6

\* the bytes of a whole payload complete the command
LEMMA BytesWhole ==
  ASSUME Shape, Owned, Stretches, Begun, RecvReturns, Proper(Bytes),
         t3 = "payload", Count = PayloadLen[type], Len(got) = 1 + HeaderLen
  PROVE  /\ Bytes = Whole(Bytes[1].conn, Bytes[1].no)
         /\ ~(Bytes[Len(Bytes)].part < Last(Bytes[Len(Bytes)].no))
<1> DEFINE c == got[1].conn
           no == got[1].no
<1>1. /\ got[1] \in Byte /\ Bytes[1] = got[1] /\ got # <<>> /\ Bytes \in Seq(Byte)
      /\ Len(Bytes) = Len(got) + Count /\ Len(Bytes) \in DOMAIN Bytes
  BY BytesAre, BytesEnd
<1>2. no \in DOMAIN TypeOf /\ c \in Conns
  BY <1>1 DEF Byte
<1>3. Proper(got)
  <2>1. \A i \in DOMAIN got : i \in DOMAIN Bytes /\ Bytes[i] = got[i]
    BY BytesAre
  <2>. QED
    BY <1>1, <2>1 DEF Proper, OneClient
<1>4. type = TypeOf[no]
  BY <1>1, <1>3 DEF Begun
<1>5. Len(Bytes) = Last(no)
  BY <1>1, <1>2, <1>4, Lengths, Constants
<1>6. \A i \in DOMAIN Bytes : Bytes[i] = Piece(c, no, i)
  <2>1. Last(no) \in Nat /\ Len(Bytes) <= Last(Bytes[1].no)
    BY <1>1, <1>2, <1>5, Lengths
  <2>. QED
    BY <2>1, BytesProper
<1> HIDE DEF c, no
<1>7. Bytes = Whole(c, no)
  BY <1>1, <1>2, <1>5, <1>6, WholeCommand
<1>8. Bytes[Len(Bytes)] = Piece(c, no, Last(no))
  BY <1>1, <1>5, <1>6
<1>. QED
  BY <1>1, <1>2, <1>7, <1>8, Lengths DEF Piece, c, no

\* those of a whole header tell its type
LEMMA BytesTyped ==
  ASSUME Shape, Owned, Stretches, Begun, RecvReturns, Proper(Bytes),
         Count = HeaderLen, Len(got) = 1
  PROVE  /\ \A i \in DOMAIN Bytes : Bytes[i] = Piece(Bytes[1].conn, Bytes[1].no, i)
         /\ TypesSeen(Bytes[Len(Bytes)]) = {TypeOf[Bytes[1].no]}
<1> DEFINE c == got[1].conn
           no == got[1].no
<1>1. /\ got[1] \in Byte /\ Bytes[1] = got[1]
      /\ Len(Bytes) = Len(got) + Count /\ Len(Bytes) \in DOMAIN Bytes
  BY BytesAre, BytesEnd
<1>2. no \in DOMAIN TypeOf
  BY <1>1 DEF Byte
<1>3. Len(Bytes) = 1 + HeaderLen /\ HeaderLen \in Nat
  BY <1>1, Constants
<1>4. \A i \in DOMAIN Bytes : Bytes[i] = Piece(c, no, i)
  <2>1. Len(Bytes) <= Last(Bytes[1].no)
    BY <1>1, <1>2, <1>3, Lengths
  <2>. QED
    BY <2>1, BytesProper
<1> HIDE DEF c, no
<1>5. Bytes[Len(Bytes)] = Piece(c, no, 1 + HeaderLen)
  BY <1>1, <1>3, <1>4
<1>. QED
  BY <1>1, <1>4, <1>5 DEF TypesSeen, Piece, c, no

LEMMA ReceiveKeepsOrder ==
  ASSUME Shape, Shape', Owned, Stretches, Owners, Order, RecvReturns, [Next]_vars
  PROVE  Order' /\ (command' = command \/ Executes)
<1>0. Begun /\ Calling /\ Behind /\ Untouched /\ InStep
  BY DEF Order
<1>1. /\ file \in Conns /\ got # <<>> /\ fd \in Nat /\ file \in Nat /\ file <= fd
      /\ fd \in Conns /\ fd' = fd
  <2>1. file \in Conns /\ got # <<>>
    BY BytesAre
  <2>2. file <= fd /\ (fd \in Conns \/ fd = 0)
    BY <1>0, <2>1, Constants DEF Calling, Shape, Acceptor, NoConn
  <2>3. fd \in Conns
    BY <2>1, <2>2 DEF Conns
  <2>. QED
    BY <2>1, <2>2, <2>3, RecvIs DEF Conns
<1>2. Consumed(file, Count) /\ Count \in 1 .. Len(stream[file])
  BY RecvConsumes DEF Count
<1>3. Coming'[file] = Following(Bytes[Len(Bytes)]) /\ Bytes[Len(Bytes)].conn = file
  BY <1>1, <1>2, ComingAfter, BytesEnd
<1>4. Bytes # <<>> /\ Bytes[1] = got[1] /\ Linked(Bytes) /\ Bytes \in Seq(Byte)
  BY <1>0, BytesEnd, BytesLinked, BytesAre
<1>5. \A i \in DOMAIN Bytes :
        (i \in DOMAIN got /\ Bytes[i] = got[i]) \/ Bytes[i].conn = file
  <2> SUFFICES ASSUME NEW i \in DOMAIN Bytes, i \notin DOMAIN got
               PROVE  Bytes[i].conn = file
    BY BytesAre
  <2> DEFINE k == i - Len(got)
  <2>1. k \in 1 .. Count /\ Len(got) + k = i /\ k \in DOMAIN stream[file]
    BY BytesAre
  <2> HIDE DEF k
  <2>2. Bytes[Len(got) + k] = stream[file][k] /\ stream[file][k].conn = file
    BY <2>1, BytesAre
  <2>. QED
    BY <2>1, <2>2
<1>6. NeverReplaced' => /\ NeverReplaced /\ file = fd
                        /\ \A i \in DOMAIN Bytes : Bytes[i].conn = fd
                        /\ fd \notin cut => got[1].part = 1
  <2> SUFFICES ASSUME NeverReplaced'
               PROVE  /\ NeverReplaced /\ file = fd
                      /\ \A i \in DOMAIN Bytes : Bytes[i].conn = fd
                      /\ fd \notin cut => got[1].part = 1
    BY Zenon
  <2>1. NeverReplaced
    BY NoneReplaced
  <2>2. /\ file = fd /\ \A i \in DOMAIN got : got[i].conn = fd
        /\ fd \notin cut => got[1].part = 1
    BY <1>0, <1>1, <2>1, Constants DEF InStep
  <2>. QED
    BY <1>5, <2>1, <2>2
<1>7. Calling'
  BY RecvIs DEF Calling
<1>8. Untouched'
  BY <1>0, <1>1, <1>2, UntouchedStays
\* what was executed before stays behind
<1>9. ASSUME command # <<>>
      PROVE  /\ Executed.conn \in Conns /\ Executed.conn <= fd
             /\ Earlier(Executed, Coming'[Executed.conn]) /\ Earlier(Executed, Bytes[1])
  <2>1. /\ Executed \in Place /\ Executed.conn \in Conns /\ Executed.conn <= fd
        /\ Earlier(Executed, Coming[Executed.conn]) /\ Earlier(Executed, got[1])
    BY <1>0, <1>1, <1>9, ExecutedIs
  <2>2. Earlier(Executed, Coming'[Executed.conn])
    BY <1>1, <1>2, <2>1, ComingLater
  <2>. QED
    BY <1>4, <2>1, <2>2
<1>10. ASSUME command' = command, got' = <<>> \/ got' = Bytes
       PROVE  Behind'
  <2> SUFFICES ASSUME command # <<>>
               PROVE  /\ Executed.conn \in Conns /\ Executed.conn <= fd
                      /\ Earlier(Executed, Coming'[Executed.conn])
                      /\ got' # <<>> => Earlier(Executed, got'[1])
    BY Zenon, <1>1, <1>10 DEF Behind, Executed, Earlier
  <2>. QED
    BY <1>9, <1>10
<1>11. CASE /\ t3' = "idle" /\ got' = <<>> /\ command' = command
            /\ Count # Wanted /\ cut' = cut \cup {file}
  <2>1. Begun'
    BY Zenon, <1>11 DEF Begun
  <2>2. InStep'
    BY <1>1, <1>6, <1>11, RecvIs DEF InStep
  <2>. QED
    BY <1>7, <1>8, <1>10, <1>11, <2>1, <2>2 DEF Order
<1>12. CASE /\ t3 = "header" /\ Count = HeaderLen /\ Len(got) = 1 /\ cut' = cut
            /\ t3' = "payload" /\ got' = Bytes
            /\ type' \in TypesSeen(Bytes[Len(Bytes)])
            /\ command' = command
  <2>1. Proper(Bytes) => /\ \A i \in DOMAIN Bytes :
                              Bytes[i] = Piece(Bytes[1].conn, Bytes[1].no, i)
                         /\ type' = TypeOf[Bytes[1].no]
    BY <1>0, <1>12, BytesTyped
  <2>2. /\ Bytes[Len(Bytes)].conn <= fd'
        /\ Following(Bytes[Len(Bytes)]) = Coming'[Bytes[Len(Bytes)].conn]
        /\ ~(file' # NoConn)
    BY <1>1, <1>3, RecvIs
  <2>3. Begun'
    BY Zenon, <1>4, <1>12, <2>1, <2>2
       DEF Begun, Proper, OneClient, Linked, Link, Following, Last, Piece
  <2>4. InStep'
    BY <1>1, <1>4, <1>6, <1>12, RecvIs DEF InStep
  <2>. QED
    BY <1>7, <1>8, <1>10, <1>12, <2>3, <2>4 DEF Order
<1>13. CASE /\ t3 = "payload" /\ Count = PayloadLen[type] /\ Len(got) = 1 + HeaderLen
            /\ cut' = cut /\ t3' = "idle" /\ got' = <<>> /\ command' = Bytes
  <2>1. Begun'
    BY Zenon, <1>13 DEF Begun
  <2>2. Behind'
    <3>1. Bytes[Len(Bytes)] \in Byte /\ ~(got' # <<>>)
      BY <1>13, BytesEnd
    <3>2. Earlier(Bytes[Len(Bytes)], Following(Bytes[Len(Bytes)]))
      BY <3>1, Later
    <3>. QED
      BY Zenon, <1>1, <1>3, <1>13, <3>1, <3>2 DEF Behind, Earlier
  <2>3. Proper(Bytes) => /\ Bytes = Whole(Bytes[1].conn, Bytes[1].no)
                         /\ ~(Bytes[Len(Bytes)].part < Last(Bytes[Len(Bytes)].no))
    BY <1>0, <1>13, BytesWhole
  <2>4. InStep'
    <3> SUFFICES ASSUME NeverReplaced', fd \notin cut
                 PROVE  Coming'[fd].part = 1
      BY <1>1, <1>13, RecvIs DEF InStep
    <3>1. Proper(Bytes) /\ file = fd
      <4>1. 1 \in DOMAIN Bytes
        BY <1>4
      <4>. QED
        BY <1>4, <1>6, <4>1 DEF Proper, OneClient
    <3>2. Following(Bytes[Len(Bytes)]).part = 1
      <4>1. Bytes[Len(Bytes)] \in Byte
        BY BytesEnd
      <4>. QED
        BY <2>3, <3>1, <4>1, NextPiece DEF Piece
    <3>. QED
      BY <1>3, <3>1, <3>2
  <2>5. Executes
    <3>1. \A i \in 1 .. Len(Bytes) - 1 :
             Bytes[i + 1] = Following(Bytes[i]) \/ Bytes[i + 1].conn > Bytes[i].conn
      BY Zenon, <1>4 DEF Linked, Link
    <3>2. command # <<>> => Earlier(command[Len(command)], Bytes[1])
      BY Zenon, <1>9 DEF Executed
    <3>3. Bytes[1].part = 1 \/ Bytes[1].conn \in cut \/ ~NeverReplaced
      <4> SUFFICES ASSUME NeverReplaced, Bytes[1].conn \notin cut
                   PROVE  Bytes[1].part = 1
        BY Zenon
      <4>1. fd = file /\ \A i \in DOMAIN got : got[i].conn = fd
        BY <1>0, <1>1, Constants DEF InStep
      <4>2. 1 \in DOMAIN got
        BY BytesAre
      <4>3. fd \notin cut
        BY <1>4, <4>1, <4>2
      <4>. QED
        BY <1>0, <1>1, <1>4, <4>3 DEF InStep
    <3>. QED
      BY Zenon, <1>4, <1>13, <2>3, <3>1, <3>2, <3>3 DEF Executes, Proper
  <2>. QED
    BY <1>7, <1>8, <2>1, <2>2, <2>4, <2>5 DEF Order
<1>. QED
  BY <1>11, <1>12, <1>13, RecvIs

(***************************************************************************)
(* However recv() cuts the streams and whatever is replaced, the commands  *)
(* that T3 executes are stretches of what the clients sent, in order, and  *)
(* one that begins elsewhere than at the first byte of a command has a     *)
(* recv() that fell short or a client that was replaced before it: for all *)
(* constants, whatever bytes look like the first one.                      *)
(***************************************************************************)
THEOREM CommandsInOrder == Spec => ExecutedInOrder
<1> DEFINE IInv == Shape /\ Owned /\ Stretches /\ Owners /\ Numbered /\ Order
<1>1. Init => IInv
  <2> SUFFICES ASSUME Init
               PROVE  IInv
    OBVIOUS
  <2>1. /\ stream = [c \in Conns |-> <<>>]
        /\ sent = [c \in Conns |-> [conn |-> c, no |-> 1, part |-> 0]]
        /\ peer = [c \in Conns |-> "new"]
        /\ fd = NoConn /\ new = NoConn /\ t6 = "accept"
        /\ file = NoConn /\ got = <<>> /\ command = <<>>
    BY Zenon DEF Init
  <2>2. \A c \in Conns : /\ stream[c] = <<>> /\ peer[c] = "new"
                         /\ sent[c] = [conn |-> c, no |-> 1, part |-> 0]
    BY <2>1
  <2>3. Last(1) \in Nat
    BY Lengths, Constants
  <2>4. Stretches
    <3>1. <<>> \in Seq(Byte) /\ DOMAIN <<>> = {}
      OBVIOUS
    <3>2. \A end : Stretch(<<>>, end)
      BY <3>1 DEF Stretch
    <3>3. 0 \in 0 .. Last(1)
      BY <2>3
    <3>4. ASSUME NEW c \in Conns
          PROVE  Stretch(stream[c], sent[c]) /\ sent[c].part \in 0 .. Last(sent[c].no)
      <4>3. stream[c] = <<>> /\ sent[c] = [conn |-> c, no |-> 1, part |-> 0]
        BY Zenon, <2>2
      <4>1. stream[c] = <<>> /\ sent[c].part = 0 /\ sent[c].no = 1
        BY <4>3
      <4>2. sent[c].part \in 0 .. Last(sent[c].no)
        BY Zenon, <3>3, <4>1
      <4>. QED
        BY Zenon, <3>2, <4>1, <4>2
    <3>. QED
      BY <3>4 DEF Stretches
  <2>5. Owners
    BY <2>1 DEF Owners
  <2>6. Numbered
    BY <2>1, <2>2 DEF Numbered, Conns, NoConn
  <2>7. Order
    <3>1. Begun /\ Calling /\ Behind
      BY Zenon, <2>1 DEF Begun, Calling, Behind
    <3>2. Untouched
      <4> SUFFICES ASSUME NEW c \in Conns
                   PROVE  Coming[c].part = 1
        BY DEF Untouched
      <4>1. Coming[c] = Following([conn |-> c, no |-> 1, part |-> 0])
        BY <2>2 DEF Coming
      <4>2. 0 < Last(1)
        BY Lengths, Constants
      <4>. QED
        BY <4>1, <4>2 DEF Following
    <3>3. InStep
      BY <2>1, Constants DEF InStep
    <3>. QED
      BY <3>1, <3>2, <3>3 DEF Order
  <2>8. Owned
    BY <2>1 DEF Owned
  <2>. QED
    BY <2>4, <2>5, <2>6, <2>7, <2>8, InitShape
<1>2. IInv /\ [Next]_vars => IInv'
  <2> SUFFICES ASSUME IInv, [Next]_vars
               PROVE  IInv'
    OBVIOUS
  <2>1. Shape' /\ Owned' /\ Stretches' /\ Owners' /\ Numbered'
    BY StepsKeepShape, StepsKeepOwned, StepsKeepStretches, StepsKeepOwners, StepsKeepNumbered
  <2>2. Order'
    BY <2>1, OthersKeepOrder, SyncKeepsOrder, PollKeepsOrder, ReceiveKeepsOrder
  <2>. QED
    BY <2>1, <2>2
<1>3. IInv /\ [Next]_vars => [Executes]_command
  <2> SUFFICES ASSUME IInv, [Next]_vars, command' # command
               PROVE  Executes
    OBVIOUS
  <2>1. RecvReturns
    BY PollSteps, OtherPollSteps, SyncTakes
  <2>2. Shape'
    BY StepsKeepShape
  <2>. QED
    BY <2>1, <2>2, ReceiveKeepsOrder
<1>. QED
  BY <1>1, <1>2, <1>3, PTL DEF Spec, ExecutedInOrder, Executes

=============================================================================
