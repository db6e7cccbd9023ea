--------------------------- MODULE UnpackersProofs ---------------------------
(***************************************************************************)
(* The unpackers, for any handlers, capsules and bursts: no capsule is     *)
(* joined to another over one that was heard, and a handler finds its      *)
(* place again.                                                            *)
(***************************************************************************)
EXTENDS Unpackers, TLAPS

(***************************************************************************)
(* The bytes of a scan in the order in which the device sends them.        *)
(***************************************************************************)
OfScan == [s : {session}, c : Nat \ {0}, i : 1 .. CapLen]
Idx(b) == (b.c - 1) * CapLen + b.i

\* how far the decoder's thread is in the scan
Done == IF last \in OfScan THEN Idx(last) ELSE 0

\* the length of a capsule
LEMMA Lengths == CapLen \in Nat /\ CapLen > 2
BY UnpackersAssumption

\* the k-th byte sent is in a capsule, at a position of it
LEMMA Division ==
  ASSUME NEW k \in Nat, k > 0
  PROVE  /\ (k - 1) \div CapLen \in Nat /\ (k - 1) % CapLen \in 0 .. CapLen - 1
         /\ k - 1 = ((k - 1) \div CapLen) * CapLen + ((k - 1) % CapLen)
BY Lengths

\* the k-th byte sent has place k
LEMMA SentIsByte ==
  ASSUME NEW k \in Nat, k > 0, session \in Nat
  PROVE  Sent(k) \in OfScan /\ Sent(k) \in Byte /\ Idx(Sent(k)) = k
<1>1. Sent(k) \in OfScan /\ Sent(k) \in Byte
  BY Division, Lengths DEF Sent, OfScan, Byte
<1>2. Idx(Sent(k)) = k
  BY Division, Lengths DEF Sent, Idx
<1>3. QED
  BY <1>1, <1>2

\* places begin at one
LEMMA IdxPositive ==
  ASSUME NEW x \in OfScan
  PROVE  Idx(x) \in Nat /\ Idx(x) > 0
BY Lengths DEF OfScan, Idx

\* and the byte with place k is the k-th sent
LEMMA SentOfIdx ==
  ASSUME NEW x \in OfScan
  PROVE  Sent(Idx(x)) = x
<1>1. /\ x = [s |-> session, c |-> x.c, i |-> x.i]
      /\ x.c \in Nat /\ x.c > 0 /\ x.i \in 1 .. CapLen
  BY DEF OfScan
<1>2. (Idx(x) - 1) \div CapLen = x.c - 1
  BY <1>1, Lengths DEF Idx
<1>3. (Idx(x) - 1) % CapLen = x.i - 1
  BY <1>1, Lengths DEF Idx
<1>4. QED
  BY <1>1, <1>2, <1>3 DEF Sent

\* two bytes have two places
LEMMA IdxInjective ==
  ASSUME NEW x \in OfScan, NEW y \in OfScan, Idx(x) = Idx(y)
  PROVE  x = y
BY SentOfIdx

\* the order of the places is that of capsules, then of positions
LEMMA IdxOrder ==
  ASSUME NEW x \in OfScan, NEW y \in OfScan
  PROVE  /\ x.c < y.c => Idx(x) < Idx(y)
         /\ x.c = y.c => Idx(y) - Idx(x) = y.i - x.i
         /\ y.c = x.c + 1 /\ y.i = 1 /\ x.i = CapLen => Idx(y) = Idx(x) + 1
<1> DEFINE c == x.c  d == y.c  i == x.i  j == y.i
<1>1. c \in Nat /\ d \in Nat /\ i \in 1 .. CapLen /\ j \in 1 .. CapLen
  BY DEF OfScan
<1> HIDE DEF c, d, i, j
<1>2. ASSUME c < d
      PROVE  (c - 1) * CapLen + i < (d - 1) * CapLen + j
  <2>1. (d - 1) * CapLen = (c - 1) * CapLen + (d - c) * CapLen
    BY Lengths, <1>1
  <2>2. (d - c) * CapLen >= CapLen
    BY Lengths, <1>1, <1>2
  <2>3. QED
    BY <2>1, <2>2, Lengths, <1>1
<1>3. d = c + 1 => (d - 1) * CapLen = (c - 1) * CapLen + CapLen
  BY Lengths, <1>1
<1>4. (c - 1) * CapLen \in Int /\ (d - 1) * CapLen \in Int
  BY Lengths, <1>1
<1>5. QED
  BY <1>1, <1>2, <1>3, <1>4, Lengths DEF Idx, c, d, i, j

-----------------------------------------------------------------------------
(***************************************************************************)
(* The inductive invariant.                                                *)
(*                                                                         *)
(* Typed adds to the types what a handler keeps.                           *)
(***************************************************************************)
AnyByte == [s : Nat, c : Nat, i : 0 .. CapLen]
State == [pos : 0 .. CapLen - 1, buf : [1 .. CapLen -> Byte \cup {NoByte}],
          rdy : BOOLEAN, prev : Nat \X Nat]

Typed == TypeOK /\ handler \in [Used -> State] /\ last \in AnyByte

(***************************************************************************)
(* The two threads: what the handler's pointer and the answer's type are   *)
(* depends on where the caller is in a stop.                               *)
(***************************************************************************)
Threads ==
  /\ enabled <=> caller = "scanning"
  /\ caller # "stopped" \/ dec # "idle" => session > 0
  /\ active = None \/ (session > 0 /\ active = Type)
  /\ type = None \/ (session > 0 /\ type = Type)
  /\ caller \in {"scanning", "clear"} =>
       /\ active = type
       /\ dec \in {"test", "call", "byte", "store", "complete", "join"} =>
            active # None
  /\ dec = "idle" => msg = <<>>
  /\ dec \in {"store", "complete"} => msg # <<>>
  /\ dec = "store" => at < CapLen - 1 /\ Me.pos < CapLen - 1

\* what is to be unpacked was sent after what has been, in the order of msg
InOrder ==
  /\ last.s <= session
  /\ session > 0 /\ last.s = session => last \in OfScan
  /\ Done <= next
  /\ \A m \in 1 .. Len(msg) :
       msg[m] \in OfScan /\ Done < Idx(msg[m]) /\ Idx(msg[m]) <= next
  /\ \A m, n \in 1 .. Len(msg) : m < n => Idx(msg[m]) < Idx(msg[n])

\* and nothing else was, except what is lost
Heard ==
  enabled \/ dec \notin {"idle", "message"} =>
    \A x \in OfScan :
      Done < Idx(x) /\ Idx(x) <= next =>
        x \in missing \/ \E m \in 1 .. Len(msg) : msg[m] = x

(***************************************************************************)
(* While a capsule is ready to be paired, what was heard after it is in    *)
(* the handler's buffer.                                                   *)
(***************************************************************************)
Cached ==
  session > 0 /\ H.pairs /\ Undisturbed /\ Me.rdy =>
    /\ dec = "store" => Me.pos = at
    /\ dec # "join" =>
         \A x \in OfScan :
           Idx(x) <= Done /\ (Me.prev[1] < session \/ Me.prev[2] < x.c) =>
             x \in missing \/ \E j \in 1 .. Me.pos : Me.buf[j] = x

Joining ==
  dec = "join" =>
    /\ H.pairs /\ last \in OfScan /\ last.i = CapLen
    /\ Cap(Me.buf[1]) = Cap(last)

(***************************************************************************)
(* The handler's place, while no other byte has passed for a mark.  A      *)
(* capsule that arrives whole finds the handler at its beginning, at the   *)
(* start of a frame, or in a frame begun before it (which it ends, so that *)
(* the next one finds it at the start).                                    *)
(***************************************************************************)
Upto(c, i) == \A j \in 1 .. i : [s |-> session, c |-> c, i |-> j] \notin missing

InFrame ==
  /\ Me.pos = last.i /\ last.i < CapLen
  /\ \A j \in 1 .. last.i : Me.buf[j] = [s |-> session, c |-> last.c, i |-> j]

First == InFrame \/ Me.pos = 0 \/ Me.pos > last.i

Second ==
  last.c > 1 /\ Whole(session, last.c - 1) =>
    /\ last.i < CapLen => InFrame
    /\ last.i = CapLen =>
         Me.pos = 0 /\ (H.pairs /\ dec # "join" => Me.rdy /\ Me.prev = Cap(last))

Third ==
  last.c > 2 /\ Whole(session, last.c - 1) /\ Whole(session, last.c - 2) =>
    /\ last.i < CapLen /\ H.pairs =>
         Me.rdy /\ Me.prev = <<session, last.c - 1>>
    /\ last.i = CapLen =>
         published = [prev |-> <<session, last.c - (IF H.pairs THEN 1 ELSE 0)>>,
                      cur |-> <<session, last.c>>]

InStep ==
  session > 0 /\ caller = "scanning" /\ ~fooled =>
    /\ dec = "store" => Me.pos = at /\ (at + 1 \in H.marks => Head(msg).i = at + 1)
    /\ dec = "complete" => Me.pos = CapLen - 1
    /\ last \in OfScan /\ Upto(last.c, last.i) => First /\ Second /\ Third

IInv == Typed /\ Threads /\ InOrder /\ Heard /\ Cached /\ Joining /\ InStep

-----------------------------------------------------------------------------
(***************************************************************************)
(* The handlers and the state of the one in use.                           *)
(***************************************************************************)
LEMMA HandlerFacts ==
  ASSUME NEW h \in Handlers
  PROVE  /\ h.marks \subseteq {1, 2} /\ 1 \in h.marks /\ h # None
         /\ h.pairs \in BOOLEAN /\ h.checked \in BOOLEAN /\ h.forgets \in BOOLEAN
         /\ h.pairs => h.checked
<1> USE DEF None, NormalNode
<1>1. CASE h = NormalNode
  BY <1>1
<1>2. CASE h = HQNode
  BY <1>2 DEF HQNode
<1>3. CASE h = CapsuleNode
  BY <1>3 DEF CapsuleNode
<1>4. CASE h = DenseCapsuleNode
  BY <1>4 DEF DenseCapsuleNode, CapsuleNode
<1>5. QED
  BY <1>1, <1>2, <1>3, <1>4
     DEF Handlers, UltraCapsuleNode, UltraDenseCapsuleNode

\* the scan's handler is one of the plan's
LEMMA UsedAreHandlers ==
  ASSUME Typed
  PROVE  /\ Used \subseteq Handlers
         /\ session > 0 => H \in Used
         /\ session \in Nat /\ next \in Nat /\ None \notin Used
<1>1. plan \in Seq(Handlers) /\ session \in 0 .. Len(plan)
  BY UnpackersAssumption DEF Typed, TypeOK
<1>2. Used \subseteq Handlers
  BY <1>1 DEF Used
<1>3. session > 0 => H \in Used
  BY <1>1 DEF Used, H, Type
<1>4. session \in Nat
  BY <1>1
<1>5. next \in Nat
  BY DEF Typed, TypeOK
<1>6. QED
  BY <1>2, <1>3, <1>4, <1>5, HandlerFacts

\* and has a state of its own
LEMMA MeFacts ==
  ASSUME Typed, session > 0
  PROVE  /\ H \in Used /\ H \in Handlers
         /\ Me \in State
         /\ Me.pos \in 0 .. CapLen - 1
         /\ Me.buf \in [1 .. CapLen -> Byte \cup {NoByte}]
         /\ Me.rdy \in BOOLEAN /\ Me.prev \in Nat \X Nat
<1>1. H \in Used /\ H \in Handlers
  BY UsedAreHandlers
<1>2. Me \in State
  BY <1>1 DEF Typed, Me
<1>3. QED
  BY <1>1, <1>2 DEF State

\* a handler's update
LEMMA Update ==
  ASSUME Typed, session > 0, NEW v \in State,
         handler' = [handler EXCEPT ![H] = v], plan' = plan
  PROVE  /\ handler' \in [Used' -> State] /\ handler'[H] = v
BY MeFacts DEF Typed, Used

\* what the reset of a handler leaves
LEMMA ResetFacts ==
  ASSUME Typed, NEW h \in Used
  PROVE  /\ HandlerReset(h) \in State
         /\ HandlerReset(h).pos = 0
         /\ HandlerReset(h).buf = handler[h].buf
         /\ HandlerReset(h).rdy = (handler[h].rdy /\ ~h.forgets)
<1>1. handler[h] \in State
  BY DEF Typed
<1>2. (handler[h].rdy /\ ~h.forgets) \in BOOLEAN
  BY <1>1, UsedAreHandlers, HandlerFacts DEF State
<1>3. PICK b \in BOOLEAN : b = (handler[h].rdy /\ ~h.forgets)
  BY <1>2
<1>4. HandlerReset(h) = [handler[h] EXCEPT !.pos = 0, !.rdy = b]
  BY <1>3 DEF HandlerReset
<1>5. 0 \in 0 .. CapLen - 1
  BY Lengths
<1>6. QED
  BY <1>1, <1>3, <1>4, <1>5 DEF State

\* the handler reset in a scan is the one of the scan
LEMMA ActiveReset ==
  ASSUME Typed, Threads, active # None, plan' = plan,
         handler' = [handler EXCEPT ![active] = HandlerReset(active)]
  PROVE  /\ session > 0 /\ active = H
         /\ handler' \in [Used' -> State]
         /\ handler'[H].buf = Me.buf /\ handler'[H].pos = 0
         /\ H.forgets => ~handler'[H].rdy
<1>1. session > 0 /\ active = H
  BY DEF Threads, H
<1>2. H \in Used
  BY <1>1, MeFacts
<1>3. HandlerReset(H) \in State
  BY <1>2, ResetFacts
<1>4. handler' \in [Used' -> State] /\ handler'[H] = HandlerReset(H)
  BY <1>1, <1>3, Update
<1>5. QED
  BY <1>1, <1>2, <1>4, ResetFacts DEF Me

-----------------------------------------------------------------------------
(***************************************************************************)
(* The bytes heard and to be unpacked.                                     *)
(***************************************************************************)
LEMMA DoneFacts ==
  ASSUME Typed, InOrder
  PROVE  Done \in Nat
BY IdxPositive DEF Done

\* a step that takes no byte
LEMMA NothingTaken ==
  ASSUME InOrder, Heard, UNCHANGED <<session, last, msg, next, missing>>,
         enabled' \/ dec' \notin {"idle", "message"} =>
           enabled \/ dec \notin {"idle", "message"}
  PROVE  InOrder' /\ Heard'
<1>1. OfScan' = OfScan /\ Done' = Done
  BY DEF OfScan, Done
<1>2. InOrder'
  BY <1>1 DEF InOrder
<1>3. Heard'
  BY <1>1 DEF Heard
<1>4. QED
  BY <1>2, <1>3

\* the payload is passed over
LEMMA PassedOver ==
  ASSUME Typed, InOrder, UNCHANGED <<session, last, next, missing>>, msg' = <<>>,
         ~enabled', dec' = "idle"
  PROVE  InOrder' /\ Heard'
<1>1. OfScan' = OfScan /\ Done' = Done
  BY DEF OfScan, Done
<1>2. Len(msg') = 0
  OBVIOUS
<1>3. InOrder'
  BY <1>1, <1>2 DEF InOrder
<1>4. QED
  BY <1>3 DEF Heard

\* what comes before the next byte was unpacked or lost
LEMMA NextByte ==
  ASSUME Typed, InOrder, Heard, msg # <<>>, dec \in {"byte", "store", "complete"}
  PROVE  /\ Head(msg) \in OfScan /\ Done < Idx(Head(msg)) /\ Idx(Head(msg)) <= next
         /\ \A x \in OfScan : Idx(x) < Idx(Head(msg)) => Idx(x) <= Done \/ x \in missing
<1> DEFINE b == Head(msg)
<1>1. msg \in Seq(Byte) /\ Len(msg) \in Nat /\ Len(msg) >= 1 /\ b = msg[1]
  BY DEF Typed, TypeOK
<1>2. b \in OfScan /\ Done < Idx(b) /\ Idx(b) <= next
  BY <1>1 DEF InOrder
<1>3. ASSUME NEW x \in OfScan, Idx(x) < Idx(b), x \notin missing
      PROVE  Idx(x) <= Done
  <2>1. Idx(x) \in Nat /\ Idx(b) \in Nat /\ Done \in Nat /\ next \in Nat
    BY <1>2, IdxPositive, DoneFacts, UsedAreHandlers
  <2>2. ASSUME NEW m \in 1 .. Len(msg)
        PROVE  msg[m] # x
    BY <1>1, <1>3, <2>1 DEF InOrder
  <2>3. CASE Done < Idx(x)
    BY <1>2, <1>3, <2>1, <2>2, <2>3 DEF Heard
  <2>4. QED
    BY <2>1, <2>3
<1>4. QED
  BY <1>2, <1>3

\* a step that takes the next byte
LEMMA OneTaken ==
  ASSUME Typed, InOrder, Heard, msg # <<>>, dec \in {"byte", "store", "complete"},
         UNCHANGED <<session, next, missing>>, last' = Head(msg), msg' = Tail(msg)
  PROVE  /\ InOrder' /\ Heard'
         /\ OfScan' = OfScan /\ last' \in OfScan /\ Done' = Idx(Head(msg))
         /\ last' \in AnyByte /\ msg' \in Seq(Byte)
<1> DEFINE b == Head(msg)
<1>1. /\ msg \in Seq(Byte) /\ Len(msg) \in Nat /\ Len(msg) >= 1 /\ b = msg[1]
      /\ b \in Byte
  BY DEF Typed, TypeOK
<1>2. /\ b \in OfScan /\ Done < Idx(b) /\ Idx(b) <= next
      /\ \A x \in OfScan : Idx(x) < Idx(b) => Idx(x) <= Done \/ x \in missing
  BY NextByte
<1>3. OfScan' = OfScan /\ Done' = Idx(b)
  BY <1>2 DEF OfScan, Done
<1>4. /\ msg' \in Seq(Byte) /\ Len(msg') = Len(msg) - 1
      /\ \A m \in 1 .. Len(msg') : msg'[m] = msg[m + 1]
  BY <1>1
<1>5. \A m \in 1 .. Len(msg) : msg[m] \in OfScan /\ Idx(msg[m]) \in Nat
  BY IdxPositive DEF InOrder
<1>6. last'.s <= session
  BY <1>2, UsedAreHandlers DEF OfScan
<1>7. ASSUME NEW m \in 1 .. Len(msg')
      PROVE  /\ msg'[m] \in OfScan /\ Idx(b) < Idx(msg'[m]) /\ Idx(msg'[m]) <= next
             /\ \A n \in 1 .. Len(msg') : m < n => Idx(msg'[m]) < Idx(msg'[n])
  <2>1. m + 1 \in 1 .. Len(msg) /\ 1 \in 1 .. Len(msg) /\ 1 < m + 1
    BY <1>1, <1>4
  <2>2. \A n \in 1 .. Len(msg') : n + 1 \in 1 .. Len(msg) /\ (m < n => m + 1 < n + 1)
    BY <1>1, <1>4
  <2>3. QED
    BY <1>1, <1>4, <2>1, <2>2 DEF InOrder
<1>8. InOrder'
  BY <1>2, <1>3, <1>6, <1>7 DEF InOrder
<1>9. Heard'
  <2>1. ASSUME NEW x \in OfScan, Idx(b) < Idx(x), Idx(x) <= next, x \notin missing
        PROVE  \E m \in 1 .. Len(msg') : msg'[m] = x
    <3>1. Idx(x) \in Nat /\ Idx(b) \in Nat /\ Done \in Nat /\ next \in Nat
      BY <1>2, IdxPositive, DoneFacts, UsedAreHandlers
    <3>2. Done < Idx(x)
      BY <1>2, <2>1, <3>1
    <3>3. PICK m \in 1 .. Len(msg) : msg[m] = x
      BY <2>1, <3>2 DEF Heard
    <3>4. m # 1
      BY <1>1, <2>1, <3>1, <3>3
    <3>5. m - 1 \in 1 .. Len(msg') /\ msg'[m - 1] = msg[m]
      BY <1>1, <1>4, <3>4
    <3>6. QED
      BY <3>3, <3>5
  <2>2. QED
    BY <1>3, <2>1 DEF Heard
<1>10. last' \in AnyByte
  BY <1>1, Lengths DEF Byte, AnyByte
<1>11. QED
  BY <1>2, <1>3, <1>4, <1>8, <1>9, <1>10

(***************************************************************************)
(* The byte before the next one, unless it was lost, is the byte unpacked  *)
(* last.                                                                   *)
(***************************************************************************)
LEMMA ByteBefore ==
  ASSUME Typed, InOrder, Heard, msg # <<>>, dec \in {"byte", "store", "complete"},
         NEW x \in OfScan, x \notin missing, Idx(Head(msg)) = Idx(x) + 1
  PROVE  last = x
<1>1. /\ Head(msg) \in OfScan /\ Done < Idx(Head(msg)) /\ Idx(x) <= Done
  BY NextByte, IdxPositive
<1>2. Idx(x) \in Nat /\ Idx(x) > 0 /\ Done \in Nat
  BY IdxPositive, DoneFacts
<1>3. Done = Idx(x)
  BY <1>1, <1>2
<1>4. last \in OfScan /\ Idx(last) = Idx(x)
  BY <1>2, <1>3 DEF Done
<1>5. QED
  BY <1>4, IdxInjective

\* a payload of CapLen bytes, of which some in between may be lost
LEMMA PayloadStream ==
  ASSUME Typed, Threads, InOrder, Heard, session > 0, dec = "idle",
         NEW keep \in 0 .. CapLen, NEW lose \in Nat, Arrives(keep, lose)
  PROVE  /\ InOrder' /\ Heard'
         /\ missing \subseteq missing' /\ missing' \subseteq Byte
         /\ msg' \in Seq(Byte) /\ next' \in 0 .. Capsules * CapLen
<1> DEFINE Nth(k) == next + k + (IF k > keep THEN lose ELSE 0)
<1>1. /\ next \in Nat /\ session \in Nat /\ CapLen \in Nat /\ CapLen > 2
      /\ Done \in Nat /\ Done <= next
  BY UsedAreHandlers, Lengths, DoneFacts DEF InOrder
<1>2. /\ next' = next + lose + CapLen /\ UNCHANGED <<session, last, enabled>>
      /\ missing' = missing \cup {Sent(next + keep + j) : j \in 1 .. lose}
      /\ msg' = [k \in 1 .. CapLen |-> Sent(Nth(k))]
      /\ next + lose + CapLen <= Capsules * CapLen
  BY DEF Arrives, unpacker
<1>3. OfScan' = OfScan /\ Done' = Done
  BY <1>2 DEF OfScan, Done
<1>4. \A k \in 1 .. CapLen : /\ Nth(k) \in Nat /\ Nth(k) > next
                             /\ Nth(k) <= next + lose + CapLen
                             /\ \A l \in 1 .. CapLen : k < l => Nth(k) < Nth(l)
  BY <1>1
<1> HIDE DEF Nth
<1>5. Len(msg') = CapLen /\ \A k \in 1 .. CapLen : msg'[k] = Sent(Nth(k))
  BY <1>1, <1>2
<1>6. \A k \in 1 .. CapLen : /\ Sent(Nth(k)) \in OfScan /\ Sent(Nth(k)) \in Byte
                             /\ Idx(Sent(Nth(k))) = Nth(k)
  BY <1>1, <1>4, SentIsByte
<1>7. msg' \in Seq(Byte)
  BY <1>1, <1>2, <1>6
<1>8. \A j \in 1 .. lose : LET y == Sent(next + keep + j)
                           IN y \in Byte /\ y \in OfScan /\ Idx(y) = next + keep + j
  BY <1>1, SentIsByte
<1>9. missing' \subseteq Byte
  BY <1>2, <1>8 DEF Typed, TypeOK
<1>10. next' \in 0 .. Capsules * CapLen
  BY <1>1, <1>2, UnpackersAssumption
<1>11. InOrder'
  BY <1>1, <1>2, <1>3, <1>4, <1>5, <1>6 DEF InOrder
<1>12. Heard'
  <2>1. SUFFICES ASSUME enabled, NEW x \in OfScan,
                        Done < Idx(x), Idx(x) <= next', x \notin missing'
                 PROVE  \E m \in 1 .. Len(msg') : msg'[m] = x
    BY <1>2, <1>3 DEF Heard, Arrives
  <2>2. Idx(x) \in Nat /\ Sent(Idx(x)) = x
    BY IdxPositive, SentOfIdx
  <2>3. Idx(x) > next
    <3>1. Len(msg) = 0
      BY DEF Threads
    <3>2. QED
      BY <1>1, <1>2, <2>1, <2>2, <3>1 DEF Heard
  <2> DEFINE k == Idx(x) - next
  <2>4. k \in 1 .. CapLen + lose /\ Sent(next + k) = x
    BY <1>1, <1>2, <2>1, <2>2, <2>3
  <2> HIDE DEF k
  <2>5. CASE k <= keep
    <3>1. k \in 1 .. CapLen /\ Nth(k) = next + k
      BY <1>1, <2>4, <2>5 DEF Nth
    <3>2. QED
      BY <1>5, <2>4, <3>1
  <2>6. CASE keep < k /\ k <= keep + lose
    <3>1. k - keep \in 1 .. lose /\ next + keep + (k - keep) = next + k
      BY <1>1, <2>4, <2>6
    <3>2. QED
      BY <1>2, <2>1, <2>4, <3>1
  <2>7. CASE k > keep + lose
    <3>1. k - lose \in 1 .. CapLen /\ Nth(k - lose) = next + k
      BY <1>1, <2>4, <2>7 DEF Nth
    <3>2. QED
      BY <1>5, <2>4, <3>1
  <2>8. QED
    BY <1>1, <2>4, <2>5, <2>6, <2>7
<1>13. QED
  BY <1>2, <1>7, <1>9, <1>10, <1>11, <1>12

-----------------------------------------------------------------------------
(***************************************************************************)
(* Steps beside the bytes.  They may move the caller on, and reset the     *)
(* handler in a stop.                                                      *)
(***************************************************************************)
LEMMA CachedKept ==
  ASSUME Typed, Cached, UNCHANGED <<plan, session, last, at>>,
         missing \subseteq missing',
         dec' = "store" => dec = "store", dec = "join" => dec' = "join",
         Undisturbed' => Undisturbed,
         session > 0 => handler'[H] = Me \/ ~Undisturbed' \/ ~handler'[H].rdy
  PROVE  Cached'
<1>1. OfScan' = OfScan /\ Done' = Done /\ H' = H
  BY DEF OfScan, Done, H, Type
<1>2. Me' = handler'[H]
  BY <1>1 DEF Me
<1>3. SUFFICES ASSUME session > 0, H.pairs, Undisturbed', Me'.rdy
               PROVE  /\ dec' = "store" => Me'.pos = at
                      /\ dec' # "join" =>
                           \A x \in OfScan :
                             /\ Idx(x) <= Done
                             /\ Me'.prev[1] < session \/ Me'.prev[2] < x.c
                             => x \in missing' \/ \E j \in 1 .. Me'.pos : Me'.buf[j] = x
  BY <1>1 DEF Cached
<1>4. Me' = Me
  BY <1>2, <1>3
<1>5. QED
  BY <1>3, <1>4 DEF Cached

\* a capsule about to be the previous one stays so
LEMMA JoiningKept ==
  ASSUME Joining, UNCHANGED <<plan, session, last>>, dec' = "join" => dec = "join",
         dec = "join" => handler'[H].buf = Me.buf
  PROVE  Joining'
<1>1. OfScan' = OfScan /\ H' = H
  BY DEF OfScan, H, Type
<1>2. Me' = handler'[H]
  BY <1>1 DEF Me
<1>3. QED
  BY <1>1, <1>2 DEF Joining, Cap

\* and the handler keeps its place
LEMMA InStepKept ==
  ASSUME InStep, UNCHANGED <<plan, session, fooled, last, published, at>>,
         missing \subseteq missing', caller' = "scanning" => caller = "scanning",
         caller' = "scanning" => handler' = handler,
         dec' \in {"store", "complete"} => dec' = dec /\ msg' = msg,
         dec = "join" => dec' = "join"
  PROVE  InStep'
<1>1. OfScan' = OfScan /\ H' = H
  BY DEF OfScan, H, Type
<1>2. SUFFICES ASSUME session > 0, caller' = "scanning", ~fooled
               PROVE  InStep'
  BY DEF InStep
<1>3. Me' = Me /\ caller = "scanning"
  BY <1>1, <1>2 DEF Me
<1>4. /\ dec' = "store" =>
           Me'.pos = at' /\ (at' + 1 \in H'.marks => Head(msg').i = at' + 1)
      /\ dec' = "complete" => Me'.pos = CapLen - 1
  BY <1>1, <1>2, <1>3 DEF InStep
<1>5. ASSUME last \in OfScan, Upto(last.c, last.i)'
      PROVE  First' /\ Second' /\ Third'
  <2>1. Upto(last.c, last.i)
    BY <1>5 DEF Upto
  <2>2. First /\ Second /\ Third
    BY <1>2, <1>3, <1>5, <2>1 DEF InStep
  <2>3. InFrame' <=> InFrame
    BY <1>1, <1>3 DEF InFrame
  <2>4. \A c \in Int : Whole(session, c)' => Whole(session, c)
    BY DEF Whole
  <2>5. last.c \in Int
    BY <1>5 DEF OfScan
  <2>6. First'
    BY <1>3, <2>2, <2>3 DEF First
  <2>7. Second'
    BY <1>1, <1>3, <2>2, <2>3, <2>4, <2>5 DEF Second, Cap
  <2>8. Third'
    BY <1>1, <1>3, <2>2, <2>4, <2>5 DEF Third
  <2>9. QED
    BY <2>6, <2>7, <2>8
<1>6. QED
  BY <1>1, <1>4, <1>5 DEF InStep

-----------------------------------------------------------------------------
(***************************************************************************)
(* The caller keeps the invariant.                                         *)
(***************************************************************************)
LEMMA StartKeeps ==
  ASSUME IInv, StartScan
  PROVE  IInv'
<1> USE DEF IInv
<1>1. /\ UNCHANGED <<plan, bursts, missing, dec, msg, at, last, published>>
      /\ dec = "idle" /\ msg = <<>> /\ session' = session + 1 /\ next' = 0
      /\ caller' = "scanning" /\ enabled' = TRUE /\ fooled' = FALSE
      /\ active' = None /\ type' = None
  BY DEF StartScan, CallerGoto, CallerQuiet, Threads
<1>2. /\ session \in Nat /\ session' > 0 /\ session' \in Nat
      /\ last.s <= session /\ last.s \in Nat
  BY <1>1, UsedAreHandlers DEF InOrder, Typed, AnyByte
<1>3. last \notin OfScan'
  BY <1>1, <1>2 DEF OfScan
<1>4. Done' = 0
  BY <1>1, <1>3 DEF Done
<1>5. handler' \in [Used' -> State]
  <2>1. Used' = Used
    BY <1>1 DEF Used
  <2>2. CASE active = None
    BY <2>1, <2>2 DEF StartScan, Typed
  <2>3. CASE active # None
    BY <1>1, <2>3, ActiveReset DEF StartScan
  <2>4. QED
    BY <2>2, <2>3
<1>6. Typed'
  <2>1. Used' = Used /\ session' \in 0 .. Len(plan)
    BY <1>1, <1>2 DEF Used, StartScan, Typed, TypeOK
  <2>2. 0 \in 0 .. Capsules * CapLen
    BY UnpackersAssumption
  <2>3. \A h \in Used : /\ handler'[h].pos \in 0 .. CapLen - 1
                        /\ handler'[h].buf \in [1 .. CapLen -> Byte \cup {NoByte}]
                        /\ handler'[h].rdy \in BOOLEAN
    BY <1>5, <2>1 DEF State
  <2>4. QED
    BY <1>1, <1>5, <2>1, <2>2, <2>3 DEF Typed, TypeOK
<1>7. Threads'
  BY <1>1, <1>2 DEF Threads
<1>8. ASSUME NEW x \in OfScan'
      PROVE  Idx(x) \in Nat /\ Idx(x) > 0
  BY <1>2, <1>8, Lengths DEF OfScan, Idx
<1>9. InOrder' /\ Heard'
  <2>1. Len(msg) = 0
    BY <1>1
  <2>2. InOrder'
    BY <1>1, <1>2, <1>4, <2>1 DEF InOrder
  <2>3. QED
    BY <1>1, <1>4, <1>8, <2>2 DEF Heard
<1>10. Cached' /\ Joining' /\ InStep'
  <2>1. Cached'
    BY <1>1, <1>4, <1>8 DEF Cached
  <2>2. Joining' /\ InStep'
    BY <1>1, <1>3 DEF Joining, InStep
  <2>3. QED
    BY <2>1, <2>2
<1>11. QED
  BY <1>6, <1>7, <1>9, <1>10

\* a stop begins
LEMMA DisableKeeps ==
  ASSUME IInv, Disable
  PROVE  IInv'
<1> USE DEF IInv
<1>1. /\ UNCHANGED <<plan, bursts, missing, dec, msg, at, last, published, session,
                     next, fooled, active, type, handler>>
      /\ caller = "scanning" /\ caller' = "clear" /\ enabled' = FALSE
  BY DEF Disable, CallerGoto, CallerQuiet
<1>2. Typed'
  <2>1. Used' = Used /\ Type' = Type
    BY <1>1 DEF Used, Type
  <2>2. QED
    BY <1>1, <2>1 DEF Typed, TypeOK
<1>3. Threads'
  BY <1>1 DEF Threads, Type, Me, H
<1>4. InOrder' /\ Heard'
  BY <1>1, NothingTaken DEF Threads
<1>5. Cached' /\ Joining' /\ InStep'
  BY <1>1, CachedKept, JoiningKept, InStepKept DEF Undisturbed, Me, H, Type
<1>6. QED
  BY <1>2, <1>3, <1>4, <1>5

\* it resets the handler, under the decoder's thread
LEMMA ClearKeeps ==
  ASSUME IInv, ClearCache
  PROVE  IInv'
<1> USE DEF IInv
<1>1. /\ UNCHANGED <<plan, bursts, missing, dec, msg, at, last, published, session,
                     next, fooled, enabled, active, type>>
      /\ caller = "clear" /\ caller' = "drop"
      /\ handler' = IF active = None THEN handler
                    ELSE [handler EXCEPT ![active] = HandlerReset(active)]
  BY DEF ClearCache, CallerGoto, CallerQuiet, unpacker
<1>2. session > 0 /\ H' = H /\ Used' = Used
  BY <1>1 DEF Threads, H, Type, Used
<1>3. /\ handler' \in [Used' -> State] /\ handler'[H].buf = Me.buf
      /\ handler'[H].pos \in {0, Me.pos}
      /\ handler'[H] = Me \/ (H.forgets => ~handler'[H].rdy)
  BY <1>1, <1>2, ActiveReset DEF Typed, Me
<1>4. Typed'
  BY <1>1, <1>3 DEF Typed, TypeOK, State, Used, Type
<1>5. Threads'
  BY <1>1, <1>2, <1>3, Lengths DEF Threads, Type, Me, H
<1>6. InOrder' /\ Heard'
  BY <1>1, NothingTaken DEF Threads
<1>7. Cached' /\ Joining' /\ InStep'
  BY <1>1, <1>2, <1>3, CachedKept, JoiningKept, InStepKept DEF Undisturbed
<1>8. QED
  BY <1>4, <1>5, <1>6, <1>7

\* and forgets it
LEMMA DropKeeps ==
  ASSUME IInv, DropHandler \/ DropType
  PROVE  IInv'
<1> USE DEF IInv
<1>1. /\ UNCHANGED <<plan, bursts, missing, dec, msg, at, last, published, session,
                     next, fooled, enabled, handler>>
      /\ \/ /\ caller = "drop" /\ caller' = "type"
            /\ active' = None /\ type' = type
         \/ /\ caller = "type" /\ caller' = "stopped"
            /\ type' = None /\ active' = active
  BY DEF DropHandler, DropType, CallerGoto, CallerQuiet
<1>2. Typed'
  <2>1. Used' = Used /\ Type' = Type
    BY <1>1 DEF Used, Type
  <2>2. QED
    BY <1>1, <2>1 DEF Typed, TypeOK
<1>3. Threads'
  BY <1>1 DEF Threads, Type, Me, H
<1>4. InOrder' /\ Heard'
  BY <1>1, NothingTaken DEF Threads
<1>5. Cached' /\ Joining' /\ InStep'
  BY <1>1, CachedKept, JoiningKept, InStepKept DEF Undisturbed, Me, H, Type
<1>6. QED
  BY <1>2, <1>3, <1>4, <1>5

-----------------------------------------------------------------------------
(***************************************************************************)
(* The line and the way of a payload to the handler keep the invariant.    *)
(***************************************************************************)
LEMMA PayloadKeeps ==
  ASSUME IInv, PayloadArrives
  PROVE  IInv'
<1> USE DEF IInv
<1>1. PICK keep \in 0 .. CapLen, lose \in Nat :
        Arrives(keep, lose) /\ bursts' \in 0 .. MaxBursts
  BY Lengths, UnpackersAssumption DEF PayloadArrives, Typed, TypeOK
<1>2. /\ UNCHANGED <<plan, session, caller, fooled, enabled, active, type, at, handler,
                     last, published>>
      /\ dec = "idle" /\ dec' = "message"
  BY <1>1 DEF Arrives, unpacker, PayloadArrives
<1>3. session > 0
  BY DEF PayloadArrives, Threads
<1>4. /\ InOrder' /\ Heard' /\ missing \subseteq missing' /\ missing' \subseteq Byte
      /\ msg' \in Seq(Byte) /\ next' \in 0 .. Capsules * CapLen
  BY <1>1, <1>2, <1>3, PayloadStream
<1>5. Typed'
  <2>1. Used' = Used
    BY <1>2 DEF Used
  <2>2. QED
    BY <1>1, <1>2, <1>4, <2>1 DEF Typed, TypeOK
<1>6. Threads'
  BY <1>2, <1>3 DEF Threads, Type
<1>7. Cached' /\ Joining' /\ InStep'
  BY <1>2, <1>4, CachedKept, JoiningKept, InStepKept DEF Undisturbed, Me, H, Type
<1>8. QED
  BY <1>4, <1>5, <1>6, <1>7

\* the flag and the pointer are looked at
LEMMA TestKeeps ==
  ASSUME IInv, TestEnabled \/ TestHandler
  PROVE  IInv'
<1> USE DEF IInv
<1>1. /\ UNCHANGED <<plan, next, bursts, missing, session, caller, enabled, fooled,
                     active, type, handler, last, published, at>>
      /\ \/ /\ dec = "message" /\ dec' = "select" /\ msg' = msg /\ enabled
         \/ /\ dec = "test" /\ dec' = "call" /\ msg' = msg /\ active # None
         \/ /\ dec = "message" /\ dec' = "idle" /\ msg' = <<>> /\ ~enabled
         \/ /\ dec = "test" /\ dec' = "idle" /\ msg' = <<>> /\ active = None
  BY DEF TestEnabled, TestHandler, DecGoto, DecQuiet, stream
<1>2. session > 0 /\ (dec' = "idle" => ~enabled)
  BY <1>1 DEF Threads
<1>3. Typed'
  <2>1. Used' = Used /\ Type' = Type
    BY <1>1 DEF Used, Type
  <2>2. msg' \in Seq(Byte)
    <3>1. msg \in Seq(Byte) /\ <<>> \in Seq(Byte)
      BY DEF Typed, TypeOK
    <3>2. QED
      BY <1>1, <3>1
  <2>3. dec' = "call" => active' \in {None, Type'}
    BY <1>1, <2>1 DEF Threads
  <2>4. QED
    BY <1>1, <2>1, <2>2, <2>3 DEF Typed, TypeOK
<1>4. Threads'
  BY <1>1, <1>2 DEF Threads, Type
<1>5. InOrder' /\ Heard'
  <2>1. CASE msg' = msg
    BY <1>1, <2>1, NothingTaken
  <2>2. CASE dec' = "idle"
    BY <1>1, <1>2, <2>2, PassedOver
  <2>3. QED
    BY <1>1, <2>1, <2>2
<1>6. Cached' /\ Joining' /\ InStep'
  BY <1>1, CachedKept, JoiningKept, InStepKept DEF Undisturbed, Me, H, Type
<1>7. QED
  BY <1>3, <1>4, <1>5, <1>6

\* the handler is selected
LEMMA SelectKeeps ==
  ASSUME IInv, Select
  PROVE  IInv'
<1> USE DEF IInv
<1>1. /\ UNCHANGED <<plan, next, bursts, missing, session, caller, enabled, fooled,
                     msg, last, published, at>>
      /\ dec = "select" /\ dec' = "test" /\ type' = Type /\ session > 0
  BY DEF Select, DecGoto, DecQuiet, stream, Threads
<1>2. H' = H /\ Used' = Used /\ Type' = Type
  BY <1>1 DEF H, Type, Used
<1>3. /\ active' \in {None, Type} /\ handler' \in [Used' -> State]
      /\ handler'[H].buf = Me.buf
      /\ \/ handler' = handler
         \/ type # Type /\ active # None /\ (H.forgets => ~handler'[H].rdy)
      /\ type = Type => active' = active
      /\ type # Type => active' = Type
  <2>1. CASE type = Type \/ active = None
    BY <1>1, <1>2, <2>1 DEF Select, Threads, Typed, Me
  <2>2. CASE type # Type /\ active # None
    BY <1>1, <1>2, <2>2, ActiveReset DEF Select
  <2>3. QED
    BY <2>1, <2>2
<1>4. Typed'
  <2>1. \A h \in Used : /\ handler'[h].pos \in 0 .. CapLen - 1
                        /\ handler'[h].buf \in [1 .. CapLen -> Byte \cup {NoByte}]
                        /\ handler'[h].rdy \in BOOLEAN
    BY <1>2, <1>3 DEF State
  <2>2. Type \in Used
    BY <1>1, MeFacts DEF H
  <2>3. QED
    BY <1>1, <1>2, <1>3, <2>1, <2>2 DEF Typed, TypeOK
<1>5. Type # None
  BY <1>1, MeFacts, HandlerFacts DEF H
<1>6. Threads'
  BY <1>1, <1>2, <1>3, <1>5 DEF Threads
<1>7. InOrder' /\ Heard'
  BY <1>1, NothingTaken
<1>8. type # Type /\ active # None => caller \notin {"scanning", "clear"}
  BY <1>5 DEF Threads
<1>9. Cached' /\ Joining' /\ InStep'
  BY <1>1, <1>2, <1>3, <1>8, CachedKept, JoiningKept, InStepKept DEF Undisturbed, Me
<1>10. QED
  BY <1>4, <1>6, <1>7, <1>9

\* it is called, and returns
LEMMA CallKeeps ==
  ASSUME IInv, Call \/ PayloadEnds
  PROVE  IInv'
<1> USE DEF IInv
<1>1. /\ UNCHANGED <<plan, next, bursts, missing, session, caller, enabled, fooled,
                     active, type, msg, handler, last, published, at>>
      /\ \/ dec = "call" /\ dec' = "crashed" /\ active = None
         \/ dec = "call" /\ dec' = "byte" /\ active # None
         \/ dec = "byte" /\ dec' = "idle" /\ msg = <<>>
  BY DEF Call, PayloadEnds, DecGoto, DecQuiet, stream
<1>2. Typed'
  <2>1. Used' = Used /\ Type' = Type
    BY <1>1 DEF Used, Type
  <2>2. QED
    BY <1>1, <2>1 DEF Typed, TypeOK
<1>3. Threads'
  BY <1>1 DEF Threads, Type
<1>4. InOrder' /\ Heard'
  BY <1>1, NothingTaken
<1>5. Cached' /\ Joining' /\ InStep'
  BY <1>1, CachedKept, JoiningKept, InStepKept DEF Undisturbed, Me, H, Type
<1>6. QED
  BY <1>2, <1>3, <1>4, <1>5

-----------------------------------------------------------------------------
(***************************************************************************)
(* The bytes.  First the two that an invariant on a buffer needs: while a  *)
(* capsule waits for its pair, all that was heard after it is cached or is *)
(* the next byte; and where the handler is, when the next byte is one of a *)
(* capsule that has arrived whole so far.                                  *)
(***************************************************************************)
LEMMA AllCached ==
  ASSUME Typed, InOrder, Heard, Cached, session > 0, msg # <<>>,
         dec \in {"byte", "store", "complete"}, H.pairs, Undisturbed, Me.rdy,
         NEW x \in OfScan, Idx(x) <= Idx(Head(msg)),
         Me.prev[1] < session \/ Me.prev[2] < x.c
  PROVE  x = Head(msg) \/ x \in missing \/ \E j \in 1 .. Me.pos : Me.buf[j] = x
<1>1. /\ Head(msg) \in OfScan
      /\ Idx(x) < Idx(Head(msg)) => Idx(x) <= Done \/ x \in missing
  BY NextByte
<1>2. Idx(x) \in Nat /\ Idx(Head(msg)) \in Nat
  BY <1>1, IdxPositive
<1>3. CASE Idx(x) = Idx(Head(msg))
  BY <1>1, <1>3, IdxInjective
<1>4. CASE Idx(x) <= Done
  BY <1>4 DEF Cached
<1>5. QED
  BY <1>1, <1>2, <1>3, <1>4

\* the byte before the next one in its capsule, or the last of the capsule before
LEMMA WholeSoFar ==
  ASSUME Typed, InOrder, Heard, session > 0, msg # <<>>,
         dec \in {"byte", "store", "complete"},
         Upto(Head(msg).c, Head(msg).i)
  PROVE  LET b == Head(msg)
         IN /\ b.s = session /\ b.c \in Nat /\ b.c > 0 /\ b.i \in 1 .. CapLen
            /\ b.i > 1 => /\ last \in OfScan /\ last.c = b.c /\ last.i = b.i - 1
                          /\ Upto(last.c, last.i)
            /\ b.i = 1 /\ b.c > 1 /\ Whole(session, b.c - 1) =>
                 /\ last \in OfScan /\ last.c = b.c - 1 /\ last.i = CapLen
                 /\ Upto(last.c, last.i)
<1> DEFINE b == Head(msg)
<1>1. b \in OfScan
  BY NextByte
<1>2. b.s = session /\ b.c \in Nat /\ b.c > 0 /\ b.i \in 1 .. CapLen
  BY <1>1 DEF OfScan
<1>3. ASSUME b.i > 1
      PROVE  /\ last \in OfScan /\ last.c = b.c /\ last.i = b.i - 1
             /\ Upto(last.c, last.i)
  <2> DEFINE x == [s |-> session, c |-> b.c, i |-> b.i - 1]
  <2>1. x \in OfScan /\ x \notin missing
    BY <1>2, <1>3, Lengths DEF OfScan, Upto
  <2>2. Idx(b) = Idx(x) + 1
    <3>1. Idx(b) - Idx(x) = b.i - x.i
      BY <1>1, <2>1, IdxOrder
    <3>2. Idx(b) \in Nat /\ Idx(x) \in Nat
      BY <1>1, <2>1, IdxPositive
    <3>3. QED
      BY <1>2, <3>1, <3>2, Lengths
  <2>3. last = x
    BY <2>1, <2>2, ByteBefore
  <2>4. Upto(b.c, b.i - 1)
    BY <1>2, Lengths DEF Upto
  <2>5. QED
    BY <2>1, <2>3, <2>4
<1>4. ASSUME b.i = 1, b.c > 1, Whole(session, b.c - 1)
      PROVE  /\ last \in OfScan /\ last.c = b.c - 1 /\ last.i = CapLen
             /\ Upto(last.c, last.i)
  <2> DEFINE x == [s |-> session, c |-> b.c - 1, i |-> CapLen]
  <2>1. x \in OfScan /\ x \notin missing
    BY <1>2, <1>4, Lengths DEF OfScan, Whole
  <2>2. Idx(b) = Idx(x) + 1
    BY <1>1, <1>2, <1>4, <2>1, IdxOrder
  <2>3. last = x
    BY <2>1, <2>2, ByteBefore
  <2>4. Upto(b.c - 1, CapLen)
    BY <1>4 DEF Upto, Whole
  <2>5. QED
    BY <2>1, <2>3, <2>4
<1>5. QED
  BY <1>2, <1>3, <1>4

\* the handler is at byte b of a frame, or has the capsule before b's ready
InPlace(b) ==
  /\ Me.pos = b.i - 1
  /\ \A j \in 1 .. b.i - 1 : Me.buf[j] = [s |-> session, c |-> b.c, i |-> j]

Paired(b) == H.pairs => Me.rdy /\ Me.prev = <<session, b.c - 1>>

\* where the handler is when the next byte is one of a capsule that arrives
LEMMA Place ==
  ASSUME Typed, InOrder, Heard, InStep, session > 0, msg # <<>>,
         dec \in {"byte", "store", "complete"}, caller = "scanning", ~fooled,
         Upto(Head(msg).c, Head(msg).i)
  PROVE  LET b == Head(msg)
         IN /\ b.i > 1 => InPlace(b) \/ Me.pos = 0 \/ Me.pos >= b.i
            /\ b.c > 1 /\ Whole(session, b.c - 1) => InPlace(b)
            /\ b.c > 2 /\ Whole(session, b.c - 1) /\ Whole(session, b.c - 2) => Paired(b)
<1> DEFINE b == Head(msg)
<1>1. /\ b.s = session /\ b.c \in Nat /\ b.c > 0 /\ b.i \in 1 .. CapLen
      /\ b.i > 1 => /\ last \in OfScan /\ last.c = b.c /\ last.i = b.i - 1
                    /\ Upto(last.c, last.i)
      /\ b.i = 1 /\ b.c > 1 /\ Whole(session, b.c - 1) =>
           /\ last \in OfScan /\ last.c = b.c - 1 /\ last.i = CapLen
           /\ Upto(last.c, last.i)
  BY WholeSoFar
<1>2. Me.pos \in 0 .. CapLen - 1 /\ CapLen \in Nat /\ CapLen > 2
  BY MeFacts, Lengths
<1>3. last \in OfScan /\ Upto(last.c, last.i) => First /\ Second /\ Third
  BY DEF InStep
<1> HIDE DEF b
<1>4. CASE b.i > 1
  <2>1. First /\ Second /\ Third /\ last.c = b.c /\ last.i = b.i - 1 /\ last.i < CapLen
    BY <1>1, <1>2, <1>3, <1>4
  <2>2. InFrame => InPlace(b)
    BY <2>1 DEF InFrame, InPlace
  <2>3. InPlace(b) \/ Me.pos = 0 \/ Me.pos >= b.i
    BY <1>1, <1>2, <2>1, <2>2 DEF First, InPlace
  <2>4. b.c > 1 /\ Whole(session, b.c - 1) => InPlace(b)
    BY <2>1, <2>2 DEF Second
  <2>5. b.c > 2 /\ Whole(session, b.c - 1) /\ Whole(session, b.c - 2) => Paired(b)
    BY <2>1 DEF Third, Paired
  <2>6. QED
    BY <2>3, <2>4, <2>5 DEF b
<1>5. CASE b.i = 1
  <2>1. ASSUME b.c > 1, Whole(session, b.c - 1)
        PROVE  InPlace(b) /\ (b.c > 2 /\ Whole(session, b.c - 2) => Paired(b))
    <3>1. /\ First /\ Second /\ last.c = b.c - 1 /\ last.i = CapLen /\ last.s = session
      BY <1>1, <1>3, <1>5, <2>1 DEF OfScan
    <3>2. InPlace(b)
      BY <1>2, <1>5, <3>1 DEF First, InFrame, InPlace
    <3>3. ASSUME b.c > 2, Whole(session, b.c - 2), H.pairs
          PROVE  Me.rdy /\ Me.prev = <<session, b.c - 1>>
      <4>1. last.c > 1 /\ Whole(session, last.c - 1)
        BY <1>1, <3>1, <3>3
      <4>2. Me.rdy /\ Me.prev = Cap(last)
        BY <3>1, <3>3, <4>1 DEF Second
      <4>3. QED
        BY <3>1, <4>2 DEF Cap
    <3>4. QED
      BY <3>2, <3>3 DEF Paired
  <2>2. ~(b.i > 1)
    BY <1>5
  <2>3. b.c > 1 /\ Whole(session, b.c - 1) => InPlace(b)
    BY <2>1
  <2>4. b.c > 2 /\ Whole(session, b.c - 1) /\ Whole(session, b.c - 2) => Paired(b)
    BY <1>1, <2>1
  <2>5. QED
    BY <2>2, <2>3, <2>4 DEF b
<1>6. QED
  BY <1>1, <1>4, <1>5

-----------------------------------------------------------------------------
(***************************************************************************)
(* A byte that passes keeps the invariant.                                 *)
(***************************************************************************)
MarkPasses ==
  LET b == Head(msg)
  IN /\ msg # <<>> /\ dec = "byte"
     /\ TRUE \in Passes(b, Me.pos + 1)
     /\ dec' = IF FrameFull THEN "complete" ELSE "store"
     /\ fooled' = (fooled \/ (Me.pos + 1 \in H.marks /\ b.i # Me.pos + 1))
     /\ at' = Me.pos
     /\ UNCHANGED <<handler, msg, last, active, type, published>> /\ DecQuiet

MarkFails ==
  LET b == Head(msg)
  IN /\ msg # <<>> /\ dec = "byte"
     /\ FALSE \in Passes(b, Me.pos + 1)
     /\ handler' = [handler EXCEPT ![H] = Unmarked]
     /\ msg' = Tail(msg) /\ last' = b
     /\ UNCHANGED <<dec, fooled, at, active, type, published>> /\ DecQuiet

\* a byte passes or fails
LEMMA OnByteCases == OnByte => MarkPasses \/ MarkFails
<1> SUFFICES ASSUME OnByte
             PROVE  MarkPasses \/ MarkFails
  OBVIOUS
<1>1. PICK pass \in Passes(Head(msg), Me.pos + 1) :
         IF pass
         THEN /\ dec' = IF FrameFull THEN "complete" ELSE "store"
              /\ fooled' = (fooled \/ (Me.pos + 1 \in H.marks /\ Head(msg).i # Me.pos + 1))
              /\ at' = Me.pos
              /\ UNCHANGED <<handler, msg, last>>
         ELSE /\ handler' = [handler EXCEPT ![H] = Unmarked]
              /\ msg' = Tail(msg) /\ last' = Head(msg)
              /\ UNCHANGED <<dec, fooled, at>>
  BY Zenon DEF OnByte
<1>2. pass \in BOOLEAN
  BY <1>1 DEF Passes
<1>3. CASE pass = TRUE
  BY Zenon, <1>1, <1>3 DEF OnByte, MarkPasses
<1>4. CASE pass = FALSE
  BY Zenon, <1>1, <1>4 DEF OnByte, MarkFails
<1>5. QED
  BY <1>2, <1>3, <1>4

\* a byte that passes is still to be unpacked
LEMMA MarkPassesKeeps ==
  ASSUME IInv, MarkPasses
  PROVE  IInv'
<1> USE DEF IInv
<1>1. /\ UNCHANGED <<plan, next, bursts, missing, session, caller, enabled, active,
                     type, msg, handler, last, published>>
      /\ dec = "byte" /\ msg # <<>> /\ at' = Me.pos /\ session > 0
  BY DEF MarkPasses, DecQuiet, stream, Threads
<1>2. /\ dec' \in {"complete", "store"} /\ (dec' = "complete" <=> Me.pos = CapLen - 1)
  BY DEF MarkPasses, FrameFull
<1>3. fooled' = (fooled \/ (Me.pos + 1 \in H.marks /\ Head(msg).i # Me.pos + 1))
  BY DEF MarkPasses
<1>4. H' = H /\ Used' = Used /\ Type' = Type /\ Me' = Me
  BY <1>1 DEF H, Type, Used, Me
<1>5. Me.pos \in 0 .. CapLen - 1 /\ CapLen \in Nat /\ CapLen > 2 /\ fooled \in BOOLEAN
  BY <1>1, MeFacts, Lengths DEF Typed, TypeOK
<1>6. fooled' \in BOOLEAN
  BY <1>3, <1>5
<1>7. Typed'
  BY <1>1, <1>2, <1>4, <1>5, <1>6 DEF Typed, TypeOK
<1>8. Threads'
  BY <1>1, <1>2, <1>4, <1>5 DEF Threads
<1>9. InOrder' /\ Heard'
  BY <1>1, NothingTaken
<1>10. OfScan' = OfScan /\ Done' = Done
  BY <1>1 DEF OfScan, Done
<1>11. Cached'
  BY <1>1, <1>4, <1>10 DEF Cached, Undisturbed
<1>12. Joining'
  BY <1>2 DEF Joining
<1>13. InStep'
  <2>1. SUFFICES ASSUME caller = "scanning", ~fooled'
                 PROVE  InStep'
    BY <1>1 DEF InStep
  <2>2. ~fooled /\ (Me.pos + 1 \in H.marks => Head(msg).i = Me.pos + 1)
    BY <1>3, <2>1
  <2>3. ASSUME last \in OfScan, Upto(last.c, last.i)'
        PROVE  First' /\ Second' /\ Third'
    <3>1. First /\ Second /\ Third
      BY <1>1, <2>1, <2>2, <2>3 DEF InStep, Upto
    <3>2. InFrame' <=> InFrame
      BY <1>1, <1>4 DEF InFrame
    <3>3. \A c \in Int : Whole(session, c)' <=> Whole(session, c)
      BY <1>1 DEF Whole
    <3>4. last.c \in Int /\ dec # "join" /\ dec' # "join"
      BY <1>1, <1>2, <2>3 DEF OfScan
    <3>5. First'
      BY <1>1, <1>4, <3>1, <3>2 DEF First
    <3>6. Second'
      BY <1>1, <1>4, <3>1, <3>2, <3>3, <3>4 DEF Second, Cap
    <3>7. Third'
      BY <1>1, <1>4, <3>1, <3>3, <3>4 DEF Third
    <3>8. QED
      BY <3>5, <3>6, <3>7
  <2>4. QED
    BY <1>1, <1>2, <1>4, <1>10, <2>2, <2>3 DEF InStep
<1>14. QED
  BY <1>7, <1>8, <1>9, <1>11, <1>12, <1>13

(***************************************************************************)
(* A byte that fails keeps the invariant: the capsule before is forgotten, *)
(* and it is no byte of a capsule that the handler is in.                  *)
(***************************************************************************)
LEMMA UnmarkedFacts ==
  ASSUME Typed, session > 0
  PROVE  /\ Unmarked \in State /\ Unmarked.pos = 0 /\ Unmarked.buf = Me.buf
         /\ H.pairs => ~Unmarked.rdy
<1>1. Me \in State /\ H \in Handlers
  BY MeFacts
<1>2. (Me.rdy /\ ~H.pairs) \in BOOLEAN
  BY <1>1, HandlerFacts DEF State
<1>3. PICK b \in BOOLEAN : b = (Me.rdy /\ ~H.pairs)
  BY <1>2
<1>4. Unmarked = [Me EXCEPT !.pos = 0, !.rdy = b]
  BY <1>3 DEF Unmarked
<1>5. 0 \in 0 .. CapLen - 1
  BY Lengths
<1>6. QED
  BY <1>1, <1>3, <1>4, <1>5 DEF State

\* a byte that fails is unpacked
LEMMA MarkFailsKeeps ==
  ASSUME IInv, MarkFails
  PROVE  IInv'
<1> USE DEF IInv
<1> DEFINE b == Head(msg)
<1>1. /\ UNCHANGED <<plan, next, bursts, missing, session, caller, enabled, active,
                     type, dec, at, fooled, published>>
      /\ dec = "byte" /\ msg # <<>> /\ session > 0
      /\ msg' = Tail(msg) /\ last' = b
      /\ handler' = [handler EXCEPT ![H] = Unmarked]
  BY DEF MarkFails, DecQuiet, stream, Threads
<1>2. H' = H /\ Used' = Used /\ Type' = Type
  BY <1>1 DEF H, Type, Used
<1>3. /\ InOrder' /\ Heard' /\ OfScan' = OfScan /\ last' \in OfScan
      /\ last' \in AnyByte /\ msg' \in Seq(Byte)
  BY <1>1, OneTaken
<1>4. /\ handler' \in [Used' -> State] /\ Me' = Unmarked
      /\ Me'.pos = 0 /\ Me'.buf = Me.buf /\ (H.pairs => ~Me'.rdy)
  BY <1>1, <1>2, Update, UnmarkedFacts DEF Me
<1>5. Typed'
  <2>1. \A h \in Used : /\ handler'[h].pos \in 0 .. CapLen - 1
                        /\ handler'[h].buf \in [1 .. CapLen -> Byte \cup {NoByte}]
                        /\ handler'[h].rdy \in BOOLEAN
    BY <1>2, <1>4 DEF State
  <2>2. QED
    BY <1>1, <1>2, <1>3, <1>4, <2>1 DEF Typed, TypeOK
<1>6. Threads'
  BY <1>1, <1>2 DEF Threads
<1>7. Cached' /\ Joining'
  BY <1>1, <1>2, <1>4 DEF Cached, Joining
<1>8. InStep'
  <2>1. SUFFICES ASSUME caller = "scanning", ~fooled, Upto(b.c, b.i)
                 PROVE  First' /\ Second' /\ Third'
    BY <1>1 DEF InStep, Upto
  <2>2. /\ b.c \in Nat /\ b.i \in 1 .. CapLen
    BY <1>1, <2>1, WholeSoFar
  <2>3. FALSE \in Passes(b, Me.pos + 1)
    BY DEF MarkFails
  <2>4. InPlace(b) => Me.pos + 1 = b.i
    BY <2>2 DEF InPlace
  <2>5. ~InPlace(b)
    BY <2>3, <2>4 DEF Passes
  <2>6. b.c > 1 => ~Whole(session, b.c - 1)
    BY <1>1, <2>1, <2>5, Place
  <2>7. \A c \in Int : Whole(session, c)' <=> Whole(session, c)
    BY <1>1 DEF Whole
  <2>8. QED
    BY <1>1, <1>4, <2>2, <2>6, <2>7 DEF First, Second, Third
<1>9. QED
  BY <1>3, <1>5, <1>6, <1>7, <1>8

(***************************************************************************)
(* A byte stored keeps the invariant.                                      *)
(***************************************************************************)
Stored(pos) ==
  [Me EXCEPT !.buf = [@ EXCEPT ![pos + 1] = Head(msg)], !.pos = pos + 1]

\* the handler with one byte more
LEMMA StoredFacts ==
  ASSUME Typed, session > 0, NEW pos \in 0 .. CapLen - 2, Head(msg) \in Byte
  PROVE  /\ Stored(pos) \in State /\ Stored(pos).pos = pos + 1
         /\ Stored(pos).rdy = Me.rdy /\ Stored(pos).prev = Me.prev
         /\ Stored(pos).buf[pos + 1] = Head(msg)
         /\ \A j \in 1 .. pos : Stored(pos).buf[j] = Me.buf[j]
<1>1. Me \in State /\ CapLen \in Nat /\ CapLen > 2
  BY MeFacts, Lengths
<1> DEFINE cached == [Me.buf EXCEPT ![pos + 1] = Head(msg)]
<1>2. Me.buf \in [1 .. CapLen -> Byte \cup {NoByte}] /\ pos + 1 \in 1 .. CapLen
  BY <1>1 DEF State
<1>3. /\ cached \in [1 .. CapLen -> Byte \cup {NoByte}]
      /\ cached[pos + 1] = Head(msg) /\ \A j \in 1 .. pos : cached[j] = Me.buf[j]
  BY <1>1, <1>2
<1>4. Stored(pos) = [Me EXCEPT !.buf = cached, !.pos = pos + 1]
  BY DEF Stored
<1>5. pos + 1 \in 0 .. CapLen - 1
  BY <1>1
<1> HIDE DEF cached
<1>6. /\ Stored(pos) \in State /\ Stored(pos).pos = pos + 1
      /\ Stored(pos).rdy = Me.rdy /\ Stored(pos).prev = Me.prev
      /\ Stored(pos).buf = cached
  BY <1>1, <1>3, <1>4, <1>5 DEF State
<1>7. QED
  BY <1>3, <1>6

\* the byte is stored where the handler is, or where it was before a reset
LEMMA StoreKeeps ==
  ASSUME IInv, Store
  PROVE  IInv'
<1> USE DEF IInv
<1> DEFINE b == Head(msg)
<1>1. /\ UNCHANGED <<plan, next, bursts, missing, session, caller, enabled, active,
                     type, at, fooled, published>>
      /\ dec = "store" /\ dec' = "byte" /\ msg # <<>> /\ session > 0
      /\ msg' = Tail(msg) /\ last' = b
  BY DEF Store, DecGoto, DecQuiet, stream, Threads
<1>2. /\ b \in Byte /\ at \in 0 .. CapLen - 2 /\ Me.pos \in 0 .. CapLen - 2
      /\ CapLen \in Nat /\ CapLen > 2
  <2>1. msg \in Seq(Byte) /\ at \in 0 .. CapLen - 1 /\ Me.pos \in 0 .. CapLen - 1
    BY <1>1, MeFacts DEF Typed, TypeOK
  <2>2. b \in Byte
    BY <1>1, <2>1
  <2>3. QED
    BY <1>1, <2>1, <2>2, Lengths DEF Threads
<1>3. PICK pos \in {Me.pos, at} : handler' = [handler EXCEPT ![H] = Stored(pos)]
  <2>1. PICK pos \in {Me.pos, at} :
          handler' = [handler EXCEPT ![H].buf[pos + 1] = b, ![H].pos = pos + 1]
    BY DEF Store
  <2>2. H \in Used /\ handler \in [Used -> State] /\ handler[H] \in State
    BY <1>1, MeFacts DEF Typed
  <2>3. handler' = [handler EXCEPT ![H] = Stored(pos)]
    BY <2>1, <2>2 DEF Stored, Me, State
  <2>4. QED
    BY <2>3
<1>4. H' = H /\ Used' = Used /\ Type' = Type
  BY <1>1 DEF H, Type, Used
<1>5. pos \in 0 .. CapLen - 2
  BY <1>2
<1>6. /\ handler' \in [Used' -> State] /\ Me' = Stored(pos)
  BY <1>1, <1>2, <1>3, <1>4, <1>5, Update, StoredFacts DEF Me
<1>7. /\ Me'.pos = pos + 1 /\ Me'.rdy = Me.rdy /\ Me'.prev = Me.prev
      /\ Me'.buf[pos + 1] = b /\ \A j \in 1 .. pos : Me'.buf[j] = Me.buf[j]
  BY <1>1, <1>2, <1>5, <1>6, StoredFacts
<1>8. /\ InOrder' /\ Heard' /\ OfScan' = OfScan /\ last' \in OfScan
      /\ Done' = Idx(b) /\ last' \in AnyByte /\ msg' \in Seq(Byte)
  BY <1>1, OneTaken
<1>9. Typed'
  <2>1. \A h \in Used : /\ handler'[h].pos \in 0 .. CapLen - 1
                        /\ handler'[h].buf \in [1 .. CapLen -> Byte \cup {NoByte}]
                        /\ handler'[h].rdy \in BOOLEAN
    BY <1>4, <1>6 DEF State
  <2>2. QED
    BY <1>1, <1>4, <1>6, <1>8, <2>1 DEF Typed, TypeOK
<1>10. Threads'
  BY <1>1, <1>4 DEF Threads
<1>11. Cached'
  <2>1. SUFFICES ASSUME H.pairs, Undisturbed, Me.rdy, NEW x \in OfScan,
                        Idx(x) <= Idx(b), Me.prev[1] < session \/ Me.prev[2] < x.c
                 PROVE  x \in missing \/ \E j \in 1 .. pos + 1 : Me'.buf[j] = x
    BY <1>1, <1>4, <1>7, <1>8 DEF Cached, Undisturbed
  <2>2. x = b \/ x \in missing \/ \E j \in 1 .. Me.pos : Me.buf[j] = x
    BY <1>1, <2>1, AllCached
  <2>3. Me.pos = at /\ pos = at
    BY <1>1, <1>3, <2>1 DEF Cached
  <2>4. QED
    BY <1>2, <1>7, <2>2, <2>3
<1>12. Joining'
  BY <1>1 DEF Joining
<1>13. InStep'
  <2>1. SUFFICES ASSUME caller = "scanning", ~fooled, Upto(b.c, b.i)
                 PROVE  First' /\ Second' /\ Third'
    BY <1>1 DEF InStep, Upto
  <2>2. /\ b.s = session /\ b.c \in Nat /\ b.c > 0 /\ b.i \in 1 .. CapLen
    BY <1>1, <2>1, WholeSoFar
  <2>3. Me.pos = at /\ pos = at /\ (at + 1 \in H.marks => b.i = at + 1)
    BY <1>1, <1>3, <2>1 DEF InStep
  <2>4. 1 \in H.marks
    BY <1>1, MeFacts, HandlerFacts
  <2>5. b = [s |-> session, c |-> b.c, i |-> b.i]
    BY <1>2, <2>2 DEF Byte
  <2>6. InPlace(b) => InFrame'
    BY <1>1, <1>2, <1>7, <2>2, <2>3, <2>5 DEF InPlace, InFrame
  <2>7. /\ b.i > 1 => InPlace(b) \/ Me.pos = 0 \/ Me.pos >= b.i
        /\ b.c > 1 /\ Whole(session, b.c - 1) => InPlace(b)
        /\ b.c > 2 /\ Whole(session, b.c - 1) /\ Whole(session, b.c - 2) => Paired(b)
    BY <1>1, <2>1, Place
  <2>8. First'
    <3>1. CASE b.i = 1
      <4>1. at = 0 => InPlace(b)
        BY <2>3, <3>1 DEF InPlace
      <4>2. at # 0 => Me'.pos > b.i
        BY <1>2, <1>7, <2>3, <3>1
      <4>3. QED
        BY <1>1, <2>6, <4>1, <4>2 DEF First
    <3>2. CASE b.i > 1
      <4>1. Me.pos # 0
        BY <2>3, <2>4, <3>2
      <4>2. Me.pos >= b.i => Me'.pos > b.i
        BY <1>2, <1>7, <2>2, <2>3
      <4>3. QED
        BY <1>1, <2>6, <2>7, <3>2, <4>1, <4>2 DEF First
    <3>3. QED
      BY <2>2, <3>1, <3>2
  <2>9. \A c \in Int : Whole(session, c)' <=> Whole(session, c)
    BY <1>1 DEF Whole
  <2>10. InPlace(b) => b.i < CapLen
    BY <1>2, <2>2, <2>3 DEF InPlace
  <2>11. Second'
    BY <1>1, <2>2, <2>6, <2>7, <2>9, <2>10 DEF Second
  <2>12. Third'
    BY <1>1, <1>4, <1>7, <2>2, <2>7, <2>9, <2>10 DEF Third, Paired
  <2>13. QED
    BY <2>8, <2>11, <2>12
<1>14. QED
  BY <1>8, <1>9, <1>10, <1>11, <1>12, <1>13

(***************************************************************************)
(* The last byte of a frame.                                               *)
(***************************************************************************)
Frame == [Me.buf EXCEPT ![CapLen] = Head(msg)]
Good == H.checked => Genuine(Frame)
Begun(rdy) == [Me EXCEPT !.buf = Frame, !.pos = 0, !.rdy = rdy]

\* the frame, and the handler after it
LEMMA FrameFacts ==
  ASSUME Typed, session > 0, Head(msg) \in Byte
  PROVE  /\ Frame \in [1 .. CapLen -> Byte \cup {NoByte}]
         /\ Frame[CapLen] = Head(msg) /\ \A j \in 1 .. CapLen - 1 : Frame[j] = Me.buf[j]
         /\ Good \in BOOLEAN /\ (H.pairs /\ Good => Genuine(Frame))
         /\ \A rdy \in BOOLEAN :
              /\ Begun(rdy) \in State /\ Begun(rdy).pos = 0 /\ Begun(rdy).buf = Frame
              /\ Begun(rdy).rdy = rdy /\ Begun(rdy).prev = Me.prev
<1>1. Me \in State /\ Me.buf \in [1 .. CapLen -> Byte \cup {NoByte}] /\ H \in Handlers
  BY MeFacts
<1>2. /\ Frame \in [1 .. CapLen -> Byte \cup {NoByte}]
      /\ Frame[CapLen] = Head(msg) /\ \A j \in 1 .. CapLen - 1 : Frame[j] = Me.buf[j]
  BY <1>1, Lengths DEF Frame
<1>3. Good \in BOOLEAN /\ (H.pairs /\ Good => Genuine(Frame))
  BY <1>1, HandlerFacts DEF Good
<1>4. 0 \in 0 .. CapLen - 1
  BY Lengths
<1>5. ASSUME NEW rdy \in BOOLEAN
      PROVE  /\ Begun(rdy) \in State /\ Begun(rdy).pos = 0 /\ Begun(rdy).buf = Frame
             /\ Begun(rdy).rdy = rdy /\ Begun(rdy).prev = Me.prev
  BY <1>1, <1>2, <1>4, <1>5 DEF Begun, State
<1>6. QED
  BY <1>2, <1>3, <1>5

\* what a frame's last byte changes
LEMMA CompleteFacts ==
  ASSUME IInv, Complete
  PROVE  /\ UNCHANGED <<plan, next, bursts, missing, session, caller, enabled, active,
                        type, at, fooled>>
         /\ dec = "complete" /\ msg # <<>> /\ session > 0 /\ Head(msg) \in Byte
         /\ msg' = Tail(msg) /\ last' = Head(msg)
         /\ dec' = IF Good /\ H.pairs THEN "join" ELSE "byte"
         /\ \E rdy \in BOOLEAN : /\ handler' = [handler EXCEPT ![H] = Begun(rdy)]
                                 /\ H.pairs /\ rdy => Good
<1> USE DEF IInv
<1>1. /\ UNCHANGED <<plan, next, bursts, missing, session, caller, enabled, active,
                     type, at, fooled>>
      /\ dec = "complete" /\ msg # <<>> /\ session > 0
      /\ msg' = Tail(msg) /\ last' = Head(msg)
  BY DEF Complete, DecGoto, DecQuiet, stream, Threads
<1>2. Head(msg) \in Byte
  BY <1>1 DEF Typed, TypeOK
<1>3. dec' = IF Good /\ H.pairs THEN "join" ELSE "byte"
  BY DEF Complete, DecGoto, Good, Frame
<1>4. Me \in State /\ Me.rdy \in BOOLEAN
  BY <1>1, MeFacts
<1>5. CASE ~H.pairs
  <2>1. handler' = [handler EXCEPT ![H] = [Me EXCEPT !.buf = Frame, !.pos = 0]]
    BY <1>5 DEF Complete, Frame
  <2>2. [Me EXCEPT !.buf = Frame, !.pos = 0] = Begun(Me.rdy)
    BY <1>4 DEF Begun, State
  <2>3. QED
    BY <1>1, <1>2, <1>3, <1>4, <1>5, <2>1, <2>2
<1>6. CASE H.pairs
  <2> DEFINE cap == IF Genuine(Frame) THEN Cap(Head(msg)) ELSE NoCap
  <2>1. (Me.rdy /\ Good /\ ~(cap[2] = 1)) \in BOOLEAN
    BY <1>1, <1>2, <1>4, FrameFacts
  <2>2. PICK rdy \in BOOLEAN : rdy = (Me.rdy /\ Good /\ ~(cap[2] = 1))
    BY <2>1
  <2>3. handler' = [handler EXCEPT ![H] =
                      [[Me EXCEPT !.buf = Frame, !.pos = 0] EXCEPT
                         !.rdy = @ /\ Good /\ ~(cap[2] = 1)]]
    BY <1>6 DEF Complete, Frame, Good
  <2>4. [Me EXCEPT !.buf = Frame, !.pos = 0].rdy = Me.rdy
    BY <1>4 DEF State
  <2>5. handler' = [handler EXCEPT ![H] =
                      [[Me EXCEPT !.buf = Frame, !.pos = 0] EXCEPT !.rdy = rdy]]
    BY <2>2, <2>3, <2>4
  <2>6. [[Me EXCEPT !.buf = Frame, !.pos = 0] EXCEPT !.rdy = rdy] = Begun(rdy)
    BY <1>4 DEF Begun, State
  <2>7. rdy => Good
    BY <2>2
  <2>8. QED
    BY <1>1, <1>2, <1>3, <2>5, <2>6, <2>7
<1>7. QED
  BY <1>4, <1>5, <1>6

\* what is published
LEMMA PublishedFacts ==
  ASSUME IInv, Complete
  PROVE  /\ \/ published' = published
            \/ \E cap \in Nat \X Nat : published' = [prev |-> cap, cur |-> cap]
            \/ /\ H.pairs /\ Good /\ Me.rdy
               /\ published' = [prev |-> Me.prev, cur |-> Cap(Head(msg))]
         /\ Genuine(Frame) =>
              /\ ~H.pairs => published' = [prev |-> Cap(Head(msg)), cur |-> Cap(Head(msg))]
              /\ H.pairs /\ Me.rdy /\ Head(msg).c # 1
                   /\ Me.prev = <<Head(msg).s, Head(msg).c - 1>> =>
                   published' = [prev |-> Me.prev, cur |-> Cap(Head(msg))]
<1> USE DEF IInv
<1> DEFINE b == Head(msg)
           cap == IF Genuine(Frame) THEN Cap(b) ELSE NoCap
<1>1. session > 0 /\ b \in Byte
  BY CompleteFacts
<1>2. H.pairs /\ Good => Genuine(Frame)
  BY <1>1, FrameFacts
<1>3. CASE ~H.pairs
  <2>1. published' = IF Good THEN [prev |-> cap, cur |-> cap] ELSE published
    BY <1>3 DEF Complete, Frame, Good
  <2>2. cap \in Nat \X Nat
    BY <1>1 DEF Byte, Cap, NoCap
  <2>3. Genuine(Frame) => cap = Cap(b) /\ Good
    BY DEF Good
  <2> HIDE DEF cap
  <2>4. QED
    BY <1>3, <2>1, <2>2, <2>3
<1>4. CASE H.pairs
  <2>1. IF Good /\ ~(cap[2] = 1) /\ Me.rdy
        THEN \E near \in Close(Me.prev, cap) :
               published' = IF H.bounded /\ ~near THEN published
                            ELSE [prev |-> Me.prev, cur |-> cap]
        ELSE UNCHANGED published
    BY <1>4 DEF Complete, Frame, Good
  <2>2. \/ published' = published
        \/ Good /\ Me.rdy /\ published' = [prev |-> Me.prev, cur |-> Cap(b)]
    BY <1>2, <1>4, <2>1
  <2>3. ASSUME Genuine(Frame), Me.rdy, b.c # 1, Me.prev = <<b.s, b.c - 1>>
        PROVE  published' = [prev |-> Me.prev, cur |-> Cap(b)]
    <3>1. cap = <<b.s, b.c>> /\ Good
      BY <2>3 DEF Cap, Good
    <3>2. Close(Me.prev, cap) = {b.c - (b.c - 1) <= MaxGap}
      BY <2>3, <3>1 DEF Close
    <3>3. b.c - (b.c - 1) <= MaxGap
      BY <1>1, UnpackersAssumption DEF Byte
    <3>4. \A near \in Close(Me.prev, cap) : near = TRUE
      BY <3>2, <3>3
    <3>5. QED
      BY <2>1, <2>3, <3>1, <3>4 DEF Cap
  <2>4. QED
    BY <1>4, <2>2, <2>3
<1>5. QED
  BY <1>3, <1>4

\* a frame's last byte keeps the invariant
LEMMA CompleteKeeps ==
  ASSUME IInv, Complete
  PROVE  IInv'
<1> USE DEF IInv
<1> DEFINE b == Head(msg)
<1>1. /\ UNCHANGED <<plan, next, bursts, missing, session, caller, enabled, active,
                     type, at, fooled>>
      /\ dec = "complete" /\ msg # <<>> /\ session > 0 /\ b \in Byte
      /\ msg' = Tail(msg) /\ last' = b
      /\ dec' = IF Good /\ H.pairs THEN "join" ELSE "byte"
  BY CompleteFacts
<1>2. PICK rdy \in BOOLEAN : /\ handler' = [handler EXCEPT ![H] = Begun(rdy)]
                             /\ H.pairs /\ rdy => Good
  BY CompleteFacts
<1>3. H' = H /\ Used' = Used /\ Type' = Type
  BY <1>1 DEF H, Type, Used
<1>4. /\ Frame[CapLen] = b /\ \A j \in 1 .. CapLen - 1 : Frame[j] = Me.buf[j]
      /\ Good \in BOOLEAN /\ (H.pairs /\ Good => Genuine(Frame))
      /\ Begun(rdy) \in State /\ Begun(rdy).pos = 0 /\ Begun(rdy).buf = Frame
      /\ Begun(rdy).rdy = rdy /\ Begun(rdy).prev = Me.prev
  BY <1>1, FrameFacts
<1>5. /\ handler' \in [Used' -> State] /\ Me' = Begun(rdy)
  BY <1>1, <1>2, <1>3, <1>4, Update DEF Me
<1>6. /\ InOrder' /\ Heard' /\ OfScan' = OfScan /\ last' \in OfScan
      /\ last' \in AnyByte /\ msg' \in Seq(Byte)
  BY <1>1, OneTaken
<1>7. dec' \in {"join", "byte"} /\ (dec' = "join" <=> Good /\ H.pairs)
  BY <1>1
<1>8. Typed'
  <2>1. \A h \in Used : /\ handler'[h].pos \in 0 .. CapLen - 1
                        /\ handler'[h].buf \in [1 .. CapLen -> Byte \cup {NoByte}]
                        /\ handler'[h].rdy \in BOOLEAN
    BY <1>3, <1>5 DEF State
  <2>2. QED
    BY <1>1, <1>3, <1>5, <1>6, <1>7, <2>1 DEF Typed, TypeOK
<1>9. Threads'
  BY <1>1, <1>3, <1>7 DEF Threads
<1>10. Cached'
  BY <1>2, <1>3, <1>4, <1>5, <1>7 DEF Cached
<1>11. Joining'
  <2>1. SUFFICES ASSUME H.pairs, Good
                 PROVE  b.i = CapLen /\ Cap(Frame[1]) = Cap(b)
    BY <1>1, <1>3, <1>4, <1>5, <1>6, <1>7 DEF Joining, Cap
  <2>2. Genuine(Frame) /\ CapLen \in 1 .. CapLen
    BY <1>4, <2>1, Lengths
  <2>3. QED
    BY <1>4, <2>2 DEF Genuine
<1>12. InStep'
  <2>1. SUFFICES ASSUME caller = "scanning", ~fooled, Upto(b.c, b.i)
                 PROVE  First' /\ Second' /\ Third'
    BY <1>1, <1>7 DEF InStep, Upto
  <2>2. /\ b.s = session /\ b.c \in Nat /\ b.c > 0 /\ b.i \in 1 .. CapLen
        /\ CapLen \in Nat /\ CapLen > 2
    BY <1>1, <2>1, WholeSoFar, Lengths
  <2>3. Me.pos = CapLen - 1
    BY <1>1, <2>1 DEF InStep
  <2>4. /\ b.c > 1 /\ Whole(session, b.c - 1) => InPlace(b)
        /\ b.c > 2 /\ Whole(session, b.c - 1) /\ Whole(session, b.c - 2) => Paired(b)
    BY <1>1, <2>1, Place
  <2>5. InPlace(b) => b.i = CapLen /\ Genuine(Frame)
    <3>1. SUFFICES ASSUME InPlace(b)
                   PROVE  b.i = CapLen /\ Genuine(Frame)
      OBVIOUS
    <3>2. b.i = CapLen
      BY <2>2, <2>3, <3>1 DEF InPlace
    <3>3. b = [s |-> session, c |-> b.c, i |-> CapLen]
      BY <1>1, <2>2, <3>2 DEF Byte
    <3>4. ASSUME NEW j \in 1 .. CapLen
          PROVE  Cap(Frame[j]) = <<session, b.c>> /\ Frame[j].i = j
      <4>1. Frame[j] = [s |-> session, c |-> b.c, i |-> j]
        BY <1>4, <2>2, <3>1, <3>2, <3>3 DEF InPlace
      <4>2. QED
        BY <4>1 DEF Cap
    <3>5. 1 \in 1 .. CapLen
      BY <2>2
    <3>6. QED
      BY <3>2, <3>4, <3>5 DEF Genuine
  <2>6. \A c \in Int : Whole(session, c)' <=> Whole(session, c)
    BY <1>1 DEF Whole
  <2>7. First'
    BY <1>4, <1>5 DEF First
  <2>8. Second'
    <3>1. b.c > 1 /\ Whole(session, b.c - 1) =>
            b.i = CapLen /\ (H.pairs => dec' = "join")
      BY <1>7, <2>4, <2>5 DEF Good
    <3>2. QED
      BY <1>1, <1>3, <1>4, <1>5, <2>2, <2>6, <3>1 DEF Second
  <2>9. Third'
    <3>1. SUFFICES ASSUME b.c > 2, Whole(session, b.c - 1), Whole(session, b.c - 2)
                   PROVE  /\ b.i = CapLen
                          /\ published' =
                               [prev |-> <<session, b.c - (IF H.pairs THEN 1 ELSE 0)>>,
                                cur |-> <<session, b.c>>]
      BY <1>1, <1>3, <2>2, <2>6 DEF Third
    <3>2. b.i = CapLen /\ Genuine(Frame) /\ Paired(b)
      BY <2>2, <2>4, <2>5, <3>1
    <3>3. CASE H.pairs
      <4>1. Me.rdy /\ Me.prev = <<b.s, b.c - 1>> /\ b.c # 1
        BY <2>2, <3>1, <3>2, <3>3 DEF Paired
      <4>2. published' = [prev |-> Me.prev, cur |-> Cap(b)]
        BY <3>2, <3>3, <4>1, PublishedFacts
      <4>3. QED
        BY <2>2, <3>2, <3>3, <4>1, <4>2 DEF Cap
    <3>4. CASE ~H.pairs
      <4>1. published' = [prev |-> Cap(b), cur |-> Cap(b)]
        BY <3>2, <3>4, PublishedFacts
      <4>2. QED
        BY <2>2, <3>2, <3>4, <4>1 DEF Cap
    <3>5. QED
      BY <3>3, <3>4
  <2>10. QED
    BY <2>7, <2>8, <2>9
<1>13. QED
  BY <1>6, <1>8, <1>9, <1>10, <1>11, <1>12

(***************************************************************************)
(* The capsule that becomes the previous one is the one unpacked last.     *)
(***************************************************************************)
Joined == [Me EXCEPT !.prev = Cap(Me.buf[1]), !.rdy = TRUE]

\* and so does its joining
LEMMA JoinKeeps ==
  ASSUME IInv, Join
  PROVE  IInv'
<1> USE DEF IInv
<1>1. /\ UNCHANGED <<plan, next, bursts, missing, session, caller, enabled, active,
                     type, msg, at, fooled, last, published>>
      /\ dec = "join" /\ dec' = "byte" /\ session > 0
  BY DEF Join, DecGoto, DecQuiet, stream, Threads
<1>2. H' = H /\ Used' = Used /\ Type' = Type
  BY <1>1 DEF H, Type, Used
<1>3. Me \in State /\ H \in Used /\ CapLen \in Nat /\ CapLen > 2
  BY <1>1, MeFacts, Lengths
<1>4. H.pairs /\ last \in OfScan /\ last.i = CapLen /\ Cap(Me.buf[1]) = Cap(last)
  BY <1>1 DEF Joining
<1>5. Cap(last) = <<session, last.c>> /\ last.c \in Nat /\ last.c > 0 /\ session \in Nat
  BY <1>4, UsedAreHandlers DEF OfScan, Cap
<1>6. handler' = [handler EXCEPT ![H] = Joined]
  BY <1>3 DEF Join, Joined, Me, State, Typed
<1>7. /\ Joined \in State /\ Joined.prev = Cap(last) /\ Joined.rdy = TRUE
      /\ Joined.pos = Me.pos /\ Joined.buf = Me.buf
  <2>1. Joined = [Me EXCEPT !.prev = <<session, last.c>>, !.rdy = TRUE]
    BY <1>4, <1>5 DEF Joined
  <2>2. <<session, last.c>> \in Nat \X Nat
    BY <1>5
  <2>3. QED
    BY <1>3, <1>5, <2>1, <2>2 DEF State
<1>8. handler' \in [Used' -> State] /\ Me' = Joined
  BY <1>1, <1>2, <1>6, <1>7, Update DEF Me
<1>9. Typed'
  <2>1. \A h \in Used : /\ handler'[h].pos \in 0 .. CapLen - 1
                        /\ handler'[h].buf \in [1 .. CapLen -> Byte \cup {NoByte}]
                        /\ handler'[h].rdy \in BOOLEAN
    BY <1>2, <1>8 DEF State
  <2>2. QED
    BY <1>1, <1>2, <1>8, <2>1 DEF Typed, TypeOK
<1>10. Threads'
  BY <1>1, <1>2 DEF Threads
<1>11. InOrder' /\ Heard'
  BY <1>1, NothingTaken
<1>12. OfScan' = OfScan /\ Done' = Idx(last)
  BY <1>1, <1>4 DEF OfScan, Done
<1>13. Cached'
  <2>1. ASSUME NEW x \in OfScan, last.c < x.c, Idx(x) <= Idx(last)
        PROVE  FALSE
    <3>1. Idx(last) < Idx(x)
      BY <1>4, <2>1, IdxOrder
    <3>2. Idx(last) \in Nat /\ Idx(x) \in Nat
      BY <1>4, IdxPositive
    <3>3. QED
      BY <2>1, <3>1, <3>2
  <2>2. QED
    BY <1>1, <1>5, <1>7, <1>8, <1>12, <2>1 DEF Cached
<1>14. Joining'
  BY <1>1 DEF Joining
<1>15. InStep'
  <2>1. SUFFICES ASSUME caller = "scanning", ~fooled, Upto(last.c, last.i)
                 PROVE  First' /\ Second' /\ Third'
    BY <1>1 DEF InStep, Upto
  <2>2. First /\ Second /\ Third
    BY <1>1, <1>4, <2>1 DEF InStep
  <2>3. \A c \in Int : Whole(session, c)' <=> Whole(session, c)
    BY <1>1 DEF Whole
  <2>4. InFrame' <=> InFrame
    BY <1>1, <1>7, <1>8 DEF InFrame
  <2>5. First'
    BY <1>1, <1>7, <1>8, <2>2, <2>4 DEF First
  <2>6. Second'
    BY <1>1, <1>2, <1>3, <1>4, <1>5, <1>7, <1>8, <2>2, <2>3 DEF Second, Cap
  <2>7. Third'
    BY <1>1, <1>2, <1>3, <1>4, <1>5, <2>2, <2>3 DEF Third
  <2>8. QED
    BY <2>5, <2>6, <2>7
<1>16. QED
  BY <1>9, <1>10, <1>11, <1>13, <1>14, <1>15

-----------------------------------------------------------------------------
(***************************************************************************)
(* The invariant holds in every state.                                     *)
(***************************************************************************)
LEMMA InitHolds == Init => IInv
<1> SUFFICES ASSUME Init
             PROVE  IInv
  OBVIOUS
<1> USE DEF Init
<1>1. CapLen \in Nat /\ CapLen > 2 /\ 0 \in 0 .. Capsules * CapLen
      /\ 0 \in 0 .. MaxBursts
  BY Lengths, UnpackersAssumption
<1>2. Fresh \in State
  <2>1. NoByte \in Byte \cup {NoByte} /\ 0 \in 0 .. CapLen - 1 /\ NoCap \in Nat \X Nat
    BY <1>1 DEF NoCap
  <2>2. QED
    BY <2>1 DEF Fresh, State
<1>3. handler \in [Used -> State]
  BY <1>2
<1>4. \A h \in Used : /\ handler[h].pos \in 0 .. CapLen - 1
                      /\ handler[h].buf \in [1 .. CapLen -> Byte \cup {NoByte}]
                      /\ handler[h].rdy \in BOOLEAN
  BY <1>2, <1>3 DEF State
<1>5. plan \in Seq(Handlers) /\ Len(plan) \in Nat
  BY UnpackersAssumption
<1>6. last \in AnyByte /\ last \notin OfScan
  BY <1>1 DEF AnyByte, OfScan, NoByte
<1>7. msg \in Seq(Byte) /\ Len(msg) = 0
  OBVIOUS
<1>8. Typed
  <2>1. /\ plan \in Plans /\ session \in 0 .. Len(plan) /\ at \in 0 .. CapLen - 1
        /\ next \in 0 .. Capsules * CapLen /\ bursts \in 0 .. MaxBursts
    BY <1>1, <1>5
  <2>2. /\ caller = "stopped" /\ dec = "idle" /\ missing = {} /\ fooled = FALSE
        /\ enabled = FALSE /\ active = None /\ type = None
    OBVIOUS
  <2> HIDE DEF Init
  <2>3. TypeOK
    BY <1>4, <1>7, <2>1, <2>2 DEF TypeOK
  <2>4. QED
    BY <1>3, <1>6, <2>3 DEF Typed
<1>9. Threads /\ Heard /\ Cached /\ Joining /\ InStep
  BY DEF Threads, Heard, Cached, Joining, InStep
<1>10. InOrder
  BY <1>6, <1>7 DEF InOrder, Done, NoByte
<1>11. QED
  BY <1>8, <1>9, <1>10 DEF IInv

(***************************************************************************)
(* The invariant is one of every behaviour.                                *)
(***************************************************************************)
THEOREM Invariance == Spec => []IInv
<1>1. IInv /\ [Next]_vars => IInv'
  <2> SUFFICES ASSUME IInv, [Next]_vars
               PROVE  IInv'
    OBVIOUS
  <2>1. CASE UNCHANGED vars
    <3>1. UNCHANGED <<plan, next, bursts, missing, session, caller, enabled, active,
                      type, dec, msg, at, handler, fooled, last, published>>
      BY <2>1 DEF vars, stream, unpacker
    <3>2. Used' = Used /\ Type' = Type /\ H' = H /\ Me' = Me
      BY <3>1 DEF Used, Type, H, Me
    <3>3. Typed' /\ Threads'
      BY <3>1, <3>2 DEF IInv, Typed, TypeOK, Threads
    <3>4. InOrder' /\ Heard'
      BY <3>1, NothingTaken DEF IInv
    <3>5. Cached' /\ Joining' /\ InStep'
      BY <3>1, <3>2, CachedKept, JoiningKept, InStepKept DEF IInv, Undisturbed, Me
    <3>6. QED
      BY <3>3, <3>4, <3>5 DEF IInv
  <2>2. QED
    BY <2>1, StartKeeps, DisableKeeps, ClearKeeps, DropKeeps, PayloadKeeps, TestKeeps,
       SelectKeeps, CallKeeps, OnByteCases, MarkPassesKeeps, MarkFailsKeeps, StoreKeeps,
       CompleteKeeps, JoinKeeps DEF Next, Stopping, Unpack
<1>2. QED
  BY <1>1, InitHolds, PTL DEF Spec

(***************************************************************************)
(* The types: what the threads share stays in its range, whatever the line *)
(* loses and wherever a stop comes.                                        *)
(***************************************************************************)
THEOREM UnpackersTyped == Spec => []TypeOK
<1>1. IInv => TypeOK
  BY DEF IInv, Typed
<1>2. QED
  BY <1>1, Invariance, PTL

\* what a frame's last byte publishes
LEMMA JoinedAreAdjacent ==
  ASSUME IInv, Complete, Undisturbed
  PROVE  published' = published \/ Adjacent(published')
<1> USE DEF IInv
<1> DEFINE b == Head(msg)
<1>1. /\ dec = "complete" /\ msg # <<>> /\ session > 0 /\ b \in Byte
      /\ missing' = missing
  BY CompleteFacts
<1>2. b \in OfScan
  BY <1>1, NextByte
<1>3. b.s = session /\ b.c \in Nat
  BY <1>2 DEF OfScan
<1>4. ASSUME NEW cap \in Nat \X Nat, published' = [prev |-> cap, cur |-> cap]
      PROVE  Adjacent(published')
  BY <1>4 DEF Adjacent
<1>5. CASE /\ H.pairs /\ Good /\ Me.rdy
           /\ published' = [prev |-> Me.prev, cur |-> Cap(b)]
  <2>1. SUFFICES ASSUME NEW c \in 1 .. b.c - 1, NEW i \in 1 .. CapLen,
                        Me.prev[1] < session \/ Me.prev[2] < c
                 PROVE  [s |-> session, c |-> c, i |-> i] \in missing
    BY <1>1, <1>3, <1>5 DEF Adjacent, Unheard, Cap
  <2> DEFINE x == [s |-> session, c |-> c, i |-> i]
  <2>2. x \in OfScan /\ x.c < b.c /\ x # b
    BY <1>3 DEF OfScan
  <2>3. Idx(x) <= Idx(b)
    BY <1>2, <2>2, IdxOrder, IdxPositive
  <2>4. Me.prev[1] < session \/ Me.prev[2] < x.c
    BY <2>1
  <2> HIDE DEF x
  <2>5. x \in missing \/ \E j \in 1 .. Me.pos : Me.buf[j] = x
    BY <1>1, <1>5, <2>2, <2>3, <2>4, AllCached
  <2>6. ASSUME NEW j \in 1 .. Me.pos
        PROVE  Me.buf[j] # x
    <3>1. j \in 1 .. CapLen - 1 /\ j \in 1 .. CapLen /\ CapLen \in 1 .. CapLen
      BY <1>1, MeFacts, Lengths
    <3>2. /\ Frame[j] = Me.buf[j] /\ Frame[CapLen] = b /\ Genuine(Frame)
      BY <1>1, <1>5, <3>1, FrameFacts
    <3>3. Cap(Me.buf[j]) = Cap(b)
      BY <3>1, <3>2 DEF Genuine
    <3>4. QED
      BY <1>3, <2>2, <3>3 DEF Cap
  <2>7. QED
    BY <2>5, <2>6 DEF x
<1>6. QED
  BY <1>4, <1>5, PublishedFacts

(***************************************************************************)
(* A capsule is joined only to the one before it, or to one after which    *)
(* nothing was heard, for any handlers, length and number of capsules,     *)
(* bursts and scans: the decoder's thread against the resets of a stop.    *)
(***************************************************************************)
THEOREM PairsKept == Spec => PairsAdjacent
<1>1. IInv /\ [Next]_vars =>
        [dec = "complete" /\ Undisturbed => Adjacent(published')]_published
  <2> SUFFICES ASSUME IInv, [Next]_vars, published' # published, Undisturbed
               PROVE  Adjacent(published')
    OBVIOUS
  <2>1. Complete
    BY DEF vars, Next, StartScan, Disable, Stopping, ClearCache, DropHandler, DropType,
           CallerQuiet, PayloadArrives, Arrives, Unpack, TestEnabled, Select,
           TestHandler, Call, OnByte, Store, PayloadEnds, Join
  <2>2. QED
    BY <2>1, JoinedAreAdjacent
<1>2. QED
  BY <1>1, Invariance, PTL DEF Spec, PairsAdjacent

(***************************************************************************)
(* A handler finds the capsules again: the third that arrives whole is     *)
(* published, for any handlers, lengths, bursts and scans.                 *)
(***************************************************************************)
THEOREM PlaceFound == Spec => []Resyncs
<1>1. IInv => Resyncs
  <2> SUFFICES ASSUME IInv, dec = "byte", caller = "scanning", ~fooled,
                      last.s = session, last.i = CapLen, last.c > 2,
                      \A c \in last.c - 2 .. last.c : Whole(session, c)
               PROVE  published =
                        [prev |-> <<session, last.c - (IF H.pairs THEN 1 ELSE 0)>>,
                         cur |-> <<session, last.c>>]
    BY DEF Resyncs
  <2>1. session > 0 /\ last \in OfScan
    BY DEF IInv, Threads, InOrder
  <2>2. last.c \in Nat
    BY <2>1 DEF OfScan
  <2>3. /\ Whole(session, last.c) /\ Whole(session, last.c - 1)
        /\ Whole(session, last.c - 2)
    BY <2>2
  <2>4. Upto(last.c, last.i)
    BY <2>3 DEF Upto, Whole
  <2>5. Third
    BY <2>1, <2>4 DEF IInv, InStep
  <2>6. QED
    BY <2>3, <2>5 DEF Third
<1>2. QED
  BY <1>1, Invariance, PTL
=============================================================================
