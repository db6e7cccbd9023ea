-------------------------- MODULE LidarDriverProofs --------------------------
(***************************************************************************)
(* What is proved of the lidar's driver: a start never resets the holder   *)
(* under samples still being unpacked; the driver as a whole implements    *)
(* its scan holder and its requests; what each of these promises, from an  *)
(* inductive invariant of its own (in the names Holder! and Requests!, for *)
(* their constants and variables are the driver's); and, from the two,     *)
(* that the driver keeps those promises.                                   *)
(***************************************************************************)
EXTENDS LidarDriver, TLAPS

(***************************************************************************)
(* The inductive invariant.  From its stop to its reset a start has        *)
(* grabbing disabled, so that no unpacking begins; and what announces the  *)
(* answer to its request was stored by the decoder's thread after the      *)
(* request was armed, when that thread had left the unpacker.              *)
(***************************************************************************)
Disabled ==
  start \in {"stop", "ask", "answered", "motor", "reset"} => ~enabled

Answered ==
  start = "ask" =>
    /\ api \in {"send", "wait", "asleep"} /\ answerReady => unpack = "no"
    /\ api = "woken" => unpack = "no"

Flushed == start \in {"answered", "motor", "reset"} => unpack = "no"

IInv == Disabled /\ Answered /\ Flushed /\ NoScanAcrossStarts

(***************************************************************************)
(* Every step of the driver keeps the invariant, if the event wakes nobody *)
(* for nothing.                                                            *)
(***************************************************************************)
LEMMA StepsKeep ==
  ASSUME Spurious = FALSE, IInv, [Next]_vars
  PROVE  IInv'
<1> USE DEF IInv, Disabled, Answered, Flushed, NoScanAcrossStarts, NoCall,
            Requests!CallerGoto, Requests!DecoderGoto
<1>1. CASE Ask
  BY <1>1 DEF Ask, Requests!Request
<1>2. ASSUME NEW force \in BOOLEAN, Command(force)
      PROVE  IInv'
  BY <1>2 DEF Command, Requests!Command
<1>3. CASE Disable
  BY <1>3 DEF Disable, Requests!DisableGrabbing
<1>4. CASE RequestGoesOn
  <2>1. CASE Requests!Arm
    BY <1>4, <2>1 DEF RequestGoesOn, Requests!Arm
  <2>2. CASE Requests!Send
    BY <1>4, <2>2 DEF RequestGoesOn, Requests!Send
  <2>3. CASE Requests!Wait
    BY <1>4, <2>3 DEF RequestGoesOn, Requests!Wait
  <2>4. CASE Requests!Wake
    BY <1>4, <2>4 DEF RequestGoesOn, Requests!Wake
  <2>5. CASE Requests!CommandClear
    BY <1>4, <2>5 DEF RequestGoesOn, Requests!CommandClear
  <2>6. QED
    BY <1>4, <2>1, <2>2, <2>3, <2>4, <2>5 DEF RequestGoesOn
<1>5. CASE RequestFails
  BY <1>5 DEF RequestFails, Requests!SendFails, Requests!Timeout,
              Requests!decoder
<1>6. CASE RequestSucceeds
  BY <1>6 DEF RequestSucceeds, Requests!Take
<1>7. CASE Start
  <2>1. CASE StartStop
    BY <2>1 DEF StartStop, Requests!Command
  <2>2. CASE StartAsk
    BY <2>2 DEF StartAsk, Requests!Request
  <2>3. CASE StartMotor
    BY <2>3 DEF StartMotor, Requests!Request, Requests!Command
  <2>4. CASE StartReset
    BY <2>4 DEF StartReset
  <2>5. CASE StartEnable
    BY <2>5 DEF StartEnable
  <2>6. CASE StartSend
    BY <2>6 DEF StartSend, Requests!Command
  <2>7. QED
    BY <1>7, <2>1, <2>2, <2>3, <2>4, <2>5, <2>6 DEF Start
<1>8. CASE Grab
  BY <1>8 DEF Grab, requestVars
<1>9. CASE BeginUnpack
  BY <1>9 DEF BeginUnpack, requestVars
<1>10. CASE Unpack
  BY <1>10 DEF Unpack, requestVars
<1>11. CASE EndUnpack
  BY <1>11 DEF EndUnpack, requestVars
<1>12. CASE DecodeAnswer
  BY <1>12 DEF DecodeAnswer, Requests!Decode, Requests!Check, Requests!Store,
               Requests!Relock
<1>13. CASE UNCHANGED vars
  BY <1>13 DEF vars, requestVars
<1>14. QED
  BY <1>1, <1>2, <1>3, <1>4, <1>5, <1>6, <1>7, <1>8, <1>9, <1>10, <1>11, <1>12,
     <1>13 DEF Next, Calling

(***************************************************************************)
(* A start of a scan resets the holder only when the decoder's thread has  *)
(* left the samples of the scan before, for any number of requests, samples *)
(* and restarts.                                                           *)
(***************************************************************************)
THEOREM StartsSeparate ==
  ASSUME Spurious = FALSE
  PROVE  Spec => []NoScanAcrossStarts
<1>1. Init => IInv
  BY DEF Init, IInv, Disabled, Answered, Flushed, NoScanAcrossStarts
<1>2. IInv /\ [Next]_vars => IInv'
  BY StepsKeep
<1>3. IInv => NoScanAcrossStarts
  BY DEF IInv
<1>4. QED
  BY <1>1, <1>2, <1>3, PTL DEF Spec

(***************************************************************************)
(* The driver implements its parts: every step of it is a step of the scan *)
(* holder or leaves it alone, and the same of the requests.  So what is    *)
(* proved of a part alone holds of the parts at work together.             *)
(***************************************************************************)
LEMMA StepsOfHolder ==
  ASSUME [Next]_vars
  PROVE  [Holder!Next]_(Holder!vars)
<1> USE DEF holderVars, Holder!vars, Holder!holder
<1>1. CASE Grab \/ Unpack
  BY <1>1 DEF Grab, Unpack, Holder!Next
<1>2. CASE StartReset
  BY <1>2 DEF StartReset, Holder!Next
<1>3. CASE StartStop \/ StartAsk \/ StartMotor \/ StartEnable \/ StartSend
  BY <1>3 DEF StartStop, StartAsk, StartMotor, StartEnable, StartSend
<1>4. CASE Ask \/ Calling \/ BeginUnpack \/ EndUnpack \/ DecodeAnswer
  BY <1>4 DEF Ask, Calling, Disable, RequestGoesOn, RequestFails, RequestSucceeds,
              BeginUnpack, EndUnpack, DecodeAnswer
<1>5. ASSUME NEW force \in BOOLEAN, Command(force)
      PROVE  [Holder!Next]_(Holder!vars)
  BY <1>5 DEF Command
<1>6. CASE UNCHANGED vars
  BY <1>6 DEF vars
<1>7. QED
  BY <1>1, <1>2, <1>3, <1>4, <1>5, <1>6 DEF Next, Start

LEMMA StepsOfRequests ==
  ASSUME [Next]_vars
  PROVE  [Requests!Next]_(Requests!vars)
<1> USE DEF requestVars, Requests!vars, Requests!decoder
<1>1. CASE Ask \/ Calling
  BY <1>1 DEF Ask, Calling, Disable, RequestGoesOn, RequestFails, RequestSucceeds,
              Requests!Next, Requests!CallerNext
<1>2. CASE DecodeAnswer
  BY <1>2 DEF DecodeAnswer, Requests!Next, Requests!DecoderNext
<1>3. CASE StartStop \/ StartAsk \/ StartMotor \/ StartSend
  BY <1>3 DEF StartStop, StartAsk, StartMotor, StartSend, Requests!Next
<1>4. CASE StartReset \/ StartEnable \/ Grab \/ BeginUnpack \/ Unpack \/ EndUnpack
  BY <1>4 DEF StartReset, StartEnable, Grab, BeginUnpack, Unpack, EndUnpack
<1>5. ASSUME NEW force \in BOOLEAN, Command(force)
      PROVE  [Requests!Next]_(Requests!vars)
  BY <1>5 DEF Command, Requests!Next
<1>6. CASE UNCHANGED vars
  BY <1>6 DEF vars
<1>7. QED
  BY <1>1, <1>2, <1>3, <1>4, <1>5, <1>6 DEF Next, Start

(***************************************************************************)
(* Every behaviour of the driver is one of its scan holder.                *)
(***************************************************************************)
THEOREM HolderImplemented == Spec => Holder!Spec
<1>1. Init => Holder!Init
  BY DEF Init
<1>2. [Next]_vars => [Holder!Next]_(Holder!vars)
  BY StepsOfHolder
<1>3. QED
  BY <1>1, <1>2, PTL DEF Spec, Holder!Spec

(***************************************************************************)
(* Every behaviour of the driver is one of its requests.                   *)
(***************************************************************************)
THEOREM RequestsImplemented == Spec => Requests!Spec
<1>1. Init => Requests!Init
  BY DEF Init
<1>2. [Next]_vars => [Requests!Next]_(Requests!vars)
  BY StepsOfRequests
<1>3. QED
  BY <1>1, <1>2, PTL DEF Spec, Requests!Spec

-----------------------------------------------------------------------------
(***************************************************************************)
(* The invariant: the buffer being filled holds the samples from the last  *)
(* sync to the newest one, the other one a complete scan, each with the    *)
(* time of its first sample, and a pending wakeup has a scan to find.      *)
(***************************************************************************)
Filling ==
  LET s == buf[Holder!OperationBuffer]
  IN s # <<>> =>
       /\ Holder!Contiguous(s)
       /\ s[Len(s)].time = time
       /\ Len(s) < Cap => time = s[1].time + Len(s) - 1
       /\ began[Holder!OperationBuffer] = s[1].time

Complete ==
  avail >= 0 => Holder!OneScan(buf[avail]) /\ began[avail] = buf[avail][1].time

Pending == scanReady \/ grab = "woken" => avail >= 0

Delivered ==
  result # NoScan => Holder!OneScan(result.nodes) /\ result.time = result.nodes[1].time

HolderInv == Holder!TypeOK /\ Filling /\ Complete /\ Pending /\ Delivered

-----------------------------------------------------------------------------
(***************************************************************************)
(* Facts about the sequences that a push makes.                            *)
(***************************************************************************)
LEMMA SingletonScan ==
  ASSUME NEW n \in Holder!Sample, n.sync
  PROVE  /\ <<n>> \in Seq(Holder!Sample) /\ <<n>> # <<>> /\ Len(<<n>>) = 1 /\ <<n>>[1] = n
         /\ Holder!Contiguous(<<n>>)
<1>1. <<n>> \in Seq(Holder!Sample) /\ <<n>> # <<>> /\ Len(<<n>>) = 1 /\ <<n>>[1] = n
  OBVIOUS
<1>2. n.time \in Int
  BY DEF Holder!Sample
<1>3. QED
  BY <1>1, <1>2 DEF Holder!Contiguous

\* what PushMore makes of a scan s
Extended(s, n) ==
  IF Len(s) >= Cap THEN [s EXCEPT ![Len(s)] = n] ELSE Append(s, n)

LEMMA ExtendedScan ==
  ASSUME NEW s \in Seq(Holder!Sample), s # <<>>, Len(s) <= Cap, Holder!Contiguous(s),
         s[Len(s)].time = time, time \in Nat,
         Len(s) < Cap => time = s[1].time + Len(s) - 1,
         NEW n \in Holder!Sample, ~n.sync, n.time = time + 1
  PROVE  LET r == Extended(s, n)
         IN /\ r \in Seq(Holder!Sample) /\ r # <<>> /\ Len(r) <= Cap
            /\ Holder!Contiguous(r)
            /\ r[1] = s[1]
            /\ r[Len(r)].time = time + 1
            /\ Len(r) < Cap => time + 1 = r[1].time + Len(r) - 1
<1> DEFINE r == Extended(s, n)
<1>0. Len(s) \in Nat /\ Len(s) >= 1 /\ Cap \in Nat /\ Cap >= 2
  BY HolderAssumption
<1>1. \A i \in 1 .. Len(s) : s[i] \in Holder!Sample /\ s[i].time \in Int
  <2>1. ASSUME NEW x \in Holder!Sample
        PROVE  x.time \in Int
    BY HolderAssumption DEF Holder!Sample
  <2>2. QED
    BY <2>1
<1>2. CASE Len(s) >= Cap
  <2>1. r = [s EXCEPT ![Len(s)] = n]
    BY <1>2 DEF Extended
  <2>2. r \in Seq(Holder!Sample) /\ Len(r) = Len(s)
    BY <2>1, <1>0
  <2>3. r[Len(s)] = n /\ \A i \in 1 .. Len(s) : i # Len(s) => r[i] = s[i]
    BY <2>1, <1>0
  <2>4. Len(s) = Cap /\ r[1] = s[1]
    BY <1>0, <1>2, <2>3
  <2>5. Holder!Contiguous(r)
    BY <1>0, <1>1, <2>2, <2>3, <2>4 DEF Holder!Contiguous
  <2>6. QED
    BY <1>0, <2>2, <2>3, <2>4, <2>5
<1>3. CASE Len(s) < Cap
  <2>1. r = Append(s, n)
    BY <1>0, <1>3 DEF Extended
  <2>2. r \in Seq(Holder!Sample) /\ Len(r) = Len(s) + 1
    BY <2>1
  <2>3. r[Len(s) + 1] = n /\ \A i \in 1 .. Len(s) : r[i] = s[i]
    BY <2>1, <1>0
  <2>4. r[1] = s[1]
    BY <1>0, <2>3
  <2>5. Holder!Contiguous(r)
    <3>1. r[1].sync /\ \A i \in 2 .. Len(r) : ~r[i].sync
      BY <1>0, <2>2, <2>3, <2>4 DEF Holder!Contiguous
    <3>2. ASSUME NEW i \in 1 .. Len(r), i < Cap
          PROVE  r[i].time = r[1].time + i - 1
      <4>1. CASE i \in 1 .. Len(s)
        BY <1>0, <3>2, <4>1, <2>3, <2>4 DEF Holder!Contiguous
      <4>2. CASE i = Len(s) + 1
        <5>1. s[1].time \in Int /\ time = s[1].time + Len(s) - 1
          BY <1>0, <1>1, <1>3
        <5>2. r[i].time = time + 1 /\ r[1].time = s[1].time
          BY <4>2, <2>3, <2>4
        <5> HIDE DEF r
        <5>3. QED
          BY <1>0, <5>1, <5>2, <4>2
      <4>3. QED
        BY <1>0, <4>1, <4>2, <2>2
    <3>3. QED
      BY <3>1, <3>2 DEF Holder!Contiguous
  <2>6. QED
    BY <1>0, <1>1, <1>3, <2>2, <2>3, <2>4, <2>5
<1>4. QED
  BY <1>0, <1>2, <1>3

(***************************************************************************)
(* The invariant is inductive.                                             *)
(***************************************************************************)
THEOREM HolderInvariance ==
  ASSUME Spurious = FALSE
  PROVE  Holder!Spec => []HolderInv
<1>1. Holder!Init => HolderInv
  <2> SUFFICES ASSUME Holder!Init PROVE HolderInv
    OBVIOUS
  <2>1. Holder!TypeOK
    <3>1. /\ buf \in [Holder!Ids -> Seq(Holder!Sample)]
          /\ \A i \in Holder!Ids : Len(buf[i]) <= Cap
          /\ began \in [Holder!Ids -> 0 .. MaxSamples]
      BY HolderAssumption DEF Holder!Init
    <3>2. time \in 0 .. MaxSamples /\ syncs \subseteq 1 .. MaxSamples
      BY HolderAssumption DEF Holder!Init
    <3>3. avail \in {-1, 0, 1} /\ fresh \in BOOLEAN /\ scanReady \in BOOLEAN
      BY DEF Holder!Init
    <3>4. grab \in {"idle", "asleep", "woken"} /\ result = NoScan
      BY DEF Holder!Init
    <3>5. QED
      BY <3>1, <3>2, <3>3, <3>4 DEF Holder!TypeOK
  <2>2. QED
    BY <2>1 DEF Holder!Init, HolderInv, Filling, Complete, Pending, Delivered,
         Holder!OperationBuffer, Holder!Ids
<1>2. HolderInv /\ [Holder!Next]_(Holder!vars) => HolderInv'
  <2> SUFFICES ASSUME HolderInv, [Holder!Next]_(Holder!vars) PROVE HolderInv'
    OBVIOUS
  <2> USE HolderAssumption
  <2> DEFINE op == Holder!OperationBuffer
  <2>0. /\ Holder!TypeOK /\ Filling /\ Complete /\ Pending /\ Delivered
        /\ op \in Holder!Ids /\ 1 - op \in Holder!Ids /\ 1 - op # op
        /\ avail >= 0 => avail = 1 - op
        /\ time \in Nat /\ MaxSamples \in Nat
    BY DEF HolderInv, Holder!TypeOK, Holder!OperationBuffer, Holder!Ids
  <2>a. ASSUME NEW s \in Seq(Holder!Sample), Holder!OneScan(s), syncs \subseteq syncs'
        PROVE  Holder!OneScan(s)'
    BY <2>a DEF Holder!OneScan, Holder!Contiguous
  <2>1. CASE Holder!PushFirst
    <3> DEFINE n == Holder!NextSample(TRUE)
    <3>1. n \in Holder!Sample /\ n.sync /\ n.time = time + 1
      BY <2>0, <2>1 DEF Holder!PushFirst, Holder!Decoded, Holder!NextSample, Holder!Sample
    <3>2. /\ buf' = [buf EXCEPT ![op] = <<n>>] /\ avail' = avail
          /\ began' = [began EXCEPT ![op] = time + 1] /\ time' = time + 1
          /\ syncs' = syncs \cup {time + 1}
          /\ UNCHANGED <<fresh, scanReady, grab, result>>
          /\ time + 1 \in 1 .. MaxSamples
      BY <2>0, <2>1 DEF Holder!PushFirst, Holder!Decoded
    <3>b. Len(<<n>>) <= Cap
      OBVIOUS
    <3>a. /\ <<n>> \in Seq(Holder!Sample) /\ Len(<<n>>) <= Cap /\ Holder!Contiguous(<<n>>)
          /\ Len(<<n>>) = 1 /\ <<n>>[1] = n
      BY <3>b, <3>1, SingletonScan, Zenon
    <3> DEFINE one == <<n>>
    <3> HIDE DEF n, one, op
    <3>3. Holder!TypeOK'
      <4>1. /\ buf' \in [Holder!Ids -> Seq(Holder!Sample)]
            /\ \A i \in Holder!Ids : Len(buf'[i]) <= Cap
        BY <2>0, <3>2, <3>a DEF Holder!TypeOK, one
      <4>2. began' \in [Holder!Ids -> 0 .. MaxSamples] /\ time' \in 0 .. MaxSamples
        BY <2>0, <3>2 DEF Holder!TypeOK
      <4>3. syncs' \subseteq 1 .. MaxSamples
        BY <2>0, <3>2 DEF Holder!TypeOK
      <4>4. QED
        BY <2>0, <3>2, <4>1, <4>2, <4>3 DEF Holder!TypeOK
    <3>4. Filling'
      <4>1. op' = op
        BY <3>2 DEF op, Holder!OperationBuffer
      <4>2. buf'[op] = one /\ began'[op] = time + 1
        BY <2>0, <3>2 DEF one, Holder!TypeOK
      <4>3. Holder!Contiguous(one) /\ Len(one) = 1 /\ one[1] = n
        BY <3>a DEF one
      <4>4. n.time = time + 1 /\ time' = time + 1
        BY <3>1, <3>2
      <4>5. QED
        BY <2>0, <4>1, <4>2, <4>3, <4>4 DEF Filling, Holder!Contiguous, op
    <3>5. Complete'
      BY <2>0, <2>a, <3>2 DEF Complete, Holder!TypeOK
    <3>6. Pending' /\ Delivered'
      BY <2>0, <2>a, <3>2 DEF Pending, Delivered, Holder!TypeOK
    <3>7. QED
      BY <3>3, <3>4, <3>5, <3>6 DEF HolderInv
  <2>2. CASE Holder!PushSwap
    <3> DEFINE n == Holder!NextSample(TRUE)
    <3>1. n \in Holder!Sample /\ n.sync /\ n.time = time + 1
      BY <2>0, <2>2 DEF Holder!PushSwap, Holder!Decoded, Holder!NextSample, Holder!Sample
    <3>2. /\ buf' = [buf EXCEPT ![1 - op] = <<n>>] /\ avail' = op
          /\ began' = [began EXCEPT ![1 - op] = time + 1] /\ time' = time + 1
          /\ syncs' = syncs \cup {time + 1} /\ fresh' = TRUE /\ scanReady' = TRUE
          /\ UNCHANGED <<grab, result>>
          /\ time + 1 \in 1 .. MaxSamples
          /\ buf[op] # <<>>
      BY <2>0, <2>2 DEF Holder!PushSwap, Holder!Decoded
    <3>3. Holder!TypeOK'
      <4>1. \A i \in Holder!Ids : buf'[i] = IF i = 1 - op THEN <<n>> ELSE buf[i]
        BY <2>0, <3>2 DEF Holder!TypeOK
      <4>2. /\ buf' \in [Holder!Ids -> Seq(Holder!Sample)]
            /\ \A i \in Holder!Ids : Len(buf'[i]) <= Cap
        <5>1. <<n>> \in Seq(Holder!Sample)
          BY <3>1, SingletonScan
        <5>3. Len(<<n>>) = 1 /\ 1 <= Cap
          OBVIOUS
        <5> HIDE DEF n, op
        <5>2. QED
          BY <2>0, <3>2, <4>1, <5>1, <5>3 DEF Holder!TypeOK
      <4>3. began' \in [Holder!Ids -> 0 .. MaxSamples] /\ time' \in 0 .. MaxSamples
        BY <2>0, <3>2 DEF Holder!TypeOK
      <4>4. syncs' \subseteq 1 .. MaxSamples /\ avail' \in {-1, 0, 1}
        BY <2>0, <3>2 DEF Holder!TypeOK, Holder!Ids
      <4>5. QED
        BY <2>0, <3>2, <4>2, <4>3, <4>4 DEF Holder!TypeOK
    <3>4. op' = 1 - op
      BY <2>0, <3>2 DEF Holder!OperationBuffer, Holder!Ids
    <3>5. Filling'
      <4>1. Holder!Contiguous(<<n>>) /\ Len(<<n>>) = 1 /\ <<n>>[1] = n
        BY <3>1, SingletonScan
      <4> DEFINE one == <<n>>
      <4>2. buf'[1 - op] = one /\ began'[1 - op] = time + 1
        BY <2>0, <3>2 DEF Holder!TypeOK
      <4>3. n.time = time + 1 /\ time' = time + 1
        BY <3>1, <3>2
      <4>4. Holder!OperationBuffer' = 1 - op
        BY <3>4
      <4>5. /\ buf'[Holder!OperationBuffer'] = one
            /\ began'[Holder!OperationBuffer'] = time + 1
        BY <4>2, <4>4
      <4>6. Holder!Contiguous(one) /\ Len(one) = 1 /\ one[1] = n
        BY <4>1
      <4> HIDE DEF n, one
      <4>7. QED
        BY <2>0, <4>3, <4>5, <4>6 DEF Filling, Holder!Contiguous
    <3>6. Complete'
      <4>1. buf'[op] = buf[op] /\ began'[op] = began[op] /\ buf[op] \in Seq(Holder!Sample)
        BY <2>0, <3>2 DEF Holder!TypeOK
      <4>2. Holder!Contiguous(buf[op]) /\ buf[op][Len(buf[op])].time + 1 \in syncs'
        BY <2>0, <3>2 DEF Filling
      <4>3. Holder!Contiguous(buf'[op]) /\ buf'[op][Len(buf'[op])].time + 1 \in syncs'
        BY <4>1, <4>2
      <4>4. began'[op] = buf'[op][1].time
        BY <2>0, <3>2, <4>1 DEF Filling
      <4>5. QED
        BY <3>2, <4>1, <4>3, <4>4 DEF Complete, Holder!OneScan, Holder!Contiguous
    <3>7. Pending' /\ Delivered'
      BY <2>0, <2>a, <3>2 DEF Pending, Delivered, Holder!TypeOK, Holder!Ids
    <3>8. QED
      BY <3>3, <3>5, <3>6, <3>7 DEF HolderInv
  <2>3. CASE Holder!PushMore
    <3> DEFINE n == Holder!NextSample(FALSE)
               s == buf[op]
    <3>1. n \in Holder!Sample /\ ~n.sync /\ n.time = time + 1
      BY <2>0, <2>3 DEF Holder!PushMore, Holder!Decoded, Holder!NextSample, Holder!Sample
    <3>2. /\ buf' = [buf EXCEPT ![op] = Extended(s, n)] /\ avail' = avail
          /\ began' = began /\ time' = time + 1 /\ syncs' = syncs
          /\ UNCHANGED <<fresh, scanReady, grab, result>>
          /\ time + 1 \in 1 .. MaxSamples
          /\ s # <<>>
      BY <2>0, <2>3 DEF Holder!PushMore, Holder!Decoded, Extended, Holder!TypeOK
    <3>3. /\ Extended(s, n) \in Seq(Holder!Sample) /\ Extended(s, n) # <<>>
          /\ Len(Extended(s, n)) <= Cap /\ Holder!Contiguous(Extended(s, n))
          /\ Extended(s, n)[1] = s[1]
          /\ Extended(s, n)[Len(Extended(s, n))].time = time + 1
          /\ Len(Extended(s, n)) < Cap =>
               time + 1 = Extended(s, n)[1].time + Len(Extended(s, n)) - 1
      <4>1. /\ s \in Seq(Holder!Sample) /\ s # <<>> /\ Len(s) <= Cap
            /\ Holder!Contiguous(s)
            /\ s[Len(s)].time = time
            /\ Len(s) < Cap => time = s[1].time + Len(s) - 1
        BY <2>0, <3>2 DEF Filling, Holder!TypeOK
      <4>2. QED
        BY <2>0, <3>1, <4>1, ExtendedScan
    <3> HIDE DEF n
    <3>4. Holder!TypeOK'
      BY <2>0, <3>2, <3>3 DEF Holder!TypeOK
    <3>5. Filling'
      <4>1. op' = op /\ buf'[op] = Extended(s, n) /\ began'[op] = s[1].time
        BY <2>0, <3>2 DEF Holder!OperationBuffer, Holder!TypeOK, Filling
      <4>2. QED
        BY <3>2, <3>3, <4>1 DEF Filling, Holder!Contiguous
    <3>6. Complete'
      BY <2>0, <2>a, <3>2 DEF Complete, Holder!TypeOK
    <3>7. Pending' /\ Delivered'
      BY <2>0, <2>a, <3>2 DEF Pending, Delivered, Holder!TypeOK
    <3>8. QED
      BY <3>4, <3>5, <3>6, <3>7 DEF HolderInv
  <2>4. CASE Holder!PushDiscard
    <3>1. /\ UNCHANGED <<buf, began, avail, fresh, scanReady, grab, result, syncs>>
          /\ time' \in 0 .. MaxSamples /\ buf[op] = <<>>
      BY <2>0, <2>4 DEF Holder!PushDiscard, Holder!Decoded, Holder!holder, Holder!TypeOK
    <3>2. QED
      BY <2>0, <3>1 DEF HolderInv, Holder!TypeOK, Filling, Complete, Pending, Delivered,
                        Holder!OneScan, Holder!Contiguous, Holder!OperationBuffer
  <2>5. CASE Holder!Rewind
    <3>1. /\ buf' = [buf EXCEPT ![op] = <<>>]
          /\ UNCHANGED <<time, began, avail, fresh, scanReady, grab, result, syncs>>
      BY <2>5 DEF Holder!Rewind
    <3>2. Holder!TypeOK'
      BY <2>0, <3>1 DEF Holder!TypeOK
    <3>3. Filling'
      BY <2>0, <3>1 DEF Filling, Holder!OperationBuffer, Holder!TypeOK
    <3>4. Complete' /\ Pending' /\ Delivered'
      BY <2>0, <2>a, <3>1 DEF Complete, Pending, Delivered, Holder!TypeOK
    <3>5. QED
      BY <3>2, <3>3, <3>4 DEF HolderInv
  <2>6. CASE Holder!Reset
    <3>1. Holder!TypeOK'
      <4>1. /\ buf' \in [Holder!Ids -> Seq(Holder!Sample)]
            /\ \A i \in Holder!Ids : Len(buf'[i]) <= Cap
            /\ began' \in [Holder!Ids -> 0 .. MaxSamples]
        BY <2>0, <2>6 DEF Holder!Reset
      <4>2. QED
        BY <2>0, <2>6, <4>1 DEF Holder!Reset, Holder!TypeOK
    <3>2. Filling' /\ Complete' /\ Pending'
      BY <2>0, <2>6 DEF Holder!Reset, Filling, Complete, Pending,
           Holder!OperationBuffer, Holder!Ids
    <3>3. Delivered'
      BY <2>0, <2>a, <2>6 DEF Holder!Reset, Delivered, Holder!TypeOK
    <3>4. QED
      BY <3>1, <3>2, <3>3 DEF HolderInv
  <2>7. CASE Holder!GrabCopy
    <3>1. /\ result' = [nodes |-> buf[avail], time |-> began[avail]]
          /\ avail >= 0 /\ avail \in Holder!Ids
          /\ UNCHANGED <<time, buf, began, avail, scanReady, syncs>>
          /\ grab' = "idle" /\ fresh' = FALSE
      BY <2>0, <2>7 DEF Holder!GrabCopy
    <3>2. Holder!TypeOK'
      BY <2>0, <3>1 DEF Holder!TypeOK
    <3>3. Filling' /\ Complete' /\ Pending'
      BY <2>0, <3>1 DEF Filling, Complete, Pending, Holder!OperationBuffer,
           Holder!OneScan, Holder!Contiguous
    <3>4. Delivered'
      BY <2>0, <2>a, <3>1 DEF Delivered, Complete, Holder!OneScan, Holder!Contiguous
    <3>5. QED
      BY <3>2, <3>3, <3>4 DEF HolderInv
  <2>8. ASSUME /\ UNCHANGED <<time, buf, began, avail, result, syncs>>
               /\ fresh' \in BOOLEAN /\ scanReady' \in BOOLEAN
               /\ grab' \in {"idle", "asleep", "woken"}
               /\ scanReady' \/ grab' = "woken" => scanReady \/ grab = "woken"
        PROVE  HolderInv'
    BY <2>0, <2>8 DEF HolderInv, Holder!TypeOK, Filling, Complete, Pending, Delivered,
                      Holder!OneScan, Holder!Contiguous, Holder!OperationBuffer
  <2>9. CASE Holder!GrabCall \/ Holder!GrabWake
    BY <2>0, <2>8, <2>9 DEF Holder!GrabCall, Holder!GrabWake, Holder!holder, Holder!TypeOK
  <2>10. CASE Holder!GrabTimeout
    BY <2>0, <2>8, <2>10 DEF Holder!GrabTimeout, Holder!holder, Holder!TypeOK
  <2>12. CASE Holder!CheckFresh \/ UNCHANGED Holder!vars
    <3>1. /\ UNCHANGED <<time, buf, began, avail, scanReady, grab, result, syncs>>
          /\ fresh' \in BOOLEAN
      BY <2>0, <2>12 DEF Holder!CheckFresh, Holder!holder, Holder!vars, Holder!TypeOK
    <3>2. QED
      BY <2>0, <2>8, <3>1 DEF Holder!TypeOK
  <2>11. QED
    BY <2>1, <2>2, <2>3, <2>4, <2>5, <2>6, <2>7, <2>9, <2>10, <2>12 DEF Holder!Next
<1>3. QED
  BY <1>1, <1>2, PTL DEF Holder!Spec

(***************************************************************************)
(* Every grab returns one complete scan (sl_lidar_driver.h:421-422).       *)
(***************************************************************************)
THEOREM HolderGrabs ==
  ASSUME Spurious = FALSE
  PROVE  Holder!Spec => []Holder!GrabbedIsOneScan
<1>1. HolderInv => Holder!GrabbedIsOneScan
  BY DEF HolderInv, Delivered, Holder!GrabbedIsOneScan
<1>2. QED
  BY <1>1, HolderInvariance, PTL

(***************************************************************************)
(* A woken grab finds a scan (the assertion at sl_lidar_driver.cpp:322).   *)
(***************************************************************************)
THEOREM HolderWoken ==
  ASSUME Spurious = FALSE
  PROVE  Holder!Spec => []Holder!ScanWhenWoken
<1>1. HolderInv => Holder!ScanWhenWoken
  BY DEF HolderInv, Pending, Holder!ScanWhenWoken
<1>2. QED
  BY <1>1, HolderInvariance, PTL

(***************************************************************************)
(* The holder implements the feed that grabScanDataHq promises.            *)
(***************************************************************************)
Cur   == buf[Holder!OperationBuffer]
Ready == IF avail < 0 THEN <<>> ELSE buf[avail]
Credit == (IF scanReady THEN 1 ELSE 0) + (IF grab = "woken" THEN 1 ELSE 0)

THEOREM HolderFeed ==
  ASSUME Spurious = FALSE
  PROVE  Holder!Spec => Holder!ImplementsFeed
<1>1. Holder!Init => Holder!Feed!Init
  BY DEF Holder!Init, Holder!Feed!Init, Holder!OperationBuffer, Holder!Ids
<1>2. HolderInv /\ [Holder!Next]_(Holder!vars) => [Holder!Feed!Next]_(Holder!Feed!feed)
  <2> SUFFICES ASSUME HolderInv, [Holder!Next]_(Holder!vars)
               PROVE [Holder!Feed!Next]_(Holder!Feed!feed)
    OBVIOUS
  <2> USE HolderAssumption
  <2> DEFINE op == Holder!OperationBuffer
  <2>0. /\ Holder!TypeOK /\ Complete /\ Pending
        /\ op \in Holder!Ids /\ 1 - op \in Holder!Ids /\ 1 - op # op
        /\ avail >= 0 => avail = 1 - op
        /\ avail \in {-1, 0, 1}
        /\ avail >= 0 => avail \in Holder!Ids
        /\ scanReady \in BOOLEAN /\ buf \in [Holder!Ids -> Seq(Holder!Sample)]
        /\ Credit \in Nat
    BY DEF HolderInv, Holder!TypeOK, Holder!OperationBuffer, Holder!Ids, Credit
  <2>a. ASSUME UNCHANGED <<Cur, Ready, Credit, result>>
        PROVE  UNCHANGED Holder!Feed!feed
    BY <2>a DEF Cur, Ready, Credit, Holder!Feed!feed
  <2>1. CASE Holder!PushFirst
    <3> DEFINE n == Holder!NextSample(TRUE)
    <3>1. n \in Holder!Sample /\ n.sync
      BY <2>0, <2>1 DEF Holder!PushFirst, Holder!Decoded, Holder!NextSample,
           Holder!Sample, Holder!TypeOK
    <3>a. /\ Cur = <<>> /\ buf' = [buf EXCEPT ![op] = <<n>>]
          /\ UNCHANGED <<avail, scanReady, grab, result>>
      BY <2>1 DEF Holder!PushFirst, Holder!Decoded, Cur
    <3>2. Cur = <<>> /\ Cur' = <<n>> /\ Ready' = Ready /\ Credit' = Credit
          /\ result' = result
      <4>1. Cur' = buf'[op] /\ buf'[op] = <<n>>
        BY <2>0, <3>a DEF Cur, Holder!OperationBuffer
      <4>2. avail >= 0 => buf'[avail] = buf[avail]
        BY <2>0, <3>a
      <4>3. Ready' = Ready
        <5>1. CASE avail >= 0
          BY <2>0, <3>a, <4>2, <5>1 DEF Ready
        <5>2. CASE avail < 0
          BY <3>a, <5>2 DEF Ready
        <5>3. QED
          BY <2>0, <5>1, <5>2
      <4>4. QED
        BY <3>a, <4>1, <4>3 DEF Credit
    <3>3. Holder!Feed!Begin(n)
      BY <3>1, <3>2, Zenon DEF Holder!Feed!Begin, Cur, Ready, Credit
    <3>4. QED
      BY <3>1, <3>3 DEF Holder!Feed!Next
  <2>2. CASE Holder!PushSwap
    <3> DEFINE n == Holder!NextSample(TRUE)
    <3>1. n \in Holder!Sample /\ n.sync
      BY <2>0, <2>2 DEF Holder!PushSwap, Holder!Decoded, Holder!NextSample,
           Holder!Sample, Holder!TypeOK
    <3>2. Cur # <<>> /\ avail' = op /\ buf' = [buf EXCEPT ![1 - op] = <<n>>]
          /\ scanReady' = TRUE /\ UNCHANGED <<grab, result>>
      BY <2>2 DEF Holder!PushSwap, Holder!Decoded, Cur
    <3>3. Cur' = <<n>> /\ Ready' = Cur
      <4>1. Holder!OperationBuffer' = 1 - op
        BY <2>0, <3>2 DEF Holder!OperationBuffer, Holder!Ids
      <4>2. buf'[1 - op] = <<n>> /\ buf'[op] = buf[op]
        BY <2>0, <3>2
      <4>3. op >= 0
        BY <2>0 DEF Holder!Ids
      <4>4. QED
        <5>1. Cur' = <<n>>
          BY <4>1, <4>2 DEF Cur
        <5>2. Ready' = buf[op]
          <6> HIDE DEF op, n
          <6>1. QED
            BY <2>0, <3>2, <4>2, <4>3 DEF Ready, Holder!Ids
        <5>3. QED
          BY <5>1, <5>2 DEF Cur
    <3>4. Credit' \in {1, 2} /\ Credit <= Credit' /\ Credit' <= Credit + 1
      BY <2>0, <3>2 DEF Credit
    <3>5. Holder!Feed!Begin(n)
      BY <3>1, <3>2, <3>3, <3>4, Zenon DEF Holder!Feed!Begin, Cur, Ready, Credit
    <3>6. QED
      BY <3>1, <3>5 DEF Holder!Feed!Next
  <2>3. CASE Holder!PushMore
    <3> DEFINE n == Holder!NextSample(FALSE)
    <3>1. n \in Holder!Sample /\ ~n.sync
      BY <2>0, <2>3 DEF Holder!PushMore, Holder!Decoded, Holder!NextSample,
           Holder!Sample, Holder!TypeOK
    <3>2. /\ Cur # <<>> /\ avail' = avail
          /\ buf' = [buf EXCEPT ![op] = Extended(buf[op], n)]
          /\ UNCHANGED <<scanReady, grab, result>>
      BY <2>0, <2>3 DEF Holder!PushMore, Holder!Decoded, Cur, Extended
    <3>3. Cur' = Extended(Cur, n) /\ Ready' = Ready /\ Credit' = Credit
      <4>1. Cur' = buf'[op] /\ buf'[op] = Extended(Cur, n)
        BY <2>0, <3>2 DEF Cur, Holder!OperationBuffer
      <4>2. avail >= 0 => buf'[avail] = buf[avail]
        BY <2>0, <3>2
      <4>3. Ready' = Ready
        <5>1. CASE avail >= 0
          BY <2>0, <3>2, <4>2, <5>1 DEF Ready
        <5>2. CASE avail < 0
          BY <3>2, <5>2 DEF Ready
        <5>3. QED
          BY <2>0, <5>1, <5>2
      <4>4. QED
        BY <3>2, <4>1, <4>3 DEF Credit
    <3>4. Holder!Feed!Continue(n)
      BY <3>1, <3>2, <3>3, Zenon
         DEF Holder!Feed!Continue, Cur, Ready, Credit, Extended
    <3>5. QED
      BY <3>1, <3>4 DEF Holder!Feed!Next
  <2>4. CASE Holder!PushDiscard
    BY <2>4, <2>a DEF Holder!PushDiscard, Holder!Decoded, Holder!holder, Cur,
         Ready, Credit,
                      Holder!OperationBuffer
  <2>5. CASE Holder!Rewind
    <3>1. Cur' = <<>> /\ Ready' = Ready /\ Credit' = Credit /\ result' = result
      BY <2>0, <2>5 DEF Holder!Rewind, Cur, Ready, Credit, Holder!OperationBuffer
    <3>2. Holder!Feed!Abandon
      BY <3>1, Zenon DEF Holder!Feed!Abandon, Cur, Ready, Credit
    <3>3. QED
      BY <3>2 DEF Holder!Feed!Next
  <2>6. CASE Holder!Reset
    <3>1. Cur' = <<>> /\ Ready' = <<>> /\ Credit' = 0 /\ result' = result
      BY <2>0, <2>6 DEF Holder!Reset, Cur, Ready, Credit, Holder!OperationBuffer,
           Holder!Ids
    <3>2. Holder!Feed!Restart
      BY <3>1, Zenon DEF Holder!Feed!Restart, Cur, Ready, Credit
    <3>3. QED
      BY <3>2 DEF Holder!Feed!Next
  <2>7. CASE Holder!GrabCopy
    <3>1. /\ grab = "woken" /\ avail >= 0 /\ grab' = "idle"
          /\ result' = [nodes |-> buf[avail], time |-> began[avail]]
          /\ UNCHANGED <<buf, avail, scanReady>>
      BY <2>7 DEF Holder!GrabCopy
    <3>2. Ready # <<>> /\ result' = [nodes |-> Ready, time |-> Ready[1].time]
      <4>1. Ready = buf[avail]
        BY <2>0, <3>1 DEF Ready
      <4>2. buf[avail] # <<>> /\ began[avail] = buf[avail][1].time
        BY <2>0, <3>1 DEF Complete, Holder!OneScan
      <4>3. QED
        BY <3>1, <4>1, <4>2, Zenon
    <3>3. Credit > 0 /\ Credit' = Credit - 1
      BY <2>0, <3>1 DEF Credit
    <3>4. Cur' = Cur /\ Ready' = Ready
      BY <3>1 DEF Cur, Ready, Holder!OperationBuffer
    <3>5. Holder!Feed!Deliver
      BY <3>2, <3>3, <3>4, Zenon DEF Holder!Feed!Deliver, Cur, Ready, Credit
    <3>6. QED
      BY <3>5 DEF Holder!Feed!Next
  <2>8. CASE Holder!GrabCall \/ Holder!GrabWake
    <3>1. UNCHANGED <<buf, avail, result>> /\ Credit' = Credit
      BY <2>0, <2>8 DEF Holder!GrabCall, Holder!GrabWake, Holder!holder, Credit
    <3>2. QED
      BY <3>1, <2>a DEF Cur, Ready, Holder!OperationBuffer
  <2>9. CASE Holder!GrabTimeout \/ Holder!CheckFresh \/ UNCHANGED Holder!vars
    <3>1. UNCHANGED <<buf, avail, result>> /\ Credit' = Credit
      BY <2>9 DEF Holder!GrabTimeout, Holder!CheckFresh, Holder!holder,
           Holder!vars, Credit
    <3>2. QED
      BY <3>1, <2>a DEF Cur, Ready, Holder!OperationBuffer
  <2>10. QED
    BY <2>1, <2>2, <2>3, <2>4, <2>5, <2>6, <2>7, <2>8, <2>9 DEF Holder!Next
<1>3. QED
  BY <1>1, <1>2, HolderInvariance, PTL DEF Holder!Spec, Holder!ImplementsFeed,
       Holder!Feed!Spec

-----------------------------------------------------------------------------
(***************************************************************************)
(* The inductive invariant, in parts.                                      *)
(***************************************************************************)
\* answers on their way or in the decoder's hands
Outstanding == Len(line) + (IF dec = "bytes" THEN 0 ELSE 1)

\* who holds what, what a call asks for, and that it has not asked before Send
Calls ==
  /\ data = "caller" <=> api \in {"disable", "arm"}
  /\ codec = "free"
  /\ api \in {"disable", "arm", "send"} => Outstanding < req
  /\ api \in {"send", "wait", "asleep", "woken"} => waiting = asked
  /\ api \notin {"idle", "clear"} => asked \in Types

\* a signal that a call can take announces an answer stored during the call
Current ==
  (api \in {"send", "wait", "asleep"} /\ answerReady) \/ api = "woken" =>
    lastAns \in Requests!Stored /\ lastAns.at = req

OwnAnswer(m) == m.req = req /\ m.type = asked /\ m.whole

Handling == dec \in {"copy", "store"}

\* while no request timed out, the only answer about is the current one's
InTime ==
  ~late =>
    /\ Len(line) <= 1 /\ (Handling => line = <<>>)
    /\ line # <<>> => OwnAnswer(line[1])
    /\ Handling => OwnAnswer(msg)
    /\ line # <<>> \/ Handling => api \in {"wait", "asleep"} /\ ~answerReady
    /\ answerReady => api \in {"wait", "asleep"}
    /\ answerReady \/ api = "woken" =>
         lastAns \in Requests!Stored /\ lastAns.ans.req = req /\ lastAns.ans.whole

AnswerInv == Requests!TypeOK /\ Calls /\ Current /\ InTime /\ Requests!AnswerIsCurrent
               /\ Requests!OwnAnswerUnlessLate

-----------------------------------------------------------------------------
(***************************************************************************)
(* What resetting the decoder may do to the answers.                       *)
(***************************************************************************)
LEMMA ResetEffect ==
  ASSUME Requests!TypeOK, Requests!ResetDecoder
  PROVE  /\ line' \in Seq(Requests!Answer) /\ Len(line') <= Len(line)
         /\ line = <<>> => line' = <<>>
         /\ UNCHANGED <<codec, dec>>
         /\ IF dec = "bytes" THEN msg' = NoAnswer ELSE msg' \in Requests!Answer
         /\ dec # "copy" => msg' = msg
<1>1. line \in Seq(Requests!Answer)
  BY DEF Requests!TypeOK
<1>2. line' = line \/ (line # <<>> /\ line' = Tail(line))
  BY DEF Requests!ResetDecoder
<1>3. line' \in Seq(Requests!Answer) /\ Len(line') <= Len(line)
  BY <1>1, <1>2
<1>4. line = <<>> => line' = <<>>
  BY <1>2
<1>5. dec = "copy" => msg' \in Requests!Answer
  <2> SUFFICES ASSUME dec = "copy"
               PROVE  msg' \in Requests!Answer
    OBVIOUS
  <2>1. msg \in Requests!Answer
    BY DEF Requests!TypeOK
  <2>2. PICK w \in {msg.whole, FALSE} : msg' = [msg EXCEPT !.whole = w]
    BY DEF Requests!ResetDecoder
  <2>3. QED
    BY <2>1, <2>2 DEF Requests!Answer
<1>6. UNCHANGED <<codec, dec>> /\ (dec # "copy" => msg' = msg)
  BY DEF Requests!ResetDecoder
<1>7. QED
  BY <1>3, <1>4, <1>5, <1>6 DEF Requests!TypeOK

(***************************************************************************)
(* The invariant is inductive.                                             *)
(***************************************************************************)
THEOREM AnswerInvariance ==
  ASSUME Spurious = FALSE
  PROVE  Requests!Spec => []AnswerInv
<1> USE DEF Handling, Outstanding
<1>1. Requests!Init => AnswerInv
  <2> SUFFICES ASSUME Requests!Init
               PROVE  AnswerInv
    OBVIOUS
  <2> USE CommandAssumption DEF Requests!Init
  <2>1. /\ req \in 0 .. MaxRequests /\ line \in Seq(Requests!Answer) /\ Len(line) = 0
        /\ asked \in Types \cup {NoType} /\ waiting \in Types \cup {NoType}
    OBVIOUS
  <2>a. /\ answerReady \in BOOLEAN /\ late \in BOOLEAN
        /\ data \in {"free", "caller"} /\ codec \in {"free", "decoder"}
        /\ dec = "bytes" /\ msg = NoAnswer /\ taken = NoAnswer
        /\ lastAns = NoAnswer /\ api = "idle"
    OBVIOUS
  <2>b. Len(line) + (IF dec = "bytes" THEN 0 ELSE 1) <= req
    BY <2>1
  <2> HIDE DEF Requests!Init
  <2>2. Requests!TypeOK
    <3>1.
          /\ api \in {"idle", "disable", "arm", "send", "wait", "asleep", "woken", "clear"}
          /\ dec \in {"bytes", "copy", "store", "relock"}
      BY <2>a
    <3>2. QED
      BY Zenon, <2>1, <2>a, <2>b, <3>1 DEF Requests!TypeOK
  <2> USE DEF Requests!Init
  <2>3. Calls /\ Current /\ InTime
    BY <2>1 DEF Calls, Current, InTime
  <2>4. Requests!AnswerIsCurrent /\ Requests!OwnAnswerUnlessLate
    BY DEF Requests!AnswerIsCurrent, Requests!OwnAnswerUnlessLate
  <2>5. QED
    BY <2>2, <2>3, <2>4 DEF AnswerInv
<1>2. AnswerInv /\ [Requests!Next]_(Requests!vars) => AnswerInv'
  <2> SUFFICES ASSUME AnswerInv, [Requests!Next]_(Requests!vars)
               PROVE  AnswerInv'
    OBVIOUS
  <2> USE CommandAssumption
      DEF AnswerInv, Calls, Current, InTime, OwnAnswer, Requests!AnswerIsCurrent,
          Requests!OwnAnswerUnlessLate, Requests!CallerGoto, Requests!DecoderGoto, Requests!decoder
  <2>1. ASSUME NEW t \in Types, Requests!Request(t)
        PROVE  AnswerInv'
    BY <2>1 DEF Requests!Request, Requests!TypeOK
  <2>2. CASE Requests!DisableGrabbing
    <3>1. /\ line' \in Seq(Requests!Answer) /\ Len(line') <= Len(line)
          /\ line = <<>> => line' = <<>>
          /\ UNCHANGED <<codec, dec>>
          /\ IF dec = "bytes" THEN msg' = NoAnswer ELSE msg' \in Requests!Answer
      BY <2>2, ResetEffect DEF Requests!DisableGrabbing
    <3>2. Len(line) \in Nat /\ Len(line') \in Nat
      BY <3>1 DEF Requests!TypeOK
    <3>3. QED
      BY <2>2, <3>1, <3>2 DEF Requests!DisableGrabbing, Requests!TypeOK
  <2>3. CASE Requests!Arm
    BY <2>3 DEF Requests!Arm, Requests!TypeOK
  <2>4. CASE Requests!SendFails
    BY <2>4 DEF Requests!SendFails, Requests!TypeOK
  <2>5. CASE Requests!Send
    <3> DEFINE m == [req |-> req, type |-> asked, whole |-> TRUE]
    <3>1. CASE UNCHANGED line
      BY <2>5, <3>1 DEF Requests!Send, Requests!TypeOK
    <3>2. CASE line' = Append(line, m)
      <4>1. line \in Seq(Requests!Answer) /\ Len(line) \in Nat /\ Outstanding < req
        BY <2>5 DEF Requests!Send, Requests!TypeOK
      <4>2. asked \in Types
        BY <2>5 DEF Requests!Send
      <4>3. m \in Requests!Answer
        BY <4>1, <4>2 DEF Requests!Answer, Requests!TypeOK
      <4>4. line' \in Seq(Requests!Answer) /\ Len(line') = Len(line) + 1
        BY <3>2, <4>1, <4>3
      <4>5. line = <<>> => line'[1] = m /\ Len(line') = 1
        BY <3>2, <4>1
      <4>6. OwnAnswer(m)'
        BY <2>5 DEF Requests!Send
      <4> HIDE DEF m
      <4>7. QED
        BY <2>5, <4>1, <4>4, <4>5, <4>6 DEF Requests!Send, Requests!TypeOK
    <3>3. QED
      BY <2>5, <3>1, <3>2 DEF Requests!Send
  <2>6. CASE Requests!Wait
    BY <2>6 DEF Requests!Wait, Requests!TypeOK
  <2>7. CASE Requests!Wake
    BY <2>7 DEF Requests!Wake, Requests!TypeOK
  <2>8. CASE Requests!Timeout
    BY <2>8 DEF Requests!Timeout, Requests!TypeOK
  <2>9. CASE Requests!Take
    BY <2>9 DEF Requests!Take, Requests!TypeOK, Requests!Stored
  <2>10. ASSUME NEW force \in BOOLEAN, Requests!Command(force)
         PROVE  AnswerInv'
    <3>1. CASE force
      <4>1. /\ line' \in Seq(Requests!Answer) /\ Len(line') <= Len(line)
            /\ line = <<>> => line' = <<>>
            /\ UNCHANGED <<codec, dec>>
            /\ IF dec = "bytes" THEN msg' = NoAnswer ELSE msg' \in Requests!Answer
        BY <2>10, <3>1, ResetEffect DEF Requests!Command
      <4>2. Len(line) \in Nat /\ Len(line') \in Nat
        BY <4>1 DEF Requests!TypeOK
      <4>3. QED
        BY <2>10, <4>1, <4>2 DEF Requests!Command, Requests!TypeOK
    <3>2. CASE ~force
      BY <2>10, <3>2 DEF Requests!Command, Requests!TypeOK
    <3>3. QED
      BY <3>1, <3>2
  <2>11. CASE Requests!CommandClear
    BY <2>11 DEF Requests!CommandClear, Requests!TypeOK
  <2>12. CASE Requests!Decode
    BY <2>12 DEF Requests!Decode, Requests!TypeOK
  <2>13. CASE Requests!Check
    BY <2>13 DEF Requests!Check, Requests!TypeOK
  <2>14. CASE Requests!Store
    BY <2>14 DEF Requests!Store, Requests!TypeOK, Requests!Stored
  <2>15. CASE Requests!Relock
    BY <2>15 DEF Requests!Relock, Requests!TypeOK
  <2>16. CASE UNCHANGED Requests!vars
    BY <2>16 DEF Requests!vars, Requests!TypeOK
  <2>17. QED
    BY <2>1, <2>2, <2>3, <2>4, <2>5, <2>6, <2>7, <2>8, <2>9, <2>10, <2>11,
       <2>12, <2>13, <2>14, <2>15, <2>16 DEF Requests!Next, Requests!CallerNext,
            Requests!DecoderNext
<1>3. QED
  BY <1>1, <1>2, PTL DEF Requests!Spec

(***************************************************************************)
(* A request never returns an answer that was there before it began.       *)
(***************************************************************************)
THEOREM RequestsCurrent ==
  ASSUME Spurious = FALSE
  PROVE  Requests!Spec => []Requests!AnswerIsCurrent
<1>1. AnswerInv => Requests!AnswerIsCurrent
  BY DEF AnswerInv
<1>2. QED
  BY <1>1, AnswerInvariance, PTL

(***************************************************************************)
(* As long as no request timed out, every request returns its own answer,  *)
(* of its type and whole.                                                  *)
(***************************************************************************)
THEOREM RequestsOwn ==
  ASSUME Spurious = FALSE
  PROVE  Requests!Spec => []Requests!OwnAnswerUnlessLate
<1>1. AnswerInv => Requests!OwnAnswerUnlessLate
  BY DEF AnswerInv
<1>2. QED
  BY <1>1, AnswerInvariance, PTL

-----------------------------------------------------------------------------
(***************************************************************************)
(* Whatever requests, commands and starts are made between and during      *)
(* grabs, every grab returns one complete scan (sl_lidar_driver.h:421).    *)
(***************************************************************************)
THEOREM GrabsWhole ==
  ASSUME Spurious = FALSE
  PROVE  Spec => []GrabbedIsOneScan
BY HolderImplemented, HolderGrabs, PTL DEF GrabbedIsOneScan

(***************************************************************************)
(* The driver as a whole keeps what grabScanDataHq promises (ScanFeed).    *)
(***************************************************************************)
THEOREM FeedKept ==
  ASSUME Spurious = FALSE
  PROVE  Spec => ImplementsFeed
BY HolderImplemented, HolderFeed, PTL DEF ImplementsFeed

(***************************************************************************)
(* Whatever is grabbed and started in between, no request returns an       *)
(* answer that was there before it began.                                  *)
(***************************************************************************)
THEOREM AnswersCurrent ==
  ASSUME Spurious = FALSE
  PROVE  Spec => []AnswerIsCurrent
BY RequestsImplemented, RequestsCurrent, PTL DEF AnswerIsCurrent

(***************************************************************************)
(* As long as no request timed out, every request, those that a start of a *)
(* scan makes among them, returns its own answer, whole.                   *)
(***************************************************************************)
THEOREM AnswersOwn ==
  ASSUME Spurious = FALSE
  PROVE  Spec => []OwnAnswerUnlessLate
BY RequestsImplemented, RequestsOwn, PTL DEF OwnAnswerUnlessLate
=============================================================================
