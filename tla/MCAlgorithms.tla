---------------------------- MODULE MCAlgorithms ----------------------------
(***************************************************************************)
(* The inputs of Algorithms.                                               *)
(***************************************************************************)
EXTENDS Algorithms

\* nearly as fast as may be, so that the lidar turns three times; the first start
\* makes a capsule end at exactly 0 a turn after a mark, the second one between
\* the steps of two speeds just after one
MCStarts == {1100, 663, 22000}
MCAdvances == {4498, 4544}

MCTimings ==
  [duration : {31, 62, 476}, linkage : {0, 500}, baud : {0, 115200}, ethernet : BOOLEAN]

Reading(a, d) == [angle |-> a, dist |-> d, quality |-> IF d = 0 THEN 0 ELSE 47]

\* four readings at any of some angles, each with or without an echo
MCRawScans ==
  {[i \in 1 .. 4 |-> Reading(a[i], d[i])] :
     a \in [1 .. 4 -> {0, 8192, 20000, 49152, 65535}], d \in [1 .. 4 -> {0, 900}]}

\* sixteen readings: 0, 10, .. 40, 45, 90, 135, 180, 225, 270, 315, 320, .. 350
Angles == <<0, 1820, 3640, 5461, 7281, 8192, 16384, 24576, 32768, 40960, 49152,
            57344, 58255, 60075, 61895, 63715>>
SineOf == <<0, 174, 342, 500, 643, 707, 1000, 707, 0, -707, -1000,
            -707, -643, -500, -342, -174>>
CosineOf == <<1000, 985, 940, 866, 766, 707, 0, -707, -1000, -707, 0,
              707, 766, 866, 940, 985>>
Index(a) == CHOOSE i \in 1 .. 16 : Angles[i] = a
MCSine == [a \in 0 .. Full - 1 |-> IF a \in ToSet(Angles) THEN SineOf[Index(a)] ELSE 0]
MCCosine == [a \in 0 .. Full - 1 |-> IF a \in ToSet(Angles) THEN CosineOf[Index(a)] ELSE 0]

\* (with \o TLC keeps the readings, and not how to compute them)
Scan(distance(_)) == [i \in 1 .. 16 |-> Reading(Angles[i], distance(i))] \o <<>>

\* walls all around, or nearer on one side; noise, and a reading that is lost
Wall(near, i) == IF near /\ i < 9 THEN 1100 ELSE 2000
RoomScan(near, noise, lost) ==
  Scan(LAMBDA i : IF i = lost THEN 0 ELSE Wall(near, i) + noise * (i % 2))

MCRooms ==
  {{RoomScan(near, noise, lost) : noise \in {0, 120}, lost \in {0, 15}} : near \in BOOLEAN}

\* an object on an arc of the readings, in front of the walls
Arcs == {{}, {1, 2, 3}, {2, 3, 4, 5}, {1, 2, 3, 4, 5}, {13, 14, 15}, {14, 15, 16}, {16, 1, 2}, {2, 3}}
MCVisits ==
  {[scan |-> Scan(LAMBDA i : IF i = lost THEN 0
                             ELSE IF i \in arc THEN 600 ELSE Wall(near, i) + noise),
    object |-> {[x |-> (600 * SineOf[i]) \div 1000, y |-> (600 * CosineOf[i]) \div 1000] :
                  i \in arc}] :
     near \in BOOLEAN, noise \in {-100, 60}, lost \in {0, 3, 14}, arc \in Arcs}

MCMessages ==
  {[cmd |-> Byte[132], hasPayload |-> p > 0,
    payload |-> [i \in 1 .. n |-> Byte[(7 * i + n) % 256]]] :
     p \in 0 .. 1, n \in {0, 1, 4, 8, 255, 256, 259}}

\* blocks of all lengths modulo four, with bursts of up to 16 and 32 bits, from the
\* lowest and from the highest bit of a byte
Block(n, seed) == [i \in 1 .. n |-> Byte[(seed * i) % 256]]
Damaged(block, at, errors) ==
  [i \in DOMAIN block |->
     LET here == {k \in 0 .. 7 : (8 * (i - 1) + k) - at \in errors} IN Xor(block[i], here)]
MCBlocks ==
  {LET block == Block(n, seed) \o <<>>
       damaged == Damaged(block, at, errors)
   IN IF mirrored THEN <<Mirrored(block) \o <<>>, Mirrored(damaged) \o <<>>>>
                  ELSE <<block, damaged \o <<>>>> :
     n \in 4 .. 7, seed \in {0, 37}, at \in {0, 3, 7}, mirrored \in BOOLEAN,
     errors \in {{0}, {0, 1}, {0, 15}, {0, 4, 8, 12}, {0, 31}, {0, 9, 18, 27}}}

MCLegs ==
  [start : {[x |-> sx, y |-> sy] : sx \in {0, 2000}, sy \in {0, 400}},
   goal : {[x |-> gx, y |-> gy] : gx \in {0, 13, 1013, 2000}, gy \in {-1000, 0, 2000}},
   x : {-100, 0, 250, 1000, 1990, 2500}, velocity : {0, 150, 600}]

MCErrors == {-900, -260, -90, -12, 0, 12, 90, 260, 900}
MCYaws == {-3500, 0, 700}
MCControls == [rate : {-300, 0, 300}, filtered : {-4500, 0, 2100}, last : {-45, 0, 21}]
=============================================================================
