-------------------------- MODULE AlgorithmsProofs --------------------------
(***************************************************************************)
(* The pure parts for all inputs: the planner's waypoint, the values that  *)
(* samples are published with, the marks of a lidar that turns at any      *)
(* speeds, the torpedo in a calibrated room, the checksums, and the        *)
(* steering with a steady error.  What a set's least element gives is got  *)
(* from the well-founded order of the natural numbers, and from it what a  *)
(* recurrence defines (Upwards, Recursion).                                *)
(***************************************************************************)
EXTENDS Algorithms, FiniteSetTheorems, WellFoundedInduction, TLAPS

Below == OpToRel(<, Nat)

\* the order of the natural numbers, as a relation
LEMMA BelowPairs == \A a, b \in Nat : a < b => <<a, b>> \in Below
BY DEF OpToRel, Below

\* a set of natural numbers that is not empty has a least one
LEMMA LeastElement ==
  ASSUME NEW S, S \subseteq Nat, S # {}
  PROVE \E k \in S : \A l \in S : k <= l
<1>1. IsWellFoundedOn(Below, Nat)
  BY NatLessThanWellFounded DEF Below
<1>2. PICK k \in S : \A l \in S : ~(<<l, k>> \in Below)
  BY <1>1, WFMin
<1>3. \A l \in S : ~(l < k)
  BY <1>2, BelowPairs
<1> QED BY <1>3

\* and a greatest one, if it is bounded
LEMMA GreatestElement ==
  ASSUME NEW n \in Nat, NEW S, S \subseteq 1 .. n, S # {}
  PROVE  \E k \in S : \A l \in S : l <= k
<1> DEFINE T == {n - k : k \in S}
<1>1. T \subseteq Nat /\ T # {}
  <2>1. \A k \in 1 .. n : n - k \in Nat
    OBVIOUS
  <2>2. \A k \in S : n - k \in Nat
    BY <2>1
  <2> QED BY <2>2
<1>2. PICK m \in T : \A l \in T : m <= l
  <2> HIDE DEF T
  <2> QED BY <1>1, LeastElement
<1>3. PICK k \in S : m = n - k
  OBVIOUS
<1>4. \A l \in S : n - k <= n - l
  BY <1>2, <1>3
<1> QED BY <1>4

\* what a division rounds down to
LEMMA DivBounds ==
  ASSUME NEW a \in Int, NEW b \in Nat, b > 0
  PROVE  /\ a \div b \in Int
         /\ b * (a \div b) <= a
         /\ a < b * (a \div b) + b
OBVIOUS

\* the points between start and goal, rounded down
Straight(path, start, goal) ==
  /\ Len(path) = 21
  /\ path[1].x = start.x
  /\ path[1].y = start.y
  /\ path[21].x = goal.x
  /\ \A i \in 1 .. 21 :
       /\ path[i].x \in Int /\ path[i].y \in Int
       /\ \E r \in 0 .. 19 : 20 * (path[i].x - start.x) = (i - 1) * (goal.x - start.x) - r
       /\ \E s \in 0 .. 19 : 20 * (path[i].y - start.y) = (i - 1) * (goal.y - start.y) - s

\* computePath's points
LEMMA PathPoints ==
  ASSUME NEW start \in Place, NEW goal \in Place
  PROVE  Straight(ComputePath(start, goal), start, goal)
<1> DEFINE path == ComputePath(start, goal)
           dx == goal.x - start.x
           dy == goal.y - start.y
<1>1. start = [x |-> start.x, y |-> start.y] /\ start.x \in Int /\ start.y \in Int
  BY DEF Place
<1>2. goal.x \in Int /\ goal.y \in Int
  BY DEF Place
<1>3. path = [i \in 1 .. 21 |-> [x |-> start.x + ((i - 1) * dx) \div 20,
                                  y |-> start.y + ((i - 1) * dy) \div 20]]
  BY DEF ComputePath, PathSteps
<1>4. dx \in Int /\ dy \in Int
  BY <1>1, <1>2
<1> HIDE DEF path, dx, dy
<1>5. \A n \in Int : /\ n \div 20 \in Int
                     /\ \E r \in 0 .. 19 : 20 * (n \div 20) = n - r
  <2> SUFFICES ASSUME NEW n \in Int
               PROVE  /\ n \div 20 \in Int
                      /\ \E r \in 0 .. 19 : 20 * (n \div 20) = n - r
    OBVIOUS
  <2>1. n \div 20 \in Int /\ n - 20 * (n \div 20) \in 0 .. 19
    OBVIOUS
  <2>2. 20 * (n \div 20) = n - (n - 20 * (n \div 20))
    BY <2>1
  <2> QED BY <2>1, <2>2
<1>6. Len(path) = 21
  BY <1>3
<1>7. \A i \in 1 .. 21 :
        /\ path[i].x \in Int /\ path[i].y \in Int
        /\ \E r \in 0 .. 19 : 20 * (path[i].x - start.x) = (i - 1) * dx - r
        /\ \E s \in 0 .. 19 : 20 * (path[i].y - start.y) = (i - 1) * dy - s
  <2> SUFFICES ASSUME NEW i \in 1 .. 21
               PROVE  /\ path[i].x \in Int /\ path[i].y \in Int
                      /\ \E r \in 0 .. 19 : 20 * (path[i].x - start.x) = (i - 1) * dx - r
                      /\ \E s \in 0 .. 19 : 20 * (path[i].y - start.y) = (i - 1) * dy - s
    OBVIOUS
  <2>1. path[i].x = start.x + ((i - 1) * dx) \div 20 /\ path[i].y = start.y + ((i - 1) * dy) \div 20
    BY <1>3
  <2>2. (i - 1) * dx \in Int /\ (i - 1) * dy \in Int
    BY <1>4
  <2>3. PICK r \in 0 .. 19 : 20 * (((i - 1) * dx) \div 20) = (i - 1) * dx - r
    BY <1>5, <2>2
  <2>4. PICK s \in 0 .. 19 : 20 * (((i - 1) * dy) \div 20) = (i - 1) * dy - s
    BY <1>5, <2>2
  <2>5. ((i - 1) * dx) \div 20 \in Int /\ ((i - 1) * dy) \div 20 \in Int
    BY <1>5, <2>2
  <2> QED BY <1>1, <2>1, <2>3, <2>4, <2>5
<1>8. path[1].x = start.x /\ path[1].y = start.y
  <2>1. path[1] = [x |-> start.x + (0 * dx) \div 20, y |-> start.y + (0 * dy) \div 20]
    BY <1>3
  <2>2. 0 * dx = 0 /\ 0 * dy = 0 /\ 0 \div 20 = 0
    BY <1>4
  <2> QED BY <1>1, <2>1, <2>2
<1>9. path[21].x = goal.x
  <2>1. path[21].x = start.x + (20 * dx) \div 20
    BY <1>3
  <2>2. (20 * dx) \div 20 = dx
    BY <1>4
  <2> QED BY <1>1, <1>2, <2>1, <2>2 DEF dx
<1> QED BY <1>6, <1>7, <1>8, <1>9, ZenonT(40) DEF path, dx, dy, Straight

\* the point ahead is within the path, and where it is not at an end, ahead
LEMMA Target ==
  ASSUME NEW start \in Place, NEW goal \in Place, NEW x \in Int, NEW velocity \in Int,
         NEW path, path = ComputePath(start, goal), NEW tx, tx = TargetX(path, x, velocity)
  PROVE  /\ tx \in Int
         /\ start.x <= goal.x => tx \in start.x .. goal.x
         /\ start.x > goal.x => tx \in goal.x .. start.x
         /\ \/ tx = goal.x
            \/ Distance(tx, goal.x) + 120 <= Distance(x, goal.x)
            \/ tx = start.x /\ Distance(x, goal.x) > Distance(tx, goal.x)
<1> DEFINE ahead == LookAhead(velocity)
<1>1. path[1].x = start.x /\ path[Len(path)].x = goal.x
  <2>1. Straight(path, start, goal)
    BY PathPoints
  <2> QED BY <2>1 DEF Straight
<1>2. start.x \in Int /\ goal.x \in Int
  BY DEF Place
<1>3. ahead \in Nat /\ ahead >= 120
  <2>1. \A n \in Nat : (n * 80) \div 1000 \in Nat
    OBVIOUS
  <2>2. (IF velocity > 1 THEN velocity ELSE 150) \in Nat
    OBVIOUS
  <2> QED BY <2>1, <2>2 DEF LookAhead
<1>4. CASE start.x <= goal.x
  <2>1. tx = Clamp(start.x, goal.x, x + ahead)
    BY <1>1, <1>2, <1>3, <1>4 DEF TargetX, MinOf, MaxOf
  <2> HIDE DEF ahead
  <2>2. x + ahead \in Int
    BY <1>3
  <2>3. /\ tx \in start.x .. goal.x
        /\ x + ahead <= start.x => tx = start.x
        /\ x + ahead >= goal.x => tx = goal.x
        /\ x + ahead \in start.x .. goal.x => tx = x + ahead
    BY <1>2, <1>4, <2>1, <2>2 DEF Clamp, MinOf, MaxOf
  <2> QED BY <1>2, <1>3, <1>4, <2>3 DEF Distance
<1>5. CASE start.x > goal.x
  <2>1. tx = Clamp(goal.x, start.x, x - ahead)
    BY <1>1, <1>2, <1>3, <1>5 DEF TargetX, MinOf, MaxOf
  <2> HIDE DEF ahead
  <2>2. x - ahead \in Int
    BY <1>3
  <2>3. /\ tx \in goal.x .. start.x
        /\ x - ahead <= goal.x => tx = goal.x
        /\ x - ahead >= start.x => tx = start.x
        /\ x - ahead \in goal.x .. start.x => tx = x - ahead
    BY <1>2, <1>5, <2>1, <2>2 DEF Clamp, MinOf, MaxOf
  <2> QED BY <1>2, <1>3, <1>5, <2>3 DEF Distance
<1> QED BY <1>2, <1>4, <1>5

\* the segment that is found spans the point
LEMMA Spanned ==
  ASSUME NEW start \in Place, NEW goal \in Place, NEW path, Straight(path, start, goal),
         NEW tx \in Int,
         start.x <= goal.x => tx \in start.x .. goal.x,
         start.x > goal.x => tx \in goal.x .. start.x
  PROVE  /\ Spanning(path, tx) # {}
         /\ FirstSpanning(path, tx) \in Spanning(path, tx)
         /\ FirstSpanning(path, tx) \in 1 .. 20
         /\ \A l \in Spanning(path, tx) : FirstSpanning(path, tx) <= l
<1>1. /\ Len(path) = 21 /\ path[1].x = start.x /\ path[21].x = goal.x
      /\ \A i \in 1 .. 21 : path[i].x \in Int
      /\ start.x \in Int /\ goal.x \in Int
  BY DEF Straight, Place
<1>2. Spanning(path, tx) \subseteq 1 .. 20
  BY <1>1 DEF Spanning
<1>3. Spanning(path, tx) # {}
  <2>1. CASE start.x <= goal.x
    <3> DEFINE S == {i \in 1 .. 20 : path[i + 1].x >= tx}
    <3>1. 20 \in S
      BY <1>1, <2>1
    <3>2. S \subseteq 1 .. 20 /\ S # {}
      BY <3>1, Zenon
    <3> HIDE DEF S
    <3>3. PICK n \in S : \A m \in S : n <= m
      <4>1. S \subseteq Nat
        BY <3>2
      <4> QED BY <4>1, <3>2, LeastElement
    <3>4. n \in 1 .. 20 /\ path[n + 1].x >= tx
      BY <3>3 DEF S
    <3>5. path[n].x <= tx
      <4>1. CASE n = 1
        BY <1>1, <2>1, <4>1
      <4>2. CASE n # 1
        <5>1. n - 1 \in 1 .. 20 /\ n - 1 \notin S
          BY <3>3, <3>4, <4>2
        <5>2. (n - 1) + 1 = n
          BY <3>4
        <5>3. ~(path[n].x >= tx)
          BY <5>1, <5>2 DEF S
        <5> QED BY <1>1, <3>4, <5>3
      <4> QED BY <4>1, <4>2
    <3>6. n \in Spanning(path, tx)
      BY <1>1, <3>4, <3>5 DEF Spanning, MinOf, MaxOf
    <3> QED BY <3>6
  <2>2. CASE start.x > goal.x
    <3> DEFINE S == {i \in 1 .. 20 : path[i + 1].x <= tx}
    <3>1. 20 \in S
      BY <1>1, <2>2
    <3>2. S \subseteq 1 .. 20 /\ S # {}
      BY <3>1, Zenon
    <3> HIDE DEF S
    <3>3. PICK n \in S : \A m \in S : n <= m
      <4>1. S \subseteq Nat
        BY <3>2
      <4> QED BY <4>1, <3>2, LeastElement
    <3>4. n \in 1 .. 20 /\ path[n + 1].x <= tx
      BY <3>3 DEF S
    <3>5. path[n].x >= tx
      <4>1. CASE n = 1
        BY <1>1, <2>2, <4>1
      <4>2. CASE n # 1
        <5>1. n - 1 \in 1 .. 20 /\ n - 1 \notin S
          BY <3>3, <3>4, <4>2
        <5>2. (n - 1) + 1 = n
          BY <3>4
        <5>3. ~(path[n].x <= tx)
          BY <5>1, <5>2 DEF S
        <5> QED BY <1>1, <3>4, <5>3
      <4> QED BY <4>1, <4>2
    <3>6. n \in Spanning(path, tx)
      BY <1>1, <3>4, <3>5 DEF Spanning, MinOf, MaxOf
    <3> QED BY <3>6
  <2> QED BY <1>1, <2>1, <2>2
<1>4. \E k \in Spanning(path, tx) : \A l \in Spanning(path, tx) : k <= l
  <2>1. Spanning(path, tx) \subseteq Nat
    BY <1>2
  <2> QED BY <2>1, <1>3, LeastElement
<1>5. /\ FirstSpanning(path, tx) \in Spanning(path, tx)
      /\ \A l \in Spanning(path, tx) : FirstSpanning(path, tx) <= l
  BY <1>4 DEF FirstSpanning
<1> QED BY <1>2, <1>3, <1>5, SMTT(40)

\* a point that a segment spans, from its ends
LEMMA BetweenPoints ==
  ASSUME NEW ax \in Int, NEW bx \in Int, NEW tx \in Int,
         MinOf(ax, bx) <= tx, tx <= MaxOf(ax, bx),
         NEW l, l = (IF ax = bx THEN 1 ELSE Distance(ax, bx)), NEW t, t = Distance(tx, ax)
  PROVE  l \in Nat /\ l > 0 /\ t \in 0 .. l /\ l * (tx - ax) = t * (bx - ax)
<1>1. CASE ax = bx
  BY <1>1 DEF Distance, MinOf, MaxOf
<1>2. CASE ax < bx
  BY <1>2 DEF Distance, MinOf, MaxOf
<1>3. CASE ax > bx
  BY <1>3 DEF Distance, MinOf, MaxOf
<1> QED BY <1>1, <1>2, <1>3

\* the interpolated waypoint is on the line but for rounding
LEMMA WaypointOnLine ==
  ASSUME NEW start \in Place, NEW goal \in Place, NEW path, Straight(path, start, goal),
         NEW tx \in Int, NEW i \in Spanning(path, tx), i \in 1 .. 20
  PROVE  Distance((Interpolated(path[i], path[i + 1], tx) - start.y) * (goal.x - start.x),
                  (tx - start.x) * (goal.y - start.y))
           <= 2 * Distance(goal.x - start.x, 0) + Distance(goal.y - start.y, 0)
<1> DEFINE dx == goal.x - start.x
           dy == goal.y - start.y
           ax == path[i].x
           ay == path[i].y
           bx == path[i + 1].x
           by == path[i + 1].y
           y == Interpolated(path[i], path[i + 1], tx)
           k == i - 1
           sx == start.x
           sy == start.y
<1>1. sx \in Int /\ sy \in Int /\ dx \in Int /\ dy \in Int
  BY DEF Place
<1>2. i + 1 \in 1 .. 21 /\ i \in 1 .. 21 /\ (i + 1) - 1 = k + 1 /\ k \in Int
  OBVIOUS
<1>3. ax \in Int /\ ay \in Int /\ bx \in Int /\ by \in Int
  BY <1>2, SMTT(40) DEF Straight
<1>4. /\ \E r \in 0 .. 19 : 20 * (ax - sx) = k * dx - r
      /\ \E s \in 0 .. 19 : 20 * (ay - sy) = k * dy - s
  BY <1>2, SMTT(40) DEF Straight
<1>5. /\ \E r \in 0 .. 19 : 20 * (bx - sx) = (k + 1) * dx - r
      /\ \E s \in 0 .. 19 : 20 * (by - sy) = (k + 1) * dy - s
  <2>1. /\ \E r \in 0 .. 19 : 20 * (bx - sx) = ((i + 1) - 1) * dx - r
        /\ \E s \in 0 .. 19 : 20 * (by - sy) = ((i + 1) - 1) * dy - s
    BY <1>2 DEF Straight
  <2> QED BY <1>2, <2>1
<1>6. MinOf(ax, bx) <= tx /\ tx <= MaxOf(ax, bx)
  BY DEF Spanning
<1>7. y = IF ax = bx THEN ay ELSE ay + (Distance(tx, ax) * (by - ay)) \div Distance(ax, bx)
  BY DEF Interpolated
<1> HIDE DEF dx, dy, ax, ay, bx, by, y, k, sx, sy
<1> DEFINE l == IF ax = bx THEN 1 ELSE Distance(ax, bx)
           t == Distance(tx, ax)
           q == IF ax = bx THEN 0 ELSE (t * (by - ay)) \div l
<1>8. l \in Nat /\ l > 0 /\ t \in 0 .. l /\ l * (tx - ax) = t * (bx - ax)
  BY <1>3, <1>6, BetweenPoints
<1>9. y = ay + q
  BY <1>3, <1>7
<1>10. q \in Int /\ l * q <= t * (by - ay) /\ t * (by - ay) < l * q + l
  <2>1. CASE ax = bx
    <3>1. t = 0 /\ l = 1 /\ q = 0
      BY <1>3, <1>6, <2>1 DEF Distance, MinOf, MaxOf
    <3> QED BY <1>3, <3>1
  <2>2. CASE ax # bx
    <3>1. t * (by - ay) \in Int /\ q = (t * (by - ay)) \div l
      BY <1>3, <1>8, <2>2
    <3> HIDE DEF t, l, q
    <3> QED BY <1>8, <3>1, DivBounds
  <2> QED BY <2>1, <2>2
<1> HIDE DEF l, t, q
<1> DEFINE a == ax - sx
           a2 == bx - sx
           b == ay - sy
           b2 == by - sy
           u == tx - ax
<1>11. a \in Int /\ a2 \in Int /\ b \in Int /\ b2 \in Int /\ u \in Int
  BY <1>1, <1>3
<1>12. PICK r \in 0 .. 19 : 20 * a = k * dx - r
  BY <1>4
<1>13. PICK s \in 0 .. 19 : 20 * b = k * dy - s
  BY <1>4
<1>14. PICK r2 \in 0 .. 19 : 20 * a2 = k * dx + dx - r2
  BY <1>1, <1>2, <1>5
<1>15. PICK s2 \in 0 .. 19 : 20 * b2 = k * dy + dy - s2
  BY <1>1, <1>2, <1>5
<1>16. l * u = t * (a2 - a) /\ l * q <= t * (b2 - b) /\ t * (b2 - b) < l * q + l
  <2>1. a2 - a = bx - ax /\ b2 - b = by - ay
    BY <1>1, <1>3
  <2> HIDE DEF a, a2, b, b2
  <2> QED BY <1>8, <1>10, <2>1
<1>17. tx - sx = a + u /\ y - sy = b + q
  BY <1>1, <1>3, <1>9, <1>10
<1> HIDE DEF a, a2, b, b2, u
<1>18. Distance((b + q) * dx, (a + u) * dy) <= 2 * Distance(dx, 0) + Distance(dy, 0)
  <2> USE <1>1, <1>2, <1>8, <1>10, <1>11, <1>12, <1>13, <1>14, <1>15, <1>16
  <2> DEFINE e == t * (b2 - b) - l * q
             A == (l - t) * r + t * r2
             B == (l - t) * s + t * s2 + 20 * e
             E == (b + q) * dx - (a + u) * dy
  <2>1. e \in 0 .. l - 1
    OBVIOUS
  <2>2. A \in 0 .. 19 * l
    <3>1. (l - t) * r \in 0 .. 19 * (l - t)
      OBVIOUS
    <3>2. t * r2 \in 0 .. 19 * t
      OBVIOUS
    <3> QED BY <3>1, <3>2
  <2>3. B \in 0 .. 39 * l
    <3>1. (l - t) * s \in 0 .. 19 * (l - t)
      OBVIOUS
    <3>2. t * s2 \in 0 .. 19 * t
      OBVIOUS
    <3> QED BY <3>1, <3>2, <2>1
  <2>4. 20 * l * E = A * dy - B * dx
    <3>1. 20 * (b * dx - a * dy) = r * dy - s * dx
      <4>1. (20 * b) * dx - (20 * a) * dy = (k * dy - s) * dx - (k * dx - r) * dy
        OBVIOUS
      <4> QED BY <4>1
    <3>2. 20 * l * q * dx = t * (dy - s2 + s) * dx - 20 * e * dx
      <4>1. l * q = t * (b2 - b) - e
        OBVIOUS
      <4>2. 20 * (b2 - b) = dy - s2 + s
        OBVIOUS
      <4>3. 20 * (l * q) = t * (20 * (b2 - b)) - 20 * e
        BY <4>1
      <4>4. 20 * (l * q) = t * (dy - s2 + s) - 20 * e
        BY <4>2, <4>3
      <4>5. (20 * (l * q)) * dx = (t * (dy - s2 + s) - 20 * e) * dx
        BY <4>4
      <4> HIDE DEF e
      <4> QED BY <4>5, <2>1
    <3>3. 20 * l * u * dy = t * (dx - r2 + r) * dy
      <4>1. 20 * (a2 - a) = dx - r2 + r
        OBVIOUS
      <4>2. 20 * (l * u) = t * (dx - r2 + r)
        BY <4>1
      <4> QED BY <4>2
    <3>4. 20 * l * E = l * (20 * (b * dx - a * dy)) + 20 * l * q * dx - 20 * l * u * dy
      OBVIOUS
    <3>5. 20 * l * E = l * (r * dy - s * dx) + (t * (dy - s2 + s) * dx - 20 * e * dx)
                         - t * (dx - r2 + r) * dy
      BY <3>1, <3>2, <3>3, <3>4
    <3> HIDE DEF e
    <3> QED BY <3>5, <2>1
  <2>5. E \in Int
    OBVIOUS
  <2> HIDE DEF A, B, E, e
  <2>6. /\ 20 * l * E <= 19 * l * Distance(dy, 0) + 39 * l * Distance(dx, 0)
        /\ -(19 * l * Distance(dy, 0) + 39 * l * Distance(dx, 0)) <= 20 * l * E
    <3>1. /\ A * dy <= 19 * l * Distance(dy, 0)
          /\ -(19 * l * Distance(dy, 0)) <= A * dy
      <4>1. CASE dy >= 0
        BY <2>2, <4>1 DEF Distance
      <4>2. CASE dy < 0
        BY <2>2, <4>2 DEF Distance
      <4> QED BY <4>1, <4>2
    <3>2. /\ B * dx <= 39 * l * Distance(dx, 0)
          /\ -(39 * l * Distance(dx, 0)) <= B * dx
      <4>1. CASE dx >= 0
        BY <2>3, <4>1 DEF Distance
      <4>2. CASE dx < 0
        BY <2>3, <4>2 DEF Distance
      <4> QED BY <4>1, <4>2
    <3>3. A * dy \in Int /\ B * dx \in Int /\ 20 * l * E \in Int
      BY <2>2, <2>3, <2>5
    <3> QED BY <2>4, <3>1, <3>2, <3>3 DEF Distance
  <2>7. E <= 2 * Distance(dx, 0) + Distance(dy, 0) /\ -E <= 2 * Distance(dx, 0) + Distance(dy, 0)
    <3> DEFINE X == Distance(dx, 0)
               Y == Distance(dy, 0)
    <3>1. X \in Nat /\ Y \in Nat
      BY DEF Distance
    <3> HIDE DEF X, Y
    <3>2. 20 * l * E <= 20 * l * (2 * X + Y) /\ -(20 * l * (2 * X + Y)) <= 20 * l * E
      BY <2>5, <2>6, <3>1 DEF X, Y
    <3>3. l * E <= l * (2 * X + Y) /\ l * (-E) <= l * (2 * X + Y)
      BY <3>1, <3>2, <2>5
    <3> QED BY <3>1, <3>3, <2>5 DEF X, Y
  <2> QED BY <2>5, <2>7 DEF E, Distance
<1> QED BY <1>17, <1>18 DEF dx, dy, y, sx, sy

\* and stays at the start's y if the path is vertical
LEMMA WaypointStays ==
  ASSUME NEW start \in Place, NEW goal \in Place, NEW path, Straight(path, start, goal),
         NEW tx \in Int, tx = start.x, start.x = goal.x,
         NEW i \in Spanning(path, tx), i \in 1 .. 20,
         \A l \in Spanning(path, tx) : i <= l
  PROVE  Interpolated(path[i], path[i + 1], tx) = start.y
<1>1. start.x \in Int
  BY DEF Place
<1>2. \A k \in {1, 2} : path[k].x = start.x
  <2> SUFFICES ASSUME NEW k \in {1, 2} PROVE path[k].x = start.x
    OBVIOUS
  <2>1. k \in 1 .. 21
    OBVIOUS
  <2>2. path[k].x \in Int
    BY <2>1, SMTT(40) DEF Straight
  <2>3. PICK r \in 0 .. 19 : 20 * (path[k].x - start.x) = (k - 1) * (goal.x - start.x) - r
    BY <2>1 DEF Straight
  <2>4. (k - 1) * (goal.x - start.x) = 0
    BY <1>1
  <2>5. 20 * (path[k].x - start.x) = 0 - r
    BY <2>3, <2>4
  <2> QED BY <1>1, <2>2, <2>5
<1>3. 1 \in Spanning(path, tx)
  <2>1. Len(path) = 21 /\ 1 + 1 = 2
    BY DEF Straight
  <2> QED BY <1>1, <1>2, <2>1 DEF Spanning, MinOf, MaxOf
<1>4. i = 1
  BY <1>3
<1> QED BY <1>2, <1>4 DEF Interpolated, Straight

\* WaypointAhead, of one leg
Waypoint(start, goal, x, velocity) ==
  LET path == ComputePath(start, goal)
      tx == TargetX(path, x, velocity)
      y == WaypointY(path, x, velocity)
      dx == goal.x - start.x
      dy == goal.y - start.y
  IN IF dx = 0 THEN y = start.y
     ELSE /\ Distance((y - start.y) * dx, (tx - start.x) * dy)
               <= 2 * Distance(dx, 0) + Distance(dy, 0)
          /\ \/ tx = goal.x
             \/ Distance(tx, goal.x) + 120 <= Distance(x, goal.x)
             \/ tx = start.x /\ Distance(x, goal.x) > Distance(tx, goal.x)

\* both, for the waypoint of any leg
LEMMA WaypointOfLeg ==
  ASSUME NEW start \in Place, NEW goal \in Place, NEW x \in Int, NEW velocity \in Int
  PROVE  Waypoint(start, goal, x, velocity)
<1> DEFINE path == ComputePath(start, goal)
           tx == TargetX(path, x, velocity)
           i == FirstSpanning(path, tx)
<1>1. Straight(path, start, goal)
  BY PathPoints
<1>2. /\ tx \in Int
      /\ start.x <= goal.x => tx \in start.x .. goal.x
      /\ start.x > goal.x => tx \in goal.x .. start.x
      /\ \/ tx = goal.x
         \/ Distance(tx, goal.x) + 120 <= Distance(x, goal.x)
         \/ tx = start.x /\ Distance(x, goal.x) > Distance(tx, goal.x)
  BY Target
<1>3. WaypointY(path, x, velocity)
        = IF Spanning(path, tx) = {} THEN path[Len(path)].y
          ELSE Interpolated(path[i], path[i + 1], tx)
  BY DEF WaypointY
<1>4. start.x \in Int /\ goal.x \in Int
  BY DEF Place
<1> HIDE DEF path, tx
<1>5. /\ Spanning(path, tx) # {} /\ i \in Spanning(path, tx) /\ i \in 1 .. 20
      /\ \A l \in Spanning(path, tx) : i <= l
  BY <1>1, <1>2, Spanned
<1>6. WaypointY(path, x, velocity) = Interpolated(path[i], path[i + 1], tx)
  BY <1>3, <1>5
<1> HIDE DEF i
<1>7. CASE goal.x - start.x = 0
  <2>1. tx = start.x /\ start.x = goal.x
    BY <1>2, <1>4, <1>7
  <2>2. Interpolated(path[i], path[i + 1], tx) = start.y
    BY <1>1, <1>2, <1>5, <2>1, WaypointStays
  <2> QED BY <1>6, <1>7, <2>2 DEF Waypoint, path, tx
<1>8. CASE goal.x - start.x # 0
  <2>1. Distance((Interpolated(path[i], path[i + 1], tx) - start.y) * (goal.x - start.x),
                 (tx - start.x) * (goal.y - start.y))
          <= 2 * Distance(goal.x - start.x, 0) + Distance(goal.y - start.y, 0)
    BY <1>1, <1>2, <1>5, WaypointOnLine
  <2> QED BY <1>2, <1>6, <1>8, <2>1 DEF Waypoint, path, tx
<1> QED BY <1>7, <1>8

-----------------------------------------------------------------------------
(***************************************************************************)
(* The angles that a capsule is published with.                            *)
(***************************************************************************)
\* the samples of a capsule, by kind
LEMMA Counts ==
  /\ Samples["express"] = 32 /\ Samples["ultra"] = 96
  /\ Samples["dense"] = 40 /\ Samples["ultra_dense"] = 64
BY DEF Samples

\* the turn in q6 and the 16 bits, without their values
LEMMA Bounds == Turn6 \in Int /\ 23039 < Turn6 /\ Full \in Int /\ 65535 < Full
BY SMT DEF Turn6, Full

\* what lies in a turn
LEMMA TurnRange ==
  ASSUME NEW a \in Int, 0 <= a, a <= 23039
  PROVE  a \in 0 .. Turn6 - 1
BY Bounds

\* what fits 16 bits
LEMMA FullRange ==
  ASSUME NEW z \in Int, 0 <= z, z <= 65535
  PROVE  z \in 0 .. Full - 1
BY Bounds

\* the angle from a capsule to the next one
LEMMA Advanced ==
  ASSUME NEW start \in 0 .. Turn6 - 1, NEW advance \in 1 .. Turn6 - 1,
         NEW cur, cur = Onward(start, advance)
  PROVE  /\ cur \in 0 .. Turn6 - 1
         /\ cur = start + advance \/ cur = start + advance - Turn6
         /\ Diff8(start, cur) = 4 * advance
<1>1. CASE start + advance < Turn6
  <2>1. cur = start + advance
    BY <1>1, SMTT(40) DEF Onward
  <2>2. ~(start > cur)
    BY <2>1, SMTT(40) DEF Turn6
  <2>3. cur \in 0 .. Turn6 - 1
    <3>1. cur \in Int /\ 0 <= cur /\ cur <= 23039
      BY <1>1, <2>1, SMTT(40) DEF Turn6
    <3> QED BY <3>1, TurnRange
  <2>4. Diff8(start, cur) = (cur - start) * 4
    BY <2>1, <2>2 DEF Turn6, Diff8
  <2> QED BY <2>1, <2>3, <2>4
<1>2. CASE ~(start + advance < Turn6)
  <2>1. cur = start + advance - Turn6
    BY <1>2, SMTT(40) DEF Onward
  <2>2. start > cur /\ cur \in Int /\ 0 <= cur /\ cur <= 23039
    BY <1>2, <2>1, SMT DEF Turn6
  <2>3. Diff8(start, cur) = 4 * advance
    BY <2>1, <2>2, SMT DEF Turn6, Diff8
  <2> QED BY <2>1, <2>2, <2>3, TurnRange
<1> QED BY <1>1, <1>2

\* the steps of a capsule's samples lead to its end, but for their rounding
LEMMA Steps ==
  ASSUME NEW kind \in Kinds, NEW advance \in 1 .. Turn6 - 1,
         NEW inc, inc = Inc(kind, 4 * advance)
  PROVE  /\ inc \in Nat /\ inc > 0
         /\ Samples[kind] * inc \in 1024 * advance - 64 .. 1024 * advance
         /\ kind = "express" => Samples[kind] * inc = 1024 * advance
         /\ kind = "ultra" => (Samples[kind] * inc = 1024 * advance <=> (advance * 32) % 3 = 0)
<1>1. advance \in Nat /\ advance > 0
  OBVIOUS
<1>2. CASE kind = "express"
  <2>1. inc = advance * 32 /\ Samples[kind] = 32
    BY <1>1, <1>2, Counts DEF Inc
  <2> QED BY <1>1, <1>2, <2>1
<1>3. CASE kind = "ultra"
  <2>1. inc = (advance * 32) \div 3 /\ Samples[kind] = 96
    BY <1>1, <1>3, Counts DEF Inc
  <2>2. 96 * inc \in 1024 * advance - 64 .. 1024 * advance /\ inc > 0
    BY <1>1, <2>1
  <2>3. 96 * inc = 1024 * advance <=> (advance * 32) % 3 = 0
    BY <1>1, <2>1
  <2> QED BY <1>1, <1>3, <2>1, <2>2, <2>3
<1>4. CASE kind = "dense"
  <2>1. inc = (advance * 1024) \div 40 /\ Samples[kind] = 40
    BY <1>1, <1>4, Counts DEF Inc
  <2> QED BY <1>1, <1>4, <2>1
<1>5. CASE kind = "ultra_dense"
  <2>1. inc = (advance * 1024) \div 64 /\ Samples[kind] = 64
    BY <1>1, <1>5, Counts DEF Inc
  <2> QED BY <1>1, <1>5, <2>1
<1> QED BY <1>2, <1>3, <1>4, <1>5 DEF Kinds

\* no advance is one the dense handlers drop
Fastest == 4544

\* the assumption on the advances, for any start
LEMMA Slow ==
  ASSUME NEW advance \in Advances
  PROVE  /\ advance \in 1 .. Fastest
         /\ advance \in 1 .. Turn6 - 1
         /\ \A from, cur : Diff8(from, cur) = 4 * advance =>
              ~TooFar(from, cur, 40, SampleDuration) /\ ~TooFar(from, cur, 32, SampleDuration)
<1>1. advance \in 1 .. Turn6 - 1 /\ ~TooFar(0, advance, 32, SampleDuration)
  BY AlgorithmsAssumption DEF AlgorithmsAssumption
<1>2. advance \in Nat /\ advance > 0
  BY <1>1 DEF Turn6
<1>3. /\ ((36000 * 32) \div (1000000 \div SampleDuration)) * 256 = 4 * Fastest
      /\ ((36000 * 40) \div (1000000 \div SampleDuration)) * 256 = 22784
  BY DEF SampleDuration, Fastest
<1>4. Diff8(0, advance) = 4 * advance
  BY <1>2 DEF Diff8
<1>5. ~(4 * advance > 4 * Fastest)
  BY <1>1, <1>3, <1>4 DEF TooFar
<1>6. ~(4 * advance > 22784)
  BY <1>2, <1>5 DEF Fastest
<1>7. advance \in 1 .. Fastest
  BY <1>2, <1>5 DEF Fastest
<1> QED BY <1>1, <1>3, <1>5, <1>6, <1>7 DEF TooFar

\* an angle in the turn fits 16 bits when it is published
LEMMA AngleZBounds ==
  ASSUME NEW a \in Int, 0 <= a, a <= 23039
  PROVE  AngleZ(a) \in Int /\ 0 <= AngleZ(a) /\ AngleZ(a) <= 65535
<1>1. a * 256 \in Int /\ 0 <= a * 256 /\ a * 256 <= 5897984
  BY SMT
<1>2. ASSUME NEW n \in Int, 0 <= n, n <= 5897984
      PROVE  n \div 90 \in Int /\ 0 <= n \div 90 /\ n \div 90 <= 65535
  BY <1>2, SMT
<1> QED BY <1>1, <1>2, SMT DEF AngleZ

\* one correction brings an angle at most a turn outside back
LEMMA NormalAngle ==
  ASSUME NEW e \in Int, -Turn6 <= e, e < 2 * Turn6
  PROVE  /\ Normal6(e) \in Int /\ 0 <= Normal6(e) /\ Normal6(e) <= 23039
         /\ (Normal6(e) - e) % Turn6 = 0
<1>1. Normal6(e) \in Int /\ 0 <= Normal6(e) /\ Normal6(e) <= 23039
  BY SMT DEF Normal6, Turn6
<1>2. (Normal6(e) - e) % Turn6 = 0
  <2>1. 0 % Turn6 = 0 /\ Turn6 % Turn6 = 0 /\ (-Turn6) % Turn6 = 0
    BY SMT DEF Turn6
  <2>2. Normal6(e) - e = 0 \/ Normal6(e) - e = Turn6 \/ Normal6(e) - e = -Turn6
    BY SMT DEF Normal6, Turn6
  <2> QED BY <2>1, <2>2, Zenon
<1> QED BY <1>1, <1>2

\* the offsets of the samples the model makes up
IsOffset(x) == x \in Int /\ -1400000 <= x /\ x <= 530000

\* the dense handlers' samples have none
LEMMA NoOffset == IsOffset(0)
BY SMTT(40) DEF IsOffset

\* the offsets are small
LEMMA Offsets ==
  /\ \A j \in DOMAIN BitsOf : IsOffset(ExpressOffset16(BitsOf[j]))
  /\ \A j \in DOMAIN DistanceOf : IsOffset(UltraOffset16(DistanceOf[j]))
  /\ DOMAIN BitsOf = 0 .. 31 /\ DOMAIN DistanceOf = 0 .. 95
<1>1. DOMAIN BitsOf = 0 .. 31 /\ DOMAIN DistanceOf = 0 .. 95
  BY DEF BitsOf, DistanceOf, Samples
<1>2. ASSUME NEW j \in DOMAIN BitsOf
      PROVE  IsOffset(ExpressOffset16(BitsOf[j]))
  <2>1. BitsOf[j] = (j * 5) % 64 /\ j \in Nat
    BY <1>1, <1>2 DEF BitsOf
  <2>2. BitsOf[j] \in 0 .. 63
    BY <2>1
  <2>3. \A bits \in 0 .. 63 : IsOffset(ExpressOffset16(bits))
    BY SMT DEF ExpressOffset16, IsOffset
  <2> QED BY <2>2, <2>3
<1>3. ASSUME NEW j \in DOMAIN DistanceOf
      PROVE  IsOffset(UltraOffset16(DistanceOf[j]))
  <2>1. DistanceOf[j] = <<0, 199, 200, 400, 65000>>[(j % 5) + 1] /\ j \in Nat
    BY <1>1, <1>3 DEF DistanceOf
  <2>2. j % 5 \in 0 .. 4
    BY <2>1
  <2>3. \/ DistanceOf[j] = 0
        \/ DistanceOf[j] = 199
        \/ DistanceOf[j] = 200
        \/ DistanceOf[j] = 400
        \/ DistanceOf[j] = 65000
    BY <2>1, <2>2, SMT
  <2>4. IsOffset((8578 * 57296) \div 1000)
    BY SMT DEF IsOffset
  <2>5. UltraOffset16(0) = (8578 * 57296) \div 1000 /\ UltraOffset16(199) = (8578 * 57296) \div 1000
    BY SMT DEF UltraOffset16
  <2>6. IsOffset(UltraOffset16(200))
    BY SMT DEF UltraOffset16, IsOffset
  <2>7. IsOffset(UltraOffset16(400))
    BY SMT DEF UltraOffset16, IsOffset
  <2>8. IsOffset(UltraOffset16(65000))
    BY SMT DEF UltraOffset16, IsOffset
  <2> QED BY <2>3, <2>4, <2>5, <2>6, <2>7, <2>8, SMT
<1> QED BY <1>1, <1>2, <1>3

\* a sample's angle before correction is at most a turn outside
LEMMA SampleAngle ==
  ASSUME NEW kind \in Kinds, NEW from \in 0 .. Turn6 - 1, NEW advance \in 1 .. Fastest,
         NEW inc, inc = Inc(kind, 4 * advance),
         NEW j \in 0 .. Samples[kind] - 1, NEW offset, IsOffset(offset)
  PROVE  LET e == (from * 1024 + j * inc - offset) \div 1024
         IN e \in Int /\ -Turn6 <= e /\ e < 2 * Turn6
<1>1. advance \in 1 .. Turn6 - 1 /\ advance <= 4544 /\ advance \in Nat
  BY DEF Fastest, Turn6
<1>2. inc \in Nat /\ Samples[kind] \in Nat /\ Samples[kind] * inc <= 1024 * advance
  <2>1. Samples[kind] \in Nat
    BY Counts DEF Kinds
  <2> QED BY <1>1, <2>1, Steps
<1>3. j \in Nat /\ j * inc \in Nat /\ j * inc <= Samples[kind] * inc
  BY <1>2
<1>4. j * inc <= 1024 * 4544
  BY <1>1, <1>2, <1>3
<1>5. from \in Nat /\ from <= 23039
  BY DEF Turn6
<1> DEFINE n == from * 1024 + j * inc - offset
<1>6. n \in Int /\ -530000 <= n /\ n <= 29645000
  BY <1>3, <1>4, <1>5, SMT DEF IsOffset
<1> HIDE DEF n
<1>7. n \div 1024 \in Int /\ -518 <= n \div 1024 /\ n \div 1024 < 46080
  BY <1>6
<1> QED BY <1>7, SMTT(40) DEF n, Turn6

\* what a sample's angle has to be
AngleInTurn(angle, exact) ==
  /\ angle \in 0 .. Turn6 - 1
  /\ (angle - exact) % Turn6 = 0
  /\ AngleZ(angle) \in 0 .. Full - 1

\* and is in the turn after it
LEMMA NormalInTurn ==
  ASSUME NEW e \in Int, -Turn6 <= e, e < 2 * Turn6
  PROVE  AngleInTurn(Normal6(e), e)
<1>1. /\ Normal6(e) \in Int /\ 0 <= Normal6(e) /\ Normal6(e) <= 23039
      /\ (Normal6(e) - e) % Turn6 = 0
  BY NormalAngle
<1>2. Normal6(e) \in 0 .. Turn6 - 1
  BY <1>1, TurnRange
<1>3. AngleZ(Normal6(e)) \in 0 .. Full - 1
  BY <1>1, AngleZBounds, FullRange
<1> QED BY <1>1, <1>2, <1>3 DEF AngleInTurn

Raw(from, inc, j, offset) == (from * 1024 + j * inc - offset) \div 1024

\* the angle that a sample is published with
LEMMA PublishedAngle ==
  ASSUME NEW kind \in Kinds, NEW from \in 0 .. Turn6 - 1, NEW advance \in 1 .. Fastest,
         NEW j \in 0 .. Samples[kind] - 1, NEW marks, NEW offset16, IsOffset(offset16[j])
  PROVE  AngleInTurn(Publish(kind, from, Inc(kind, 4 * advance), marks, offset16).angle[j],
                     Raw(from, Inc(kind, 4 * advance), j, offset16[j]))
<1> DEFINE inc == Inc(kind, 4 * advance)
           e == Raw(from, inc, j, offset16[j])
<1>1. Publish(kind, from, inc, marks, offset16).angle[j] = Normal6(e)
  BY Zenon DEF Publish, Raw
<1>2. e \in Int /\ -Turn6 <= e /\ e < 2 * Turn6
  BY SampleAngle DEF Raw
<1>3. AngleInTurn(Normal6(e), e)
  <2> HIDE DEF e
  <2> QED BY <1>2, NormalInTurn
<1> QED BY <1>1, <1>3, Zenon

\* the offset of a sample that the model makes up
OffsetOf(kind, j) ==
  CASE kind = "express" -> ExpressOffset16(BitsOf[j])
    [] kind = "ultra" -> UltraOffset16(DistanceOf[j])
    [] OTHER -> 0

AnglesOf(angle, kind, from, inc) ==
  /\ DOMAIN angle = 0 .. Samples[kind] - 1
  /\ \A j \in 0 .. Samples[kind] - 1 :
       AngleInTurn(angle[j], Raw(from, inc, j, OffsetOf(kind, j)))

\* those of all samples that Publish makes
LEMMA AnglesOfCapsule ==
  ASSUME NEW kind \in Kinds, NEW from \in 0 .. Turn6 - 1, NEW advance \in 1 .. Fastest,
         NEW marks, NEW offset16,
         \A j \in 0 .. Samples[kind] - 1 :
           IsOffset(offset16[j]) /\ offset16[j] = OffsetOf(kind, j)
  PROVE  AnglesOf(Publish(kind, from, Inc(kind, 4 * advance), marks, offset16).angle,
                  kind, from, Inc(kind, 4 * advance))
<1> DEFINE angle == Publish(kind, from, Inc(kind, 4 * advance), marks, offset16).angle
<1>1. DOMAIN angle = 0 .. Samples[kind] - 1
  BY DEF Publish
<1>2. ASSUME NEW j \in 0 .. Samples[kind] - 1
      PROVE  AngleInTurn(angle[j], Raw(from, Inc(kind, 4 * advance), j, OffsetOf(kind, j)))
  <2>1. IsOffset(offset16[j]) /\ offset16[j] = OffsetOf(kind, j)
    OBVIOUS
  <2>2. AngleInTurn(angle[j], Raw(from, Inc(kind, 4 * advance), j, offset16[j]))
    BY <2>1, PublishedAngle
  <2> QED BY <2>1, <2>2, Zenon
<1> HIDE DEF angle
<1>3. AnglesOf(angle, kind, from, Inc(kind, 4 * advance))
  BY <1>1, <1>2, Zenon DEF AnglesOf
<1> QED BY <1>3 DEF angle

\* those of a capsule of any kind
LEMMA CapsuleAngles ==
  ASSUME case.kind \in Kinds, case.from \in 0 .. Turn6 - 1, NEW advance \in Advances,
         case.start = Onward(case.from, advance)
  PROVE  AnglesOf(Capsule(case.from, case.start, FALSE).angle, case.kind, case.from,
                  Inc(case.kind, 4 * advance))
<1> DEFINE from == case.from
           cur == case.start
           Angles(kind, capsule) == AnglesOf(capsule.angle, kind, from, Inc(kind, 4 * advance))
<1>1. /\ advance \in 1 .. Fastest /\ advance \in 1 .. Turn6 - 1
      /\ \A a, b : Diff8(a, b) = 4 * advance =>
              ~TooFar(a, b, 40, SampleDuration) /\ ~TooFar(a, b, 32, SampleDuration)
  BY Slow
<1>2. Diff8(from, cur) = 4 * advance
  BY <1>1, Advanced
<1>3. ~TooFar(from, cur, 40, SampleDuration) /\ ~TooFar(from, cur, 32, SampleDuration)
  BY <1>1, <1>2
<1>4. from \in 0 .. Turn6 - 1
  OBVIOUS
<1>5. \A kind \in Kinds : \A marks, offset16 :
        (\A j \in 0 .. Samples[kind] - 1 :
            IsOffset(offset16[j]) /\ offset16[j] = OffsetOf(kind, j))
        => Angles(kind, Publish(kind, from, Inc(kind, 4 * advance), marks, offset16))
  BY <1>1, <1>4, AnglesOfCapsule
<1>6. \A prev, next :
        /\ case.kind = "express" => Capsule(prev, next, FALSE) = ExpressCapsule(prev, next, BitsOf)
        /\ case.kind = "ultra" => Capsule(prev, next, FALSE) = UltraCapsule(prev, next, DistanceOf)
        /\ case.kind = "dense" =>
             Capsule(prev, next, FALSE) = DenseCapsule(prev, next, FALSE, SampleDuration)
        /\ case.kind = "ultra_dense" =>
             Capsule(prev, next, FALSE) = UltraDenseCapsule(prev, next, FALSE, SampleDuration)
  BY DEF Capsule
<1> HIDE DEF from, cur, Angles
<1>7. CASE case.kind = "express"
  <2> DEFINE offset16 == [j \in DOMAIN BitsOf |-> ExpressOffset16(BitsOf[j])]
             marks == Marked("express", from, cur, FALSE)
  <2>1. ExpressCapsule(from, cur, BitsOf)
          = Publish("express", from, Inc("express", 4 * advance), marks, offset16)
    BY <1>2, Zenon DEF ExpressCapsule
  <2>2. \A j \in 0 .. Samples["express"] - 1 :
          IsOffset(offset16[j]) /\ offset16[j] = OffsetOf("express", j)
    BY Offsets, Counts DEF OffsetOf
  <2> HIDE DEF offset16, marks
  <2>3. Angles("express", ExpressCapsule(from, cur, BitsOf))
    BY <1>5, <2>1, <2>2 DEF Kinds
  <2> QED BY <1>6, <1>7, <2>3 DEF Angles, from, cur
<1>8. CASE case.kind = "ultra"
  <2> DEFINE offset16 == [j \in DOMAIN DistanceOf |-> UltraOffset16(DistanceOf[j])]
             marks == Marked("ultra", from, cur, FALSE)
  <2>1. UltraCapsule(from, cur, DistanceOf)
          = Publish("ultra", from, Inc("ultra", 4 * advance), marks, offset16)
    BY <1>2, Zenon DEF UltraCapsule
  <2>2. \A j \in 0 .. Samples["ultra"] - 1 :
          IsOffset(offset16[j]) /\ offset16[j] = OffsetOf("ultra", j)
    BY Offsets, Counts DEF OffsetOf
  <2> HIDE DEF offset16, marks
  <2>3. Angles("ultra", UltraCapsule(from, cur, DistanceOf))
    BY <1>5, <2>1, <2>2 DEF Kinds
  <2> QED BY <1>6, <1>8, <2>3 DEF Angles, from, cur
<1>9. CASE case.kind = "dense"
  <2> DEFINE offset16 == [j \in 0 .. 39 |-> 0]
             marks == Marked("dense", from, cur, FALSE)
  <2>1. DenseCapsule(from, cur, FALSE, SampleDuration)
          = Publish("dense", from, Inc("dense", 4 * advance), marks, offset16)
    BY <1>2, <1>3 DEF DenseCapsule
  <2>2. \A j \in 0 .. Samples["dense"] - 1 :
          IsOffset(offset16[j]) /\ offset16[j] = OffsetOf("dense", j)
    BY Counts, NoOffset DEF OffsetOf
  <2> HIDE DEF offset16, marks
  <2>3. Angles("dense", DenseCapsule(from, cur, FALSE, SampleDuration))
    BY <1>5, <2>1, <2>2 DEF Kinds
  <2> QED BY <1>6, <1>9, <2>3 DEF Angles, from, cur
<1>10. CASE case.kind = "ultra_dense"
  <2> DEFINE offset16 == [j \in 0 .. 63 |-> 0]
             marks == Marked("ultra_dense", from, cur, FALSE)
  <2>1. UltraDenseCapsule(from, cur, FALSE, SampleDuration)
          = Publish("ultra_dense", from, Inc("ultra_dense", 4 * advance), marks, offset16)
    BY <1>2, <1>3 DEF UltraDenseCapsule
  <2>2. \A j \in 0 .. Samples["ultra_dense"] - 1 :
          IsOffset(offset16[j]) /\ offset16[j] = OffsetOf("ultra_dense", j)
    BY Counts, NoOffset DEF OffsetOf
  <2> HIDE DEF offset16, marks
  <2>3. Angles("ultra_dense", UltraDenseCapsule(from, cur, FALSE, SampleDuration))
    BY <1>5, <2>1, <2>2 DEF Kinds
  <2> QED BY <1>6, <1>10, <2>3 DEF Angles, from, cur
<1> QED BY <1>7, <1>8, <1>9, <1>10 DEF Kinds

-----------------------------------------------------------------------------
(***************************************************************************)
(* The distances and the times.                                            *)
(***************************************************************************)
\* the five scales of _varbitscale_decode, from the top
Scale(value, level) == [value |-> value, level |-> level]

\* which scale a code has
LEMMA Scales ==
  ASSUME NEW s \in Nat
  PROVE  /\ 3328 <= s => VarBitScale(s) = Scale(16384 + (s - 3328) * 16, 4)
         /\ 1792 <= s /\ s < 3328 => VarBitScale(s) = Scale(4096 + (s - 1792) * 8, 3)
         /\ 1280 <= s /\ s < 1792 => VarBitScale(s) = Scale(2048 + (s - 1280) * 4, 2)
         /\ 512 <= s /\ s < 1280 => VarBitScale(s) = Scale(512 + (s - 512) * 2, 1)
         /\ s < 512 => VarBitScale(s) = Scale(s, 0)
<1> DEFINE In(k) == s >= ScaleBase[k] /\ \A l \in 1 .. k - 1 : s < ScaleBase[l]
           i == CHOOSE k \in 1 .. 5 : In(k)
<1>1. /\ ScaleBase[1] = 3328 /\ ScaleBase[2] = 1792 /\ ScaleBase[3] = 1280
      /\ ScaleBase[4] = 512 /\ ScaleBase[5] = 0
  BY DEF ScaleBase
<1>2. /\ TargetBase[1] = 16384 /\ TargetBase[2] = 4096 /\ TargetBase[3] = 2048
      /\ TargetBase[4] = 512 /\ TargetBase[5] = 0
  BY DEF TargetBase
<1>3. /\ ScaleLevel[1] = 4 /\ ScaleLevel[2] = 3 /\ ScaleLevel[3] = 2
      /\ ScaleLevel[4] = 1 /\ ScaleLevel[5] = 0
  BY DEF ScaleLevel
<1>4. 2 ^ 4 = 16 /\ 2 ^ 3 = 8 /\ 2 ^ 2 = 4 /\ 2 ^ 1 = 2 /\ 2 ^ 0 = 1
  OBVIOUS
<1>5. /\ In(1) <=> s >= 3328
      /\ In(2) <=> s >= 1792 /\ s < 3328
      /\ In(3) <=> s >= 1280 /\ s < 1792
      /\ In(4) <=> s >= 512 /\ s < 1280
      /\ In(5) <=> s < 512
  <2>1. /\ 1 .. 1 - 1 = {} /\ 1 .. 2 - 1 = {1} /\ 1 .. 3 - 1 = {1, 2} /\ 1 .. 4 - 1 = {1, 2, 3}
        /\ 1 .. 5 - 1 = {1, 2, 3, 4}
    OBVIOUS
  <2> QED BY <1>1, <2>1
<1>6. VarBitScale(s) = Scale(TargetBase[i] + (s - ScaleBase[i]) * 2 ^ ScaleLevel[i], ScaleLevel[i])
  BY DEF VarBitScale, Scale
<1>7. \A k \in 1 .. 5 : In(k) /\ (\A l \in 1 .. 5 : In(l) => l = k) => i = k
  OBVIOUS
<1>8. 1 .. 5 = {1, 2, 3, 4, 5}
  OBVIOUS
<1> HIDE DEF In, i
<1>9. ASSUME 3328 <= s PROVE VarBitScale(s) = Scale(16384 + (s - 3328) * 16, 4)
  <2>1. i = 1
    BY <1>5, <1>7, <1>8, <1>9
  <2>2. VarBitScale(s) = Scale(TargetBase[1] + (s - ScaleBase[1]) * 2 ^ ScaleLevel[1], ScaleLevel[1])
    BY <1>6, <2>1
  <2> QED BY <1>1, <1>2, <1>3, <1>4, <2>2
<1>10. ASSUME 1792 <= s, s < 3328 PROVE VarBitScale(s) = Scale(4096 + (s - 1792) * 8, 3)
  <2>1. i = 2
    BY <1>5, <1>7, <1>8, <1>10
  <2>2. VarBitScale(s) = Scale(TargetBase[2] + (s - ScaleBase[2]) * 2 ^ ScaleLevel[2], ScaleLevel[2])
    BY <1>6, <2>1
  <2> QED BY <1>1, <1>2, <1>3, <1>4, <2>2
<1>11. ASSUME 1280 <= s, s < 1792 PROVE VarBitScale(s) = Scale(2048 + (s - 1280) * 4, 2)
  <2>1. i = 3
    BY <1>5, <1>7, <1>8, <1>11
  <2>2. VarBitScale(s) = Scale(TargetBase[3] + (s - ScaleBase[3]) * 2 ^ ScaleLevel[3], ScaleLevel[3])
    BY <1>6, <2>1
  <2> QED BY <1>1, <1>2, <1>3, <1>4, <2>2
<1>12. ASSUME 512 <= s, s < 1280 PROVE VarBitScale(s) = Scale(512 + (s - 512) * 2, 1)
  <2>1. i = 4
    BY <1>5, <1>7, <1>8, <1>12
  <2>2. VarBitScale(s) = Scale(TargetBase[4] + (s - ScaleBase[4]) * 2 ^ ScaleLevel[4], ScaleLevel[4])
    BY <1>6, <2>1
  <2> QED BY <1>1, <1>2, <1>3, <1>4, <2>2
<1>13. ASSUME s < 512 PROVE VarBitScale(s) = Scale(s, 0)
  <2>1. i = 5
    BY <1>5, <1>7, <1>8, <1>13
  <2>2. VarBitScale(s) = Scale(TargetBase[5] + (s - ScaleBase[5]) * 2 ^ ScaleLevel[5], ScaleLevel[5])
    BY <1>6, <2>1
  <2> QED BY <1>1, <1>2, <1>3, <1>4, <2>2
<1> QED BY <1>9, <1>10, <1>11, <1>12, <1>13

\* the code after is the distance one step further
LEMMA ScalesAdjoin ==
  ASSUME NEW s \in Nat
  PROVE  /\ VarBitScale(s).value \in Nat
         /\ VarBitScale(s).level \in {0, 1, 2, 3, 4}
         /\ VarBitScale(s + 1).value = VarBitScale(s).value + 2 ^ VarBitScale(s).level
<1>1. 2 ^ 4 = 16 /\ 2 ^ 3 = 8 /\ 2 ^ 2 = 4 /\ 2 ^ 1 = 2 /\ 2 ^ 0 = 1
  OBVIOUS
<1>2. CASE 3328 <= s
  <2>1. VarBitScale(s) = Scale(16384 + (s - 3328) * 16, 4)
    BY <1>2, Scales
  <2>2. VarBitScale(s + 1) = Scale(16384 + (s + 1 - 3328) * 16, 4)
    <3>1. s + 1 \in Nat /\ 3328 <= s + 1
      BY <1>2
    <3> QED BY <3>1, Scales
  <2> QED BY <1>1, <1>2, <2>1, <2>2 DEF Scale
<1>3. CASE 1792 <= s /\ s < 3328
  <2>1. VarBitScale(s) = Scale(4096 + (s - 1792) * 8, 3)
    BY <1>3, Scales
  <2>2. CASE s + 1 < 3328
    <3>1. s + 1 \in Nat /\ 1792 <= s + 1
      BY <1>3
    <3>2. VarBitScale(s + 1) = Scale(4096 + (s + 1 - 1792) * 8, 3)
      BY <2>2, <3>1, Scales
    <3> QED BY <1>1, <1>3, <2>1, <3>2 DEF Scale
  <2>3. CASE s = 3327
    <3>1. VarBitScale(3328) = Scale(16384, 4)
      BY Scales
    <3> QED BY <1>1, <2>1, <2>3, <3>1 DEF Scale
  <2> QED BY <1>3, <2>2, <2>3
<1>4. CASE 1280 <= s /\ s < 1792
  <2>1. VarBitScale(s) = Scale(2048 + (s - 1280) * 4, 2)
    BY <1>4, Scales
  <2>2. CASE s + 1 < 1792
    <3>1. s + 1 \in Nat /\ 1280 <= s + 1
      BY <1>4
    <3>2. VarBitScale(s + 1) = Scale(2048 + (s + 1 - 1280) * 4, 2)
      BY <2>2, <3>1, Scales
    <3> QED BY <1>1, <1>4, <2>1, <3>2 DEF Scale
  <2>3. CASE s = 1791
    <3>1. VarBitScale(1792) = Scale(4096, 3)
      BY Scales
    <3> QED BY <1>1, <2>1, <2>3, <3>1 DEF Scale
  <2> QED BY <1>4, <2>2, <2>3
<1>5. CASE 512 <= s /\ s < 1280
  <2>1. VarBitScale(s) = Scale(512 + (s - 512) * 2, 1)
    BY <1>5, Scales
  <2>2. CASE s + 1 < 1280
    <3>1. s + 1 \in Nat /\ 512 <= s + 1
      BY <1>5
    <3>2. VarBitScale(s + 1) = Scale(512 + (s + 1 - 512) * 2, 1)
      BY <2>2, <3>1, Scales
    <3> QED BY <1>1, <1>5, <2>1, <3>2 DEF Scale
  <2>3. CASE s = 1279
    <3>1. VarBitScale(1280) = Scale(2048, 2)
      BY Scales
    <3> QED BY <1>1, <2>1, <2>3, <3>1 DEF Scale
  <2> QED BY <1>5, <2>2, <2>3
<1>6. CASE s < 512
  <2>1. VarBitScale(s) = Scale(s, 0)
    BY <1>6, Scales
  <2>2. CASE s + 1 < 512
    <3>1. s + 1 \in Nat
      BY <1>6
    <3>2. VarBitScale(s + 1) = Scale(s + 1, 0)
      BY <2>2, <3>1, Scales
    <3> QED BY <1>1, <1>6, <2>1, <3>2 DEF Scale
  <2>3. CASE s = 511
    <3>1. VarBitScale(512) = Scale(512, 1)
      BY Scales
    <3> QED BY <1>1, <2>1, <2>3, <3>1 DEF Scale
  <2> QED BY <1>6, <2>2, <2>3
<1> QED BY <1>2, <1>3, <1>4, <1>5, <1>6

\* the three distances of a cabin
LEMMA CabinDistances ==
  ASSUME NEW s \in Nat, NEW v, v = VarBitScale(s).value
  PROVE  /\ UltraDistances(s, 0, 0, 511) = <<4 * v, 4 * v, 0>>
         /\ UltraDistances(0, s, 0, 0) = <<0, 4 * v, 4 * v>>
<1>1. VarBitScale(0) = [value |-> 0, level |-> 0]
  BY Scales DEF Scale
<1>2. v \in Nat /\ VarBitScale(s).level \in {0, 1, 2, 3, 4}
  BY ScalesAdjoin
<1>3. 2 ^ 4 = 16 /\ 2 ^ 3 = 8 /\ 2 ^ 2 = 4 /\ 2 ^ 1 = 2 /\ 2 ^ 0 = 1
  OBVIOUS
<1>4. 0 * 2 ^ VarBitScale(s).level = 0 /\ 0 * 2 ^ 0 = 0
  BY <1>2, <1>3
<1>5. ~Failed(0) /\ Failed(511)
  BY DEF Failed
<1>6. UltraDistances(s, 0, 0, 511) = <<v * 4, (0 * 2 ^ VarBitScale(s).level + v) * 4, 0>>
  BY <1>1, <1>5 DEF UltraDistances
<1>7. CASE v = 0
  <2>1. UltraDistances(0, s, 0, 0) = <<0 * 4, (0 * 2 ^ 0 + 0) * 4, (0 * 2 ^ VarBitScale(s).level + 0) * 4>>
    BY <1>1, <1>5, <1>7 DEF UltraDistances
  <2> QED BY <1>2, <1>4, <1>6, <1>7, <2>1
<1>8. CASE v # 0
  <2>1. UltraDistances(0, s, 0, 0)
          = <<0 * 4, (0 * 2 ^ VarBitScale(s).level + v) * 4, (0 * 2 ^ VarBitScale(s).level + v) * 4>>
    BY <1>1, <1>5, <1>8 DEF UltraDistances
  <2> QED BY <1>2, <1>4, <1>6, <1>8, <2>1
<1> QED BY <1>7, <1>8

\* DistancesAdjoin, of the ultra dense distances
Near(field) ==
  /\ \A scale \in 0 .. 2 :
       UltraDenseDistance(scale, ScaleField[scale + 1]) = ScaleStart[scale + 2]
  /\ \A last \in {0, 8, 200, 8184} :
       Distance(Smoothed(last, 0, UltraDenseDistance(0, field)),
                UltraDenseDistance(0, field)) <= 4

\* the scales of the ultra dense distances
LEMMA NearScales ==
  ASSUME NEW k \in Nat, k <= 1023
  PROVE  Near(4 * k)
<1>1. /\ ScaleStep[1] = 2 /\ ScaleStep[2] = 3 /\ ScaleStep[3] = 4 /\ ScaleStep[4] = 5
      /\ ScaleField[1] = 4092 /\ ScaleField[2] = 8188 /\ ScaleField[3] = 16380
      /\ ScaleStart[1] = 0 /\ ScaleStart[2] = 8184 /\ ScaleStart[3] = 32748 /\ ScaleStart[4] = 98268
  BY DEF ScaleStep, ScaleField, ScaleStart
<1>2. \A scale \in 0 .. 2 :
        UltraDenseDistance(scale, ScaleField[scale + 1]) = ScaleStart[scale + 2]
  <2>1. 0 .. 2 = {0, 1, 2}
    OBVIOUS
  <2> QED BY <1>1, <2>1 DEF UltraDenseDistance
<1>3. ASSUME NEW last \in {0, 8, 200, 8184}
      PROVE  Distance(Smoothed(last, 0, UltraDenseDistance(0, 4 * k)),
                      UltraDenseDistance(0, 4 * k)) <= 4
  <2> DEFINE d == UltraDenseDistance(0, 4 * k)
  <2>1. d \in Nat /\ last \in Nat
    BY <1>1 DEF UltraDenseDistance
  <2> HIDE DEF d
  <2>2. CASE last # 0 /\ d - last \in -8 .. 8
    <3>1. Smoothed(last, 0, d) = (d + last) \div 2
      BY <2>2 DEF Smoothed
    <3>2. (d + last) \div 2 - d <= 4 /\ d - (d + last) \div 2 <= 4
      BY <2>1, <2>2
    <3> QED BY <2>1, <3>1, <3>2 DEF Distance, d
  <2>3. CASE ~(last # 0 /\ d - last \in -8 .. 8)
    <3>1. Smoothed(last, 0, d) = d
      BY <2>3 DEF Smoothed
    <3> QED BY <2>1, <3>1 DEF Distance, d
  <2> QED BY <2>2, <2>3
<1>4. \A last \in {0, 8, 200, 8184} :
        Distance(Smoothed(last, 0, UltraDenseDistance(0, 4 * k)),
                 UltraDenseDistance(0, 4 * k)) <= 4
  BY <1>3
<1> QED BY <1>2, <1>4 DEF Near

Timing == [duration : Nat, linkage : Nat, baud : Nat, ethernet : BOOLEAN]

\* the delay of the line is a number
LEMMA Transmission ==
  ASSUME NEW timing \in Timing, NEW size \in Nat, NEW baud \in Nat, baud > 0
  PROVE  TransmissionDelay(timing, size, baud) \in Nat
<1>1. \A n, b \in Nat : b > 0 => n \div b \in Nat
  OBVIOUS
<1>2. timing.baud \in Nat /\ 10000000 * size \in Nat
  BY DEF Timing
<1>3. (IF timing.baud # 0 THEN timing.baud ELSE baud) \in Nat \ {0}
  BY <1>2
<1> QED BY <1>1, <1>2, <1>3 DEF TransmissionDelay

\* a delay, by the samples that follow
LEMMA DelayValue ==
  ASSUME NEW timing \in Timing, NEW size \in Nat, NEW baud \in Nat, baud > 0
  PROVE  \E base \in Nat :
           /\ base >= timing.duration
           /\ \A n \in Int :
                Delay(timing, size, baud, n)
                  = [high |-> IF n * timing.duration < 0 THEN 1 ELSE 0,
                     low |-> base + n * timing.duration]
<1> DEFINE base == timing.duration + (timing.duration \div 2) + timing.linkage
                     + TransmissionDelay(timing, size, baud)
<1>1. timing.duration \in Nat /\ timing.linkage \in Nat
  BY DEF Timing
<1>2. timing.duration \div 2 \in Nat
  BY <1>1
<1>3. TransmissionDelay(timing, size, baud) \in Nat
  BY Transmission
<1>4. base \in Nat /\ base >= timing.duration
  BY <1>1, <1>2, <1>3
<1>5. \A n : Delay(timing, size, baud, n)
               = [high |-> IF n * timing.duration < 0 THEN 1 ELSE 0,
                  low |-> base + n * timing.duration]
  BY DEF Delay
<1> HIDE DEF base
<1> QED BY <1>4, <1>5

\* of the messages that have one sample
LEMMA DelayOfOne ==
  ASSUME NEW timing \in Timing, NEW size \in Nat, NEW baud \in Nat, baud > 0
  PROVE  /\ Delay(timing, size, baud, 0).high = 0
         /\ Delay(timing, size, baud, 0).low >= timing.duration
<1>1. PICK base \in Nat :
        /\ base >= timing.duration
        /\ \A n \in Int :
             Delay(timing, size, baud, n)
               = [high |-> IF n * timing.duration < 0 THEN 1 ELSE 0,
                  low |-> base + n * timing.duration]
  BY DelayValue
<1>2. timing.duration \in Nat /\ 0 * timing.duration = 0
  BY DEF Timing
<1>3. Delay(timing, size, baud, 0)
        = [high |-> IF 0 * timing.duration < 0 THEN 1 ELSE 0, low |-> base + 0 * timing.duration]
  BY <1>1
<1> QED BY <1>1, <1>2, <1>3

\* TimesAscend, of one kind of capsule
Ascends(kind, timing) ==
  LET delay(j) == SampleDelay(kind, timing, j)
      sound == IF kind = "ultra_dense" THEN 32 ELSE Samples[kind]
  IN /\ \A j \in 1 .. Samples[kind] - 1 :
          delay(j - 1).low - delay(j).low = timing.duration
     /\ \A j \in 0 .. sound - 1 : delay(j).high = 0
     /\ \A d \in {LegacyDelay(timing), HQDelay(timing), delay(sound - 1)} :
          d.high = 0 /\ d.low >= timing.duration

\* the delay of sample j is that of n - j samples after it
CountsBack(kind, timing, n, size, baud) ==
  /\ n \in Nat /\ size \in Nat /\ baud \in Nat
  /\ baud > 0
  /\ Samples[kind] \in Nat
  /\ n + 1 = IF kind = "ultra_dense" THEN 32 ELSE Samples[kind]
  /\ \A j \in Int : SampleDelay(kind, timing, j) = Delay(timing, size, baud, n - j)

\* the delays of consecutive samples differ by one duration
LEMMA AscendsBack ==
  ASSUME NEW kind, NEW timing \in Timing, NEW n, NEW size, NEW baud,
         CountsBack(kind, timing, n, size, baud)
  PROVE  Ascends(kind, timing)
<1> DEFINE sound == IF kind = "ultra_dense" THEN 32 ELSE Samples[kind]
<1>0. /\ n \in Nat /\ size \in Nat /\ baud \in Nat
      /\ baud > 0 /\ n + 1 = sound
      /\ Samples[kind] \in Nat
      /\ \A j \in Int : SampleDelay(kind, timing, j) = Delay(timing, size, baud, n - j)
  BY DEF CountsBack
<1> HIDE DEF sound
<1>1. PICK base \in Nat :
        /\ base >= timing.duration
        /\ \A m \in Int :
             Delay(timing, size, baud, m)
               = [high |-> IF m * timing.duration < 0 THEN 1 ELSE 0,
                  low |-> base + m * timing.duration]
  BY <1>0, DelayValue
<1>2. timing.duration \in Nat
  BY DEF Timing
<1>3. \A j \in Int :
        /\ SampleDelay(kind, timing, j).low = base + (n - j) * timing.duration
        /\ SampleDelay(kind, timing, j).high = IF (n - j) * timing.duration < 0 THEN 1 ELSE 0
  <2> SUFFICES ASSUME NEW j \in Int
               PROVE  /\ SampleDelay(kind, timing, j).low = base + (n - j) * timing.duration
                      /\ SampleDelay(kind, timing, j).high
                           = IF (n - j) * timing.duration < 0 THEN 1 ELSE 0
    OBVIOUS
  <2>1. n - j \in Int
    BY <1>0
  <2> QED BY <1>0, <1>1, <2>1
<1>4. ASSUME NEW j \in 1 .. Samples[kind] - 1
      PROVE  SampleDelay(kind, timing, j - 1).low - SampleDelay(kind, timing, j).low
               = timing.duration
  <2>1. j \in Int /\ j - 1 \in Int
    BY <1>0
  <2>2. (n - (j - 1)) * timing.duration = (n - j) * timing.duration + timing.duration
    BY <1>0, <1>2, <2>1
  <2>3. (n - j) * timing.duration \in Int
    BY <1>0, <1>2, <2>1
  <2> QED BY <1>0, <1>2, <1>3, <2>1, <2>2, <2>3
<1>5. ASSUME NEW j \in 0 .. sound - 1
      PROVE  SampleDelay(kind, timing, j).high = 0
  <2>1. j \in Int /\ n - j \in Nat
    BY <1>0
  <2>2. (n - j) * timing.duration \in Nat
    BY <1>2, <2>1
  <2> QED BY <1>3, <2>1, <2>2
<1>6. \A d \in {LegacyDelay(timing), HQDelay(timing)} : d.high = 0 /\ d.low >= timing.duration
  <2>1. /\ LegacyDelay(timing).high = 0 /\ LegacyDelay(timing).low >= timing.duration
        /\ HQDelay(timing).high = 0 /\ HQDelay(timing).low >= timing.duration
    BY DelayOfOne DEF LegacyDelay, HQDelay
  <2> QED BY <2>1
<1>7. /\ SampleDelay(kind, timing, sound - 1).high = 0
      /\ SampleDelay(kind, timing, sound - 1).low >= timing.duration
  <2>1. sound - 1 = n /\ n - n = 0 /\ 0 * timing.duration = 0
    BY <1>0, <1>2
  <2> QED BY <1>0, <1>1, <1>2, <1>3, <2>1
<1> QED BY <1>4, <1>5, <1>6, <1>7, Zenon DEF Ascends, sound

\* for every kind of capsule
LEMMA TimesOfKinds ==
  ASSUME NEW kind \in Kinds, NEW timing \in Timing
  PROVE  Ascends(kind, timing)
<1>1. /\ Samples["express"] = 32 /\ Samples["ultra"] = 96
      /\ Samples["dense"] = 40 /\ Samples["ultra_dense"] = 64
  BY DEF Samples
<1>2. CASE kind = "express"
  <2>1. \A j \in Int : SampleDelay("express", timing, j) = Delay(timing, 84, 115200, 31 - j)
    BY DEF SampleDelay, ExpressDelay
  <2>2. CountsBack("express", timing, 31, 84, 115200)
    BY <1>1, <2>1 DEF CountsBack
  <2> QED BY <1>2, <2>2, AscendsBack
<1>3. CASE kind = "ultra"
  <2>1. \A j \in Int : SampleDelay("ultra", timing, j) = Delay(timing, 132, 256000, 95 - j)
    BY DEF SampleDelay, UltraBoostDelay
  <2>2. CountsBack("ultra", timing, 95, 132, 256000)
    BY <1>1, <2>1 DEF CountsBack
  <2> QED BY <1>3, <2>2, AscendsBack
<1>4. CASE kind = "dense"
  <2>1. \A j \in Int : SampleDelay("dense", timing, j) = Delay(timing, 84, 256000, 39 - j)
    BY DEF SampleDelay, DenseDelay
  <2>2. CountsBack("dense", timing, 39, 84, 256000)
    BY <1>1, <2>1 DEF CountsBack
  <2> QED BY <1>4, <2>2, AscendsBack
<1>5. CASE kind = "ultra_dense"
  <2>1. \A j \in Int : SampleDelay("ultra_dense", timing, j) = Delay(timing, 170, 1000000, 31 - j)
    BY DEF SampleDelay, UltraDenseDelay
  <2>2. CountsBack("ultra_dense", timing, 31, 170, 1000000)
    BY <1>1, <2>1 DEF CountsBack
  <2> QED BY <1>5, <2>2, AscendsBack
<1> QED BY <1>2, <1>3, <1>4, <1>5 DEF Kinds

-----------------------------------------------------------------------------
(***************************************************************************)
(* A scan in the order of its angles.  Sorted counts for each reading the  *)
(* ones before it and itself, so that its places are a permutation.        *)
(***************************************************************************)
\* the order of the readings, by angle and then by place
Earlier(scan, i, j) ==
  \/ scan[i].angle < scan[j].angle
  \/ scan[i].angle = scan[j].angle /\ i < j

\* angles are integers
LEMMA FullAngle == \A a \in 0 .. Full - 1 : a \in Int
OBVIOUS

\* what a scan is made of
LEMMA Readings ==
  ASSUME NEW scan \in Seq(Measured)
  PROVE  /\ Len(scan) \in Nat /\ DOMAIN scan = 1 .. Len(scan)
         /\ \A i \in DOMAIN scan : /\ scan[i] \in Measured /\ i \in Int
                                   /\ scan[i].angle \in 0 .. Full - 1
                                   /\ scan[i].angle \in Int
<1>1. Len(scan) \in Nat /\ DOMAIN scan = 1 .. Len(scan)
  OBVIOUS
<1>2. ASSUME NEW i \in DOMAIN scan
      PROVE  scan[i] \in Measured /\ i \in Int
  BY <1>1
<1>3. \A r \in Measured : r.angle \in 0 .. Full - 1
  BY DEF Measured
<1> QED BY <1>1, <1>2, <1>3, FullAngle

\* what goes before a reading, in that order
LEMMA UpToOrder ==
  ASSUME NEW scan \in Seq(Measured), NEW i \in DOMAIN scan, NEW j \in DOMAIN scan
  PROVE  j \in UpTo(scan, i) <=> (j = i \/ Earlier(scan, j, i))
BY Readings DEF UpTo, Earlier, AngleLessThan

\* how many that are is a place in the scan
LEMMA UpToFinite ==
  ASSUME NEW scan \in Seq(Measured), NEW i \in DOMAIN scan
  PROVE  /\ UpTo(scan, i) \subseteq DOMAIN scan
         /\ IsFiniteSet(UpTo(scan, i))
         /\ Cardinality(UpTo(scan, i)) \in DOMAIN scan
<1> DEFINE S == UpTo(scan, i)
<1>1. S \subseteq DOMAIN scan
  BY DEF UpTo
<1>2. IsFiniteSet(1 .. Len(scan)) /\ Cardinality(1 .. Len(scan)) = Len(scan)
  <2> DEFINE n == Len(scan)
  <2>1. n \in Nat
    BY Readings
  <2> HIDE DEF n
  <2>2. /\ IsFiniteSet(1 .. n)
        /\ Cardinality(1 .. n) = IF 1 > n THEN 0 ELSE n - 1 + 1
    BY <2>1, FS_Interval
  <2>3. Cardinality(1 .. n) = n
    BY <2>1, <2>2
  <2> QED BY <2>2, <2>3 DEF n
<1>3. IsFiniteSet(S) /\ Cardinality(S) <= Len(scan)
  BY <1>1, <1>2, Readings, FS_Subset
<1>4. i \in S
  BY UpToOrder
<1>5. Cardinality(S) \in Nat /\ Cardinality(S) # 0
  BY <1>3, <1>4, FS_CardinalityType, FS_EmptySet
<1> QED BY <1>1, <1>3, <1>5, Readings

\* a place behind those of the earlier readings
LEMMA UpToGrows ==
  ASSUME NEW scan \in Seq(Measured), NEW i \in DOMAIN scan, NEW j \in DOMAIN scan,
         Earlier(scan, i, j)
  PROVE  Cardinality(UpTo(scan, i)) < Cardinality(UpTo(scan, j))
<1> DEFINE S == UpTo(scan, i)
           T == UpTo(scan, j)
<1>1. ASSUME NEW k \in S
      PROVE  k \in T
  <2>1. k \in DOMAIN scan
    BY UpToFinite
  <2>2. k = i \/ Earlier(scan, k, i)
    BY <2>1, UpToOrder
  <2>3. Earlier(scan, k, j)
    BY <2>1, <2>2, Readings DEF Earlier
  <2> QED BY <2>1, <2>3, UpToOrder
<1>2. j \in T /\ j \notin S
  <2>1. ~Earlier(scan, j, i) /\ j # i
    BY Readings DEF Earlier
  <2> QED BY <2>1, UpToOrder
<1>3. /\ IsFiniteSet(S) /\ Cardinality(S) \in DOMAIN scan
      /\ IsFiniteSet(T) /\ Cardinality(T) \in DOMAIN scan
  BY UpToFinite
<1>4. S \in SUBSET T /\ S # T
  BY <1>1, <1>2
<1>5. Cardinality(S) <= Cardinality(T) /\ Cardinality(S) # Cardinality(T)
  BY <1>3, <1>4, FS_Subset
<1> QED BY <1>3, <1>5, Readings

\* so Sorted puts the readings in another order, by their angles
LEMMA SortedScan ==
  ASSUME NEW scan \in Seq(Measured)
  PROVE  \E order \in Bijection(DOMAIN scan, DOMAIN scan) :
           /\ Sorted(scan) = [k \in DOMAIN scan |-> scan[order[k]]]
           /\ \A k \in 1 .. Len(scan) - 1 : scan[order[k]].angle <= scan[order[k + 1]].angle
<1> DEFINE D == DOMAIN scan
           place == [i \in D |-> Cardinality(UpTo(scan, i))]
           order == [k \in D |-> CHOOSE i \in D : place[i] = k]
<1>1. place \in [D -> D]
  BY UpToFinite
<1>2. \A i, j \in D : Earlier(scan, i, j) => place[i] < place[j]
  BY UpToGrows
<1>3. \A i, j \in D : i = j \/ Earlier(scan, i, j) \/ Earlier(scan, j, i)
  BY Readings DEF Earlier
<1>4. \A k \in D : k \in Int
  BY Readings
<1>5. \A i, j \in D : place[i] = place[j] => i = j
  <2>1. \A i \in D : place[i] \in Int
    BY <1>1, <1>4
  <2> HIDE DEF place
  <2> QED BY <1>2, <1>3, <2>1
<1>6. \A k \in D : \E i \in D : place[i] = k
  <2>1. place \in Injection(D, D)
    BY <1>1, <1>5 DEF Injection, IsInjective
  <2>2. IsFiniteSet(D)
    BY Readings, FS_Interval
  <2>3. place \in Surjection(D, D)
    <3> HIDE DEF place, D
    <3> QED BY <2>1, <2>2, FS_Injection
  <2> QED BY <2>3 DEF Surjection
<1>7. Sorted(scan) = [k \in D |-> scan[order[k]]]
  BY DEF Sorted
<1> HIDE DEF place
<1>8. \A k \in D : order[k] \in D /\ place[order[k]] = k
  BY <1>6
<1>9. order \in [D -> D]
  BY <1>8
<1> HIDE DEF order
<1>10. order \in Bijection(D, D)
  <2>1. order \in Injection(D, D)
    BY <1>8, <1>9 DEF Injection, IsInjective
  <2>2. \A i \in D : order[place[i]] = i
    BY <1>1, <1>5, <1>8
  <2>3. order \in Surjection(D, D)
    BY <1>1, <1>9, <2>2 DEF Surjection
  <2> QED BY <2>1, <2>3 DEF Bijection
<1>11. ASSUME NEW k \in 1 .. Len(scan) - 1
       PROVE  scan[order[k]].angle <= scan[order[k + 1]].angle
  <2>1. k \in D /\ k + 1 \in D /\ k \in Int
    BY Readings
  <2>2. /\ order[k] \in D /\ order[k + 1] \in D
        /\ place[order[k]] = k /\ place[order[k + 1]] = k + 1
    BY <1>8, <2>1
  <2>3. ~Earlier(scan, order[k + 1], order[k])
    BY <1>2, <2>1, <2>2
  <2>4. scan[order[k]].angle \in Int /\ scan[order[k + 1]].angle \in Int
    BY <2>2, Readings
  <2> QED BY <2>3, <2>4 DEF Earlier
<1> QED BY <1>7, <1>10, <1>11

\* a reading's places
Where(scan, r) == {i \in DOMAIN scan : scan[i] = r}

\* and each as often as it was there
LEMMA SortedCounts ==
  ASSUME NEW scan \in Seq(Measured), NEW r
  PROVE  Cardinality(Where(Sorted(scan), r)) = Cardinality(Where(scan, r))
<1> DEFINE D == DOMAIN scan
           S == Where(Sorted(scan), r)
           T == Where(scan, r)
<1>1. PICK order \in Bijection(D, D) : Sorted(scan) = [k \in D |-> scan[order[k]]]
  BY SortedScan
<1>2. /\ order \in [D -> D]
      /\ \A i, j \in D : order[i] = order[j] => i = j
      /\ \A i \in D : \E k \in D : order[k] = i
  BY <1>1 DEF Bijection, Injection, Surjection, IsInjective
<1>3. S = {k \in D : scan[order[k]] = r}
  BY <1>1, <1>2 DEF Where
<1>4. T \subseteq D /\ S \subseteq D
  BY <1>3 DEF Where
<1> DEFINE back == [k \in S |-> order[k]]
<1>5. back \in Bijection(S, T)
  <2>1. back \in [S -> T]
    BY <1>2, <1>3 DEF Where
  <2>2. \A i, j \in S : back[i] = back[j] => i = j
    BY <1>2, <1>4
  <2>3. \A i \in T : \E k \in S : back[k] = i
    BY <1>2, <1>3, <1>4 DEF Where
  <2> HIDE DEF back, S, T
  <2>4. DOMAIN back = S
    BY <2>1
  <2>5. back \in Injection(S, T)
    BY <2>1, <2>2, <2>4 DEF Injection, IsInjective
  <2>6. back \in Surjection(S, T)
    BY <2>1, <2>3 DEF Surjection
  <2> QED BY <2>5, <2>6 DEF Bijection
<1>6. IsFiniteSet(S)
  BY <1>4, Readings, FS_Interval, FS_Subset
<1>7. ExistsBijection(S, T)
  BY <1>5 DEF ExistsBijection
<1>8. Cardinality(T) = Cardinality(S)
  <2> HIDE DEF S, T
  <2> QED BY <1>6, <1>7, FS_Bijection
<1> QED BY <1>8

\* what setAngle stores fits 16 bits
LEMMA StoredAngle ==
  ASSUME NEW a \in Int
  PROVE  Stored(a) \in 0 .. Full - 1
<1>1. Stored(a) \in Int /\ 0 <= Stored(a) /\ Stored(a) <= 65535
  BY DEF Stored, Full
<1> QED BY <1>1, FullRange

\* a reading whose angle is made up
MadeUp(r, a) == [r EXCEPT !.angle = a]

LEMMA NewAngle ==
  ASSUME NEW r \in Measured, NEW a, NEW b
  PROVE  /\ MadeUp(r, a).dist = r.dist
         /\ MadeUp(MadeUp(r, b), a).dist = r.dist
         /\ a \in 0 .. Full - 1 => /\ MadeUp(r, a) \in Measured
                                   /\ MadeUp(MadeUp(r, b), a) \in Measured
<1> DEFINE angles == 0 .. Full - 1
<1>1. Measured = [angle : angles, dist : Nat, quality : Nat]
  BY DEF Measured
<1> HIDE DEF angles
<1>2. /\ MadeUp(r, a).dist = r.dist
      /\ MadeUp(MadeUp(r, b), a).dist = r.dist
      /\ a \in angles => /\ MadeUp(r, a) \in Measured
                         /\ MadeUp(MadeUp(r, b), a) \in Measured
  BY <1>1 DEF MadeUp
<1> QED BY <1>2 DEF angles

\* as many readings as places
LEMMA MeasuredSeq ==
  ASSUME NEW n \in Nat, NEW f, f = [i \in 1 .. n |-> f[i]],
         \A i \in 1 .. n : f[i] \in Measured
  PROVE  f \in Seq(Measured) /\ Len(f) = n
<1>1. f \in [1 .. n -> Measured]
  OBVIOUS
<1> QED BY <1>1

\* the step between made-up angles
LEMMA StepBounds ==
  ASSUME NEW scan \in Seq(Measured), Len(scan) > 0
  PROVE  Step(scan) \in Nat
<1>1. Len(scan) \in Nat
  BY Readings
<1> QED BY <1>1 DEF Step, Full

\* the first and the last echo
LEMMA EchoesIn ==
  ASSUME NEW scan \in Seq(Measured), Echoes(scan) # {}
  PROVE  /\ Len(scan) > 0
         /\ Least(Echoes(scan)) \in Echoes(scan)
         /\ Greatest(Echoes(scan)) \in Echoes(scan)
         /\ \A i \in Echoes(scan) : Least(Echoes(scan)) <= i /\ i <= Greatest(Echoes(scan))
<1> DEFINE S == Echoes(scan)
           n == Len(scan)
<1>1. n \in Nat /\ S \subseteq 1 .. n
  BY Readings DEF Echoes
<1>2. n > 0
  BY <1>1
<1> HIDE DEF S, n
<1>3. S # {}
  BY DEF S
<1>4. S \subseteq Nat
  BY <1>1
<1>5. \E i \in S : \A j \in S : i <= j
  BY <1>3, <1>4, LeastElement
<1>6. \E i \in S : \A j \in S : j <= i
  BY <1>1, <1>3, GreatestElement
<1>7. Least(S) \in S /\ \A j \in S : Least(S) <= j
  BY <1>5 DEF Least
<1>8. Greatest(S) \in S /\ \A j \in S : j <= Greatest(S)
  BY <1>6 DEF Greatest
<1> QED BY <1>2, <1>7, <1>8 DEF S, n

\* the head's readings have no echo
LEMMA HeadTuned ==
  ASSUME NEW scan \in Seq(Measured), Echoes(scan) # {}
  PROVE  /\ TuneHead(scan) \in Seq(Measured) /\ Len(TuneHead(scan)) = Len(scan)
         /\ \A i \in DOMAIN scan :
              /\ TuneHead(scan)[i].dist = scan[i].dist
              /\ scan[i].dist # 0 => TuneHead(scan)[i] = scan[i]
<1> DEFINE n == Len(scan)
           first == Least(Echoes(scan))
           down(i) == scan[first].angle - (first - i) * Step(scan)
           made(i) == IF down(i) < 0 THEN 0 ELSE down(i)
           head == TuneHead(scan)
<1>1. /\ n \in Nat /\ DOMAIN scan = 1 .. n
      /\ first \in 1 .. n
      /\ \A i \in 1 .. n : scan[i].dist # 0 => first <= i
  BY Readings, EchoesIn DEF Echoes
<1>2. Step(scan) \in Nat
  BY EchoesIn, StepBounds
<1>3. scan[first].angle \in Int /\ scan[first].angle \in 0 .. Full - 1
  BY <1>1, Readings
<1>4. ASSUME NEW i \in 1 .. n, i < first
      PROVE  made(i) \in 0 .. Full - 1
  <2>1. (first - i) * Step(scan) \in Int /\ (first - i) * Step(scan) >= 0
    <3>1. first - i \in Nat
      BY <1>1, <1>4
    <3> HIDE DEF first
    <3> QED BY <1>2, <3>1
  <2>2. down(i) \in Int /\ down(i) <= scan[first].angle
    BY <1>3, <2>1
  <2>3. Full \in Int /\ Full > 0
    BY Bounds
  <2> HIDE DEF first, down
  <2> QED BY <1>3, <2>2, <2>3
<1>5. head = [i \in 1 .. n |-> IF i < first THEN MadeUp(scan[i], made(i)) ELSE scan[i]]
  BY <1>1 DEF TuneHead, MadeUp
<1> HIDE DEF head, made, first, n
<1>6. ASSUME NEW i \in 1 .. n
      PROVE  /\ head[i] \in Measured /\ head[i].dist = scan[i].dist
             /\ scan[i].dist # 0 => head[i] = scan[i]
  <2>1. scan[i] \in Measured
    BY <1>1, Readings
  <2>2. CASE i < first
    <3>1. head[i] = MadeUp(scan[i], made(i))
      BY <1>5, <2>2
    <3>2. made(i) \in 0 .. Full - 1
      BY <1>4, <2>2
    <3>3. ~(first <= i)
      BY <1>1, <2>2
    <3> QED BY <1>1, <2>1, <3>1, <3>2, <3>3, NewAngle
  <2>3. CASE ~(i < first)
    BY <1>5, <2>1, <2>3
  <2> QED BY <2>2, <2>3
<1>7. head \in Seq(Measured) /\ Len(head) = n
  <2>1. head = [i \in 1 .. n |-> head[i]]
    BY <1>5
  <2> QED BY <1>1, <1>6, <2>1, MeasuredSeq
<1> QED BY <1>1, <1>6, <1>7 DEF head, n

\* nor the tail's; their angles are made up once more
LEMMA TailTuned ==
  ASSUME NEW scan \in Seq(Measured), Echoes(scan) # {}
  PROVE  \E last \in DOMAIN scan :
           /\ \A i \in DOMAIN scan : scan[i].dist # 0 => i <= last
           /\ \E angle : TuneTail(scan) = [i \in DOMAIN scan |->
                IF i > last THEN MadeUp(scan[i], angle[i]) ELSE scan[i]]
<1>1. /\ Greatest(Echoes(scan)) \in DOMAIN scan
      /\ \A i \in DOMAIN scan : scan[i].dist # 0 => i <= Greatest(Echoes(scan))
  BY EchoesIn DEF Echoes
<1> DEFINE last == Greatest(Echoes(scan))
           angle[i \in last .. Len(scan)] ==
             IF i = last THEN scan[last].angle
             ELSE LET up == angle[i - 1] + Step(scan)
                  IN Stored(IF up > Full THEN up - Full ELSE up)
<1>2. TuneTail(scan) = [i \in DOMAIN scan |->
                          IF i > last THEN MadeUp(scan[i], angle[i]) ELSE scan[i]]
  BY DEF TuneTail, MadeUp
<1> HIDE DEF last, angle
<1> QED BY <1>1, <1>2 DEF last

\* what is sorted has the echoes where they were, and angles of 16 bits
LEMMA InvalidFilled ==
  ASSUME NEW scan \in Seq(Measured), Echoes(scan) # {}
  PROVE  LET filled == FillInvalid(TuneTail(TuneHead(scan)))
         IN /\ filled \in Seq(Measured) /\ Len(filled) = Len(scan)
            /\ \A i \in DOMAIN scan :
                 /\ filled[i].dist = scan[i].dist
                 /\ scan[i].dist # 0 => filled[i] = scan[i]
<1> DEFINE n == Len(scan)
           head == TuneHead(scan)
           tail == TuneTail(head)
           filled == FillInvalid(tail)
           up(i) == tail[1].angle + (i - 1) * Step(tail)
           made(i) == Stored(IF up(i) > Full THEN up(i) - Full ELSE up(i))
<1>1. /\ head \in Seq(Measured) /\ Len(head) = n
      /\ \A i \in DOMAIN scan : /\ head[i].dist = scan[i].dist
                                /\ scan[i].dist # 0 => head[i] = scan[i]
  BY HeadTuned
<1> HIDE DEF head
<1>2. n \in Nat /\ n > 0 /\ DOMAIN scan = 1 .. n /\ DOMAIN head = 1 .. n
  BY <1>1, Readings, EchoesIn
<1>3. Echoes(head) # {}
  BY <1>1, <1>2 DEF Echoes
<1>4. PICK last \in 1 .. n :
        /\ \A i \in 1 .. n : head[i].dist # 0 => i <= last
        /\ \E angle : tail = [i \in 1 .. n |->
             IF i > last THEN MadeUp(head[i], angle[i]) ELSE head[i]]
  <2>1. DOMAIN head = 1 .. n
    BY <1>2
  <2> HIDE DEF n, tail
  <2>2. \E last \in DOMAIN head :
          /\ \A i \in DOMAIN head : head[i].dist # 0 => i <= last
          /\ \E angle : tail = [i \in DOMAIN head |->
               IF i > last THEN MadeUp(head[i], angle[i]) ELSE head[i]]
    BY <1>1, <1>3, TailTuned DEF tail
  <2> QED BY <2>1, <2>2
<1>5. PICK angle :
        tail = [i \in 1 .. n |-> IF i > last THEN MadeUp(head[i], angle[i]) ELSE head[i]]
  BY <1>4
<1> HIDE DEF tail
<1>6. \A i \in 1 .. n : head[i] \in Measured /\ head[i].angle \in Int
  BY <1>1, <1>2, Readings
<1>7. /\ DOMAIN tail = 1 .. n /\ Len(tail) = n
      /\ tail[1] = head[1]
  BY <1>2, <1>4, <1>5
<1>8. Step(tail) \in Nat
  BY <1>2, <1>7 DEF Step, Full
<1>9. ASSUME NEW i \in 1 .. n
      PROVE  made(i) \in 0 .. Full - 1
  <2>1. up(i) \in Int
    <3>1. tail[1].angle \in Int
      BY <1>2, <1>6, <1>7
    <3>2. (i - 1) * Step(tail) \in Int
      BY <1>8
    <3> QED BY <3>1, <3>2
  <2> HIDE DEF up
  <2>2. (IF up(i) > Full THEN up(i) - Full ELSE up(i)) \in Int
    BY <2>1, Bounds
  <2> QED BY <2>2, StoredAngle
<1>10. filled = [i \in 1 .. n |-> IF i > 1 /\ tail[i].dist = 0
                                 THEN MadeUp(tail[i], made(i)) ELSE tail[i]]
  BY <1>7 DEF FillInvalid, MadeUp
<1> HIDE DEF made, filled
<1>11. ASSUME NEW i \in 1 .. n
       PROVE  /\ filled[i] \in Measured /\ filled[i].dist = head[i].dist
              /\ head[i].dist # 0 => filled[i] = head[i]
  <2>1. head[i] \in Measured
    BY <1>6
  <2>2. CASE i <= last
    <3>1. tail[i] = head[i]
      BY <1>4, <1>5, <2>2
    <3>2. CASE i > 1 /\ tail[i].dist = 0
      <4>1. filled[i] = MadeUp(head[i], made(i))
        BY <1>10, <3>1, <3>2
      <4>2. MadeUp(head[i], made(i)) \in Measured /\ MadeUp(head[i], made(i)).dist = head[i].dist
        BY <1>9, <2>1, NewAngle, ZenonT(40)
      <4> QED BY <3>1, <3>2, <4>1, <4>2
    <3>3. CASE ~(i > 1 /\ tail[i].dist = 0)
      BY <1>10, <2>1, <3>1, <3>3
    <3> QED BY <3>2, <3>3
  <2>3. CASE ~(i <= last)
    <3>1. i > last /\ i > 1 /\ head[i].dist = 0
      BY <1>4, <1>5, <2>3
    <3>2. tail[i] = MadeUp(head[i], angle[i])
      BY <1>4, <1>5, <3>1
    <3>3. tail[i].dist = 0
      BY <2>1, <3>1, <3>2, NewAngle, ZenonT(40)
    <3>4. filled[i] = MadeUp(MadeUp(head[i], angle[i]), made(i))
      BY <1>10, <3>1, <3>2, <3>3
    <3>5. filled[i] \in Measured /\ filled[i].dist = head[i].dist
      <4> DEFINE h == head[i]
                 a == made(i)
                 b == angle[i]
      <4>1. h \in Measured /\ a \in 0 .. Full - 1
        BY <1>9, <2>1
      <4>2. filled[i] = MadeUp(MadeUp(h, b), a)
        BY <3>4
      <4> HIDE DEF h, a, b
      <4>3. MadeUp(MadeUp(h, b), a).dist = h.dist /\ MadeUp(MadeUp(h, b), a) \in Measured
        BY <4>1, NewAngle, ZenonT(40)
      <4>4. filled[i] \in Measured /\ filled[i].dist = h.dist
        BY <4>2, <4>3
      <4> QED BY <4>4 DEF h
    <3> QED BY <3>1, <3>5
  <2> QED BY <2>2, <2>3
<1>12. filled \in Seq(Measured) /\ Len(filled) = n
  <2>1. filled = [i \in 1 .. n |-> filled[i]]
    BY <1>10
  <2> QED BY <1>2, <1>11, <2>1, MeasuredSeq
<1>13. /\ filled \in Seq(Measured) /\ Len(filled) = n
       /\ \A i \in DOMAIN scan : /\ filled[i].dist = scan[i].dist
                                 /\ scan[i].dist # 0 => filled[i] = scan[i]
  BY <1>1, <1>2, <1>11, <1>12
<1> QED BY <1>13 DEF filled, tail, head

\* readings with an echo are where they were
LEMMA FilledCounts ==
  ASSUME NEW scan \in Seq(Measured), NEW filled \in Seq(Measured), Len(filled) = Len(scan),
         \A i \in DOMAIN scan : /\ filled[i].dist = scan[i].dist
                                /\ scan[i].dist # 0 => filled[i] = scan[i],
         NEW r, r.dist # 0
  PROVE  Where(filled, r) = Where(scan, r)
<1>1. DOMAIN filled = DOMAIN scan
  BY Readings
<1>2. ASSUME NEW i \in DOMAIN scan
      PROVE  filled[i] = r <=> scan[i] = r
  <2>1. CASE scan[i].dist # 0
    BY <2>1
  <2>2. CASE scan[i].dist = 0
    <3>1. filled[i].dist = 0
      BY <2>2
    <3>2. filled[i] # r
      BY <3>1
    <3>3. scan[i] # r
      BY <2>2
    <3> QED BY <3>2, <3>3
  <2> QED BY <2>1, <2>2
<1> QED BY <1>1, <1>2, Zenon DEF Where

\* Ascend, on any scan
LEMMA Ascended ==
  ASSUME NEW scan \in Seq(Measured)
  PROVE  /\ Ascend(scan).ok <=> Echoes(scan) # {}
         /\ Ascend(scan).nodes \in Seq(Measured)
         /\ Len(Ascend(scan).nodes) = Len(scan)
         /\ \A r : r.dist # 0 =>
              Cardinality(Where(Ascend(scan).nodes, r)) = Cardinality(Where(scan, r))
         /\ Echoes(scan) # {} => \A i \in 1 .. Len(scan) - 1 :
              Ascend(scan).nodes[i].angle <= Ascend(scan).nodes[i + 1].angle
<1>1. CASE Echoes(scan) = {}
  <2>1. Ascend(scan) = [ok |-> FALSE, nodes |-> scan]
    BY <1>1 DEF Ascend
  <2>2. Ascend(scan).ok = FALSE /\ Ascend(scan).nodes = scan
    BY <2>1
  <2> QED BY <1>1, <2>2, Zenon
<1>2. CASE Echoes(scan) # {}
  <2> DEFINE filled == FillInvalid(TuneTail(TuneHead(scan)))
             nodes == Sorted(filled)
  <2>1. Ascend(scan).ok = TRUE /\ Ascend(scan).nodes = nodes
    <3>1. Ascend(scan) = [ok |-> TRUE, nodes |-> nodes]
      BY <1>2 DEF Ascend
    <3> HIDE DEF nodes
    <3> QED BY <3>1
  <2>2. /\ filled \in Seq(Measured) /\ Len(filled) = Len(scan)
        /\ \A i \in DOMAIN scan : /\ filled[i].dist = scan[i].dist
                                  /\ scan[i].dist # 0 => filled[i] = scan[i]
    BY <1>2, InvalidFilled
  <2> HIDE DEF filled
  <2>3. PICK order \in Bijection(DOMAIN filled, DOMAIN filled) :
          /\ nodes = [k \in DOMAIN filled |-> filled[order[k]]]
          /\ \A k \in 1 .. Len(filled) - 1 : filled[order[k]].angle <= filled[order[k + 1]].angle
    BY <2>2, SortedScan
  <2>4. order \in [DOMAIN filled -> DOMAIN filled]
    BY <2>3 DEF Bijection, Injection
  <2>5. \A r : r.dist # 0 => Cardinality(Where(nodes, r)) = Cardinality(Where(scan, r))
    BY <2>2, SortedCounts, FilledCounts
  <2> HIDE DEF nodes
  <2>6. nodes \in Seq(Measured) /\ Len(nodes) = Len(scan)
    <3>1. Len(scan) \in Nat /\ DOMAIN filled = 1 .. Len(scan)
      BY <2>2, Readings
    <3>2. \A k \in 1 .. Len(scan) : nodes[k] \in Measured
      BY <2>2, <2>3, <2>4, <3>1, Readings
    <3>3. nodes = [k \in 1 .. Len(scan) |-> nodes[k]]
      BY <2>3, <3>1
    <3> QED BY <3>1, <3>2, <3>3, MeasuredSeq
  <2>7. \A i \in 1 .. Len(scan) - 1 : nodes[i].angle <= nodes[i + 1].angle
    <3>1. \A i \in 1 .. Len(scan) - 1 : i \in DOMAIN filled /\ i + 1 \in DOMAIN filled
      BY <2>2, Readings
    <3> QED BY <2>2, <2>3, <3>1
  <2> QED BY <1>2, <2>1, <2>5, <2>6, <2>7, Zenon
<1> QED BY <1>1, <1>2

-----------------------------------------------------------------------------
(***************************************************************************)
(* What the cases are.  A turning lidar's last capsule led from one start  *)
(* angle to the next in the steps that are recorded; the cases without     *)
(* steps keep their inputs.                                                *)
(***************************************************************************)
Has(names) == names \subseteq DOMAIN case

TurnInv ==
  /\ Has({"kind", "start", "from", "step"})
  /\ case.kind \in Kinds
  /\ case.start \in 0 .. Turn6 - 1
  /\ \/ case.step = 0
     \/ /\ case.from \in 0 .. Turn6 - 1
        /\ \E advance \in Advances : /\ case.start = Onward(case.from, advance)
                                     /\ case.step = Inc(case.kind, 4 * advance)

IInv ==
  /\ Has({"of"})
  /\ case.of = "turn" => TurnInv
  /\ case.of = "leg" => case.leg \in Legs
  /\ case.of = "order" => case.readings \in RawScans
  /\ case.of = "scale" => case.scaled \in Nat
  /\ case.of = "near" => \E k \in Nat : k <= 1023 /\ case.field = 4 * k
  /\ case.of = "delay" => case.timed \in Kinds /\ case.timing \in Timings
  /\ case.of = "encode" => case.message \in Messages
  /\ case.of = "crc" => case.blocks \in Blocks

\* the cases start as IInv says
LEMMA InitInv == Init => IInv
<1> SUFFICES ASSUME Init PROVE IInv
  OBVIOUS
<1>1. CASE case \in Turning
  <2>1. Has({"of", "kind", "start", "from", "step"}) /\ case.of = "turn"
    BY <1>1 DEF Turning, Has
  <2>2. case.kind \in Kinds /\ case.start \in Starts /\ case.step = 0
    BY <1>1 DEF Turning
  <2> QED BY <2>1, <2>2, AlgorithmsAssumption, ZenonT(40) DEF IInv, TurnInv, Has, AlgorithmsAssumption
<1>2. CASE case \in Watching
  <2>1. Has({"of"}) /\ case.of = "watch"
    BY <1>2 DEF Watching, Has
  <2> QED BY <2>1 DEF IInv
<1>3. CASE case \in SteeringCases
  <2>1. Has({"of"}) /\ case.of = "steer"
    BY <1>3 DEF SteeringCases, Has
  <2> QED BY <2>1 DEF IInv
<1>4. CASE case \in [of : {"order"}, readings : RawScans]
  BY <1>4 DEF IInv, Has
<1>5. CASE case \in [of : {"encode"}, message : Messages]
  BY <1>5 DEF IInv, Has
<1>6. CASE case \in [of : {"crc"}, blocks : Blocks]
  BY <1>6 DEF IInv, Has
<1>7. CASE case \in [of : {"leg"}, leg : Legs]
  BY <1>7 DEF IInv, Has
<1>8. CASE case \in [of : {"scale"}, scaled : 0 .. 4094]
  <2> DEFINE codes == 0 .. 4094
  <2>1. codes \subseteq Nat
    OBVIOUS
  <2> HIDE DEF codes
  <2>2. case.of = "scale" /\ case.scaled \in codes /\ Has({"of"})
    BY <1>8 DEF Has, codes
  <2> QED BY <2>1, <2>2, ZenonT(40) DEF IInv
<1>9. CASE case \in [of : {"near"}, field : {4 * k : k \in 0 .. 1023}]
  <2> DEFINE fields == 0 .. 1023
  <2>1. \A k \in fields : k \in Nat /\ k <= 1023
    OBVIOUS
  <2> HIDE DEF fields
  <2>2. case.of = "near" /\ (\E k \in fields : case.field = 4 * k) /\ Has({"of"})
    BY <1>9 DEF Has, fields
  <2> QED BY <2>1, <2>2 DEF IInv
<1>10. CASE case \in [of : {"delay"}, timed : Kinds, timing : Timings]
  BY <1>10 DEF IInv, Has
<1> QED BY <1>1, <1>2, <1>3, <1>4, <1>5, <1>6, <1>7, <1>8, <1>9, <1>10 DEF Init

\* and every step keeps it
LEMMA StepInv == IInv /\ [Next]_case => IInv'
<1> SUFFICES ASSUME IInv, [Next]_case PROVE IInv'
  OBVIOUS
<1>1. Has({"of"})
  BY DEF IInv
<1>2. ASSUME NEW advance \in Advances, NextCapsule(advance) PROVE IInv'
  <2> DEFINE cur == Onward(case.start, advance)
             inc == Inc(case.kind, Diff8(case.start, cur))
  <2>1. case.of = "turn" /\ TurnInv
    BY <1>2 DEF NextCapsule, IInv
  <2>2. /\ DOMAIN case' = DOMAIN case
        /\ case'.of = case.of /\ case'.kind = case.kind
        /\ case'.start = cur /\ case'.from = case.start /\ case'.step = inc
    BY <1>1, <1>2, <2>1 DEF NextCapsule, Has, TurnInv
  <2>3. case.kind \in Kinds /\ case.start \in 0 .. Turn6 - 1
    BY <2>1 DEF TurnInv
  <2>4. advance \in 1 .. Turn6 - 1
    BY Slow
  <2>5. cur \in 0 .. Turn6 - 1 /\ inc = Inc(case.kind, 4 * advance)
    BY <2>3, <2>4, Advanced
  <2> HIDE DEF inc
  <2>6. TurnInv'
    BY <2>1, <2>2, <2>3, <2>5 DEF TurnInv, Has
  <2> QED BY <1>1, <2>1, <2>2, <2>6 DEF IInv, Has
<1>3. ASSUME NEW scan, CalibrateScan(scan) PROVE IInv'
  <2>1. DOMAIN case' = DOMAIN case /\ case.of = "watch" /\ case'.of = case.of
    BY <1>1, <1>3 DEF CalibrateScan, Calibrated, Has
  <2> QED BY <1>1, <2>1 DEF IInv, Has
<1>4. ASSUME NEW visit, Watch(visit) PROVE IInv'
  <2>1. DOMAIN case' = DOMAIN case /\ case.of = "watch" /\ case'.of = case.of
    BY <1>1, <1>4 DEF Watch, Watched, Has
  <2> QED BY <1>1, <2>1 DEF IInv, Has
<1>5. ASSUME SteerPeriod PROVE IInv'
  <2>1. DOMAIN case' = DOMAIN case /\ case.of = "steer" /\ case'.of = case.of
    BY <1>1, <1>5 DEF SteerPeriod, Has
  <2> QED BY <1>1, <2>1 DEF IInv, Has
<1>6. CASE UNCHANGED case
  BY <1>6 DEF IInv, TurnInv, Has
<1> QED BY <1>2, <1>3, <1>4, <1>5, <1>6 DEF Next

\* so it holds
LEMMA Invariant == Spec => []IInv
BY InitInv, StepInv, PTL DEF Spec

-----------------------------------------------------------------------------
(***************************************************************************)
(* The waypoint is on the straight line from start to goal, ahead of the   *)
(* torpedo by the look-ahead distance or at an end of the path, whatever   *)
(* the leg (AStarPlanner.h:46).                                            *)
(***************************************************************************)
THEOREM WaypointsAhead == Spec => []WaypointAhead
<1>1. IInv => WaypointAhead
  <2> SUFFICES ASSUME IInv, case.of = "leg" PROVE WaypointAhead
    BY DEF WaypointAhead
  <2>1. /\ case.leg.start \in Place /\ case.leg.goal \in Place
        /\ case.leg.x \in Int /\ case.leg.velocity \in Int
    BY AlgorithmsAssumption DEF IInv, AlgorithmsAssumption
  <2>2. Waypoint(case.leg.start, case.leg.goal, case.leg.x, case.leg.velocity)
    BY <2>1, WaypointOfLeg
  <2> QED BY <2>2, Zenon DEF Waypoint, WaypointAhead
<1> QED BY <1>1, Invariant, PTL

\* the angles of the turning lidar's last capsule
LEMMA AnglesHold == IInv => AnglesInTurn
<1> SUFFICES ASSUME IInv, case.of = "turn", case.step > 0 PROVE AnglesInTurn
  BY ZenonT(40) DEF AnglesInTurn
<1> DEFINE angle == Capsule(case.from, case.start, FALSE).angle
<1>1. case.kind \in Kinds /\ case.from \in 0 .. Turn6 - 1
  BY DEF IInv, TurnInv
<1>2. PICK advance \in Advances : /\ case.start = Onward(case.from, advance)
                                  /\ case.step = Inc(case.kind, 4 * advance)
  BY DEF IInv, TurnInv
<1>3. AnglesOf(angle, case.kind, case.from, case.step)
  BY <1>1, <1>2, CapsuleAngles
<1>4. \A j \in DOMAIN angle :
        AngleInTurn(angle[j], Raw(case.from, case.step, j, OffsetOf(case.kind, j)))
  <2> HIDE DEF angle
  <2> QED BY <1>3, Zenon DEF AnglesOf
<1> QED BY <1>4, Zenon DEF AnglesInTurn, AngleInTurn, Raw, OffsetOf

\* the distances of all codes
LEMMA DistancesHold == IInv => DistancesAdjoin
<1> SUFFICES ASSUME IInv PROVE DistancesAdjoin
  OBVIOUS
<1>1. ASSUME case.of = "scale"
      PROVE  LET v == VarBitScale(case.scaled)
             IN /\ VarBitScale(case.scaled + 1).value = v.value + 2 ^ v.level
                /\ UltraDistances(case.scaled, 0, 0, 511) = <<4 * v.value, 4 * v.value, 0>>
                /\ UltraDistances(0, case.scaled, 0, 0) = <<0, 4 * v.value, 4 * v.value>>
  <2>1. case.scaled \in Nat
    BY <1>1 DEF IInv
  <2> QED BY <2>1, ScalesAdjoin, CabinDistances
<1>2. ASSUME case.of = "near"
      PROVE  Near(case.field)
  <2>1. PICK k \in Nat : k <= 1023 /\ case.field = 4 * k
    BY <1>2 DEF IInv
  <2>2. Near(4 * k)
    BY <2>1, NearScales
  <2> QED BY <2>1, <2>2, ZenonT(40)
<1> QED BY <1>1, <1>2 DEF DistancesAdjoin, Near

\* the times of all kinds
LEMMA TimesHold == IInv => TimesAscend
<1> SUFFICES ASSUME IInv, case.of = "delay" PROVE TimesAscend
  BY DEF TimesAscend
<1>1. case.timed \in Kinds /\ case.timing \in Timing
  BY AlgorithmsAssumption DEF IInv, AlgorithmsAssumption, Timing
<1>2. Ascends(case.timed, case.timing)
  BY <1>1, TimesOfKinds
<1> QED BY <1>2, Zenon DEF Ascends, TimesAscend

(***************************************************************************)
(* The values a sample is published with, at every speed of the lidar, for *)
(* every code of a distance and every timing: the angle is the raw one but *)
(* for its offset and whole turns, the scales of the distances adjoin, the *)
(* samples are one duration apart modulo 2^32 microseconds, and those that *)
(* line 813 does not throw back are not 2^32 microseconds off.             *)
(***************************************************************************)
THEOREM SamplesPublished == Spec => []SampleValues
<1>1. IInv => SampleValues
  BY AnglesHold, DistancesHold, TimesHold DEF SampleValues
<1> QED BY <1>1, Invariant, PTL

\* a scan that is put in order
LEMMA ReadingsKept ==
  ASSUME case.of = "order", case.readings \in Seq(Measured)
  PROVE  AscendKeepsReadings
<1> DEFINE scan == case.readings
           result == Ascend(scan)
           count(s, r) == Cardinality({i \in DOMAIN s : s[i] = r})
<1>1. \A s, r : count(s, r) = Cardinality(Where(s, r))
  BY DEF Where
<1>2. result.ok <=> \E i \in DOMAIN scan : scan[i].dist # 0
  BY Ascended DEF Echoes
<1>3. result.nodes \in Seq(Measured) /\ Len(result.nodes) = Len(scan)
  BY Ascended
<1>4. \A i \in DOMAIN scan : scan[i].dist # 0 =>
        count(result.nodes, scan[i]) = count(scan, scan[i])
  <2> HIDE DEF count
  <2> QED BY <1>1, Ascended
<1>5. result.ok => \A i \in 1 .. Len(result.nodes) - 1 :
        result.nodes[i].angle <= result.nodes[i + 1].angle
  BY <1>3, Ascended
<1>6. \A i \in DOMAIN result.nodes : result.nodes[i].angle \in 0 .. Full - 1
  <2> HIDE DEF result
  <2> QED BY <1>3, Readings
<1> QED BY <1>2, <1>3, <1>4, <1>5, <1>6, Zenon DEF AscendKeepsReadings

(***************************************************************************)
(* Putting a scan in order loses nothing: every reading with an echo keeps *)
(* its angle and distance, the angles ascend and fit 16 bits, and it fails *)
(* only if there is no echo at all (sl_lidar_driver.cpp:128), for scans of *)
(* any length.                                                             *)
(***************************************************************************)
THEOREM AscendingKept == Spec => []AscendKeepsReadings
<1>1. IInv => AscendKeepsReadings
  <2>1. CASE case.of = "order"
    BY <2>1, ReadingsKept, AlgorithmsAssumption DEF IInv, AlgorithmsAssumption
  <2>2. CASE case.of # "order"
    BY <2>2 DEF AscendKeepsReadings
  <2> QED BY <2>1, <2>2
<1> QED BY <1>1, Invariant, PTL

-----------------------------------------------------------------------------
(***************************************************************************)
(* The turns that a capsule's samples mark.                                *)
(***************************************************************************)
LEMMA ModTurn ==
  ASSUME NEW x \in Int, 0 <= x, x < 2 * Turn16
  PROVE  x % Turn16 = IF x < Turn16 THEN x ELSE x - Turn16
BY SMT DEF Turn16

\* the turn in q16 and q6, without their values
LEMMA TurnTypes == Turn16 \in Int /\ Turn6 \in Int /\ Turn16 = 1024 * Turn6 /\ Turn6 > 23039
BY SMT DEF Turn6, Turn16

\* multiples of the step are at least a step apart
LEMMA Products ==
  ASSUME NEW a \in Int, NEW b \in Int, NEW inc \in Nat, a < b
  PROVE  a * inc \in Int /\ b * inc \in Int /\ a * inc + inc <= b * inc
<1>1. b - a - 1 \in Nat
  OBVIOUS
<1>2. (b - a - 1) * inc \in Nat
  BY <1>1
<1>3. b * inc = a * inc + inc + (b - a - 1) * inc
  OBVIOUS
<1> QED BY <1>2, <1>3

(***************************************************************************)
(* A capsule's steps from now on: samples of them, each inc, do not reach  *)
(* a quarter of a turn.                                                    *)
(***************************************************************************)
Steady(now, inc, samples) ==
  /\ now \in Int /\ 0 <= now /\ now < Turn16
  /\ inc \in Nat /\ inc > 0
  /\ samples \in Nat /\ samples > 1
  /\ samples * inc \in Int /\ 4 * (samples * inc) < Turn16

Crosses(now, inc, samples, window) ==
  {j \in 0 .. samples - 1 : (now + (j + 1) * inc) % Turn16 < window}

\* sample m is the first that ends past the turn
FirstPast(now, inc, m) == Turn16 <= now + m * inc + inc /\ now + m * inc < Turn16

\* if the steps pass the turn there is a first one that does
LEMMA StepsPast ==
  ASSUME NEW now, NEW inc, NEW samples, Steady(now, inc, samples),
         Turn16 <= now + samples * inc
  PROVE  \E m \in 0 .. samples - 1 : FirstPast(now, inc, m)
<1> DEFINE S == {k \in 1 .. samples : Turn16 <= now + k * inc}
<1>1. /\ now \in Int /\ 0 <= now /\ now < Turn16
      /\ inc \in Nat /\ inc > 0
      /\ samples \in Nat /\ samples > 1
  BY DEF Steady
<1>2. samples \in S /\ S \subseteq Nat /\ S # {}
  BY <1>1
<1> HIDE DEF S
<1>3. PICK k \in S : \A l \in S : k <= l
  BY <1>2, LeastElement
<1>4. k \in 1 .. samples /\ Turn16 <= now + k * inc
  BY <1>3 DEF S
<1>5. k - 1 \in 0 .. samples - 1 /\ k \in Int
  BY <1>1, <1>4
<1>6. k * inc = (k - 1) * inc + inc /\ (k - 1) * inc \in Int
  BY <1>1, <1>5
<1>7. now + (k - 1) * inc < Turn16
  <2>1. CASE k = 1
    <3>1. (k - 1) * inc = 0
      BY <1>1, <2>1
    <3> QED BY <1>1, <3>1
  <2>2. CASE k # 1
    <3>1. k - 1 \in 1 .. samples /\ k - 1 \notin S
      BY <1>1, <1>3, <1>4, <2>2
    <3>2. ~(Turn16 <= now + (k - 1) * inc)
      BY <3>1 DEF S
    <3> QED BY <1>1, <1>6, <3>2, TurnTypes
  <2> QED BY <2>1, <2>2
<1>8. FirstPast(now, inc, k - 1)
  BY <1>1, <1>4, <1>6, <1>7, TurnTypes DEF FirstPast
<1> QED BY <1>5, <1>8

\* whether a sample crosses, by what it ends at
LEMMA Crossing ==
  ASSUME NEW now, NEW inc, NEW samples, Steady(now, inc, samples),
         NEW window \in Int, NEW j \in 0 .. samples - 1
  PROVE  /\ j * inc \in Int /\ 0 <= j * inc /\ j * inc + inc <= samples * inc
         /\ j \in Crosses(now, inc, samples, window) <=>
              \/ now + j * inc + inc < Turn16 /\ now + j * inc + inc < window
              \/ Turn16 <= now + j * inc + inc /\ now + j * inc + inc < Turn16 + window
<1>1. /\ now \in Int /\ 0 <= now /\ now < Turn16
      /\ inc \in Nat /\ inc > 0
      /\ samples \in Nat /\ samples * inc \in Int /\ 4 * (samples * inc) < Turn16
  BY DEF Steady
<1>2. j \in Nat /\ j < samples
  BY <1>1
<1>3. j * inc \in Int /\ 0 <= j * inc /\ j * inc + inc <= samples * inc
  BY <1>1, <1>2, Products
<1>4. now + (j + 1) * inc = now + j * inc + inc
  BY <1>1, <1>2
<1> DEFINE x == now + j * inc + inc
<1>5. x \in Int /\ 0 <= x /\ x < 2 * Turn16
  BY <1>1, <1>3, TurnTypes
<1>6. j \in Crosses(now, inc, samples, window) <=> x % Turn16 < window
  BY <1>4 DEF Crosses
<1> HIDE DEF x
<1>7. x % Turn16 = IF x < Turn16 THEN x ELSE x - Turn16
  BY <1>5, ModTurn
<1>8. x % Turn16 < window <=>
        (x < Turn16 /\ x < window) \/ (Turn16 <= x /\ x < Turn16 + window)
  BY <1>5, <1>7, TurnTypes
<1> QED BY <1>3, <1>6, <1>8 DEF x

\* no sample is marked before the turn is reached
LEMMA CrossNever ==
  ASSUME NEW now, NEW inc, NEW samples, Steady(now, inc, samples),
         NEW window \in Int, window <= now + inc, now + samples * inc < Turn16
  PROVE  Crosses(now, inc, samples, window) = {}
<1>1. /\ now \in Int /\ 0 <= now /\ inc \in Nat /\ inc > 0 /\ samples * inc \in Int
  BY DEF Steady
<1>2. ASSUME NEW j \in 0 .. samples - 1
      PROVE  j \notin Crosses(now, inc, samples, window)
  <2>1. /\ j * inc \in Int /\ 0 <= j * inc /\ j * inc + inc <= samples * inc
        /\ j \in Crosses(now, inc, samples, window) <=>
              \/ now + j * inc + inc < Turn16 /\ now + j * inc + inc < window
              \/ Turn16 <= now + j * inc + inc /\ now + j * inc + inc < Turn16 + window
    BY Crossing
  <2> QED BY <1>1, <2>1, TurnTypes
<1> QED BY <1>2 DEF Crosses

\* a window of one step marks the sample that passes it
LEMMA CrossOnce ==
  ASSUME NEW now, NEW inc, NEW samples, Steady(now, inc, samples),
         NEW m \in 0 .. samples - 1, FirstPast(now, inc, m)
  PROVE  Crosses(now, inc, samples, inc) = {m}
<1>1. /\ now \in Int /\ 0 <= now /\ inc \in Nat /\ inc > 0 /\ samples \in Nat
      /\ m \in Int /\ m * inc \in Int
      /\ Turn16 <= now + m * inc + inc /\ now + m * inc < Turn16
  <2>1. inc \in Nat /\ samples \in Nat
    BY DEF Steady
  <2>2. m \in Int
    BY <2>1
  <2>3. m * inc \in Int
    BY <2>1, <2>2
  <2> QED BY <2>1, <2>2, <2>3 DEF Steady, FirstPast
<1>2. ASSUME NEW j \in 0 .. samples - 1
      PROVE  j \in Crosses(now, inc, samples, inc) <=> j = m
  <2>1. /\ j * inc \in Int /\ 0 <= j * inc
        /\ j \in Crosses(now, inc, samples, inc) <=>
              \/ now + j * inc + inc < Turn16 /\ now + j * inc + inc < inc
              \/ Turn16 <= now + j * inc + inc /\ now + j * inc + inc < Turn16 + inc
    <3>1. inc \in Int
      BY <1>1
    <3> QED BY <3>1, Crossing
  <2>2. j \in Int
    BY <1>1
  <2>3. CASE j < m
    <3>1. j * inc + inc <= m * inc
      BY <1>1, <2>2, <2>3, Products
    <3> QED BY <1>1, <2>1, <2>3, <3>1, <2>2, TurnTypes
  <2>4. CASE j > m
    <3>1. m * inc + inc <= j * inc
      BY <1>1, <2>2, <2>4, Products
    <3> QED BY <1>1, <2>1, <2>4, <3>1, <2>2, TurnTypes
  <2>5. CASE j = m
    BY <1>1, <2>1, <2>5, TurnTypes
  <2> QED BY <1>1, <2>2, <2>3, <2>4, <2>5
<1> QED BY <1>2 DEF Crosses

\* a window of two steps that one and the next
LEMMA CrossTwice ==
  ASSUME NEW now, NEW inc, NEW samples, Steady(now, inc, samples), inc <= now,
         NEW m \in 0 .. samples - 1, FirstPast(now, inc, m)
  PROVE  Crosses(now, inc, samples, 2 * inc) = {m, m + 1} \cap (0 .. samples - 1)
<1>1. /\ now \in Int /\ 0 <= now /\ inc \in Nat /\ inc > 0 /\ samples \in Nat
      /\ m \in Int /\ m * inc \in Int
      /\ Turn16 <= now + m * inc + inc /\ now + m * inc < Turn16
  <2>1. inc \in Nat /\ samples \in Nat
    BY DEF Steady
  <2>2. m \in Int
    BY <2>1
  <2>3. m * inc \in Int
    BY <2>1, <2>2
  <2> QED BY <2>1, <2>2, <2>3 DEF Steady, FirstPast
<1>2. ASSUME NEW j \in 0 .. samples - 1
      PROVE  j \in Crosses(now, inc, samples, 2 * inc) <=> j \in {m, m + 1}
  <2>1. /\ j * inc \in Int /\ 0 <= j * inc
        /\ j \in Crosses(now, inc, samples, 2 * inc) <=>
              \/ now + j * inc + inc < Turn16 /\ now + j * inc + inc < 2 * inc
              \/ Turn16 <= now + j * inc + inc /\ now + j * inc + inc < Turn16 + 2 * inc
    <3>1. 2 * inc \in Int
      BY <1>1
    <3> QED BY <3>1, Crossing
  <2>2. j \in Int
    BY <1>1
  <2>3. CASE j < m
    <3>1. j * inc + inc <= m * inc
      BY <1>1, <2>2, <2>3, Products
    <3>2. j \notin Crosses(now, inc, samples, 2 * inc)
      BY <1>1, <2>1, <3>1, TurnTypes
    <3> QED BY <1>1, <2>2, <2>3, <3>2
  <2>4. CASE j = m
    BY <1>1, <2>1, <2>4, TurnTypes
  <2>5. CASE j = m + 1
    <3>1. j * inc = m * inc + inc
      BY <1>1, <2>5
    <3>2. j \in Crosses(now, inc, samples, 2 * inc)
      BY <1>1, <2>1, <3>1, TurnTypes
    <3> QED BY <2>5, <3>2
  <2>6. CASE j > m + 1
    <3>1. (m + 1) * inc + inc <= j * inc
      BY <1>1, <2>2, <2>6, Products
    <3>2. (m + 1) * inc = m * inc + inc
      BY <1>1
    <3>3. j \notin Crosses(now, inc, samples, 2 * inc)
      BY <1>1, <2>1, <3>1, <3>2, TurnTypes
    <3> QED BY <1>1, <2>2, <2>6, <3>3
  <2> QED BY <1>1, <2>2, <2>3, <2>4, <2>5, <2>6
<1> QED BY <1>2 DEF Crosses

\* or only the first, just after the turn
LEMMA CrossFirst ==
  ASSUME NEW now, NEW inc, NEW samples, Steady(now, inc, samples), now < inc
  PROVE  Crosses(now, inc, samples, 2 * inc) = {0}
<1>1. /\ now \in Int /\ 0 <= now /\ inc \in Nat /\ inc > 0
      /\ samples \in Nat /\ samples > 1 /\ samples * inc \in Int /\ 4 * (samples * inc) < Turn16
  BY DEF Steady
<1>2. ASSUME NEW j \in 0 .. samples - 1
      PROVE  j \in Crosses(now, inc, samples, 2 * inc) <=> j = 0
  <2>1. /\ j * inc \in Int /\ 0 <= j * inc /\ j * inc + inc <= samples * inc
        /\ j \in Crosses(now, inc, samples, 2 * inc) <=>
              \/ now + j * inc + inc < Turn16 /\ now + j * inc + inc < 2 * inc
              \/ Turn16 <= now + j * inc + inc /\ now + j * inc + inc < Turn16 + 2 * inc
    <3>1. 2 * inc \in Int
      BY <1>1
    <3> QED BY <3>1, Crossing
  <2>2. now + j * inc + inc < Turn16
    BY <1>1, <2>1, TurnTypes
  <2>3. CASE j = 0
    <3>1. j * inc = 0
      BY <1>1, <2>3
    <3> QED BY <1>1, <2>1, <2>2, <2>3, <3>1
  <2>4. CASE j # 0
    <3>1. 0 < j /\ j \in Int
      BY <1>1, <2>4
    <3>2. 0 * inc + inc <= j * inc /\ 0 * inc = 0
      BY <1>1, <3>1, Products
    <3> QED BY <1>1, <2>1, <2>2, <2>4, <3>2, TurnTypes
  <2> QED BY <2>3, <2>4
<1>3. 0 \in 0 .. samples - 1
  BY <1>1
<1> QED BY <1>2, <1>3 DEF Crosses

-----------------------------------------------------------------------------
\* no three crossings follow each other
Sparse(crossings) ==
  \A j \in Int : ~(j \in crossings /\ j + 1 \in crossings /\ j + 2 \in crossings)

\* whether the sample before counts for j: last before the first, its own mark else
Before(crossings, last, j) ==
  IF j = 0 THEN last ELSE j - 1 \in crossings /\ ~(j = 1 /\ last)

\* crossings of which one that follows another is dropped
Alternate(crossings, last, samples) ==
  LET bit[j \in -1 .. samples - 1] ==
        IF j = -1 THEN last ELSE j \in crossings /\ ~bit[j - 1]
  IN {j \in crossings : bit[j]}

\* what is left of sparse crossings when one after another is dropped
LEMMA Alternates ==
  ASSUME NEW samples \in Nat, NEW crossings, crossings \subseteq 0 .. samples - 1,
         Sparse(crossings), NEW last \in BOOLEAN
  PROVE  /\ Alternate(crossings, last, samples) \subseteq crossings
         /\ \A j \in crossings :
              j \in Alternate(crossings, last, samples) <=> ~Before(crossings, last, j)
<1> DEFINE D == -1 .. samples - 1
           F(f) == [j \in D |-> IF j = -1 THEN last ELSE j \in crossings /\ ~f[j - 1]]
           bit == CHOOSE f : f = F(f)
           b == [j \in D |-> IF j = -1 THEN last
                             ELSE j \in crossings /\ ~Before(crossings, last, j)]
<1>1. Alternate(crossings, last, samples) = {j \in crossings : bit[j]}
  BY DEF Alternate
<1>2. b = F(b)
  <2>1. ASSUME NEW j \in D
        PROVE  b[j] = (IF j = -1 THEN last ELSE j \in crossings /\ ~b[j - 1])
    <3>1. j \in Int /\ -1 <= j /\ j <= samples - 1
      OBVIOUS
    <3>2. CASE j = -1
      BY <3>2
    <3>3. CASE j = 0
      <4>1. b[-1] = last /\ b[0] = (0 \in crossings /\ ~last)
        BY <3>1, <3>3 DEF Before
      <4> QED BY <3>3, <4>1
    <3>4. CASE j = 1
      <4>1. b[0] = (0 \in crossings /\ ~last)
        BY <3>1, <3>4 DEF Before
      <4>2. b[1] = (1 \in crossings /\ ~(0 \in crossings /\ ~last))
        BY <3>1, <3>4 DEF Before
      <4>3. j - 1 = 0 /\ j # -1
        BY <3>4
      <4>4. b[j] = (j \in crossings /\ ~b[j - 1])
        BY <3>4, <4>1, <4>2, <4>3, Zenon
      <4> QED BY <4>3, <4>4
    <3>5. CASE j > 1
      <4>1. b[j] = (j \in crossings /\ ~(j - 1 \in crossings))
        BY <3>1, <3>5 DEF Before
      <4>2. j - 1 \in D /\ j - 1 # -1 /\ j - 1 # 0
        BY <3>1, <3>5
      <4>3. b[j - 1] = (j - 1 \in crossings /\ ~((j - 1) - 1 \in crossings /\ ~(j - 1 = 1 /\ last)))
        BY <4>2 DEF Before
      <4>4. ~(j - 2 \in crossings /\ j - 1 \in crossings /\ j \in crossings)
        <5>1. j - 2 \in Int /\ (j - 2) + 1 = j - 1 /\ (j - 2) + 2 = j
          BY <3>1
        <5> QED BY <5>1 DEF Sparse
      <4>5. (j - 1) - 1 = j - 2
        BY <3>1
      <4> QED BY <3>1, <3>5, <4>1, <4>3, <4>4, <4>5
    <3> QED BY <3>1, <3>2, <3>3, <3>4, <3>5
  <2>2. b = [j \in D |-> b[j]]
    OBVIOUS
  <2> QED BY <2>1, <2>2
<1> HIDE DEF b
<1>3. bit = F(bit)
  BY <1>2
<1> HIDE DEF bit
<1>4. \A j \in D : bit[j] = (IF j = -1 THEN last ELSE j \in crossings /\ ~bit[j - 1])
  BY <1>3
<1>5. ASSUME NEW j \in crossings
      PROVE  bit[j] <=> ~Before(crossings, last, j)
  <2>1. j \in Int /\ 0 <= j /\ j <= samples - 1
    OBVIOUS
  <2>2. bit[-1] = last
    BY <1>4
  <2>3. bit[j] = ~bit[j - 1]
    BY <1>4, <2>1
  <2>4. CASE j = 0
    <3>1. j - 1 = -1
      BY <2>4
    <3>2. bit[j] = ~last
      BY <2>2, <2>3, <3>1, Zenon
    <3> QED BY <2>4, <3>2, Zenon DEF Before
  <2>5. CASE j # 0
    <3>1. j - 1 \in D /\ j - 1 # -1
      BY <2>1, <2>5
    <3>2. bit[j - 1] = (j - 1 \in crossings /\ ~bit[j - 2])
      <4>1. bit[j - 1] = (j - 1 \in crossings /\ ~bit[(j - 1) - 1])
        BY <1>4, <3>1
      <4>2. (j - 1) - 1 = j - 2
        BY <2>1
      <4> QED BY <4>1, <4>2
    <3>3. CASE j = 1
      <4>1. j - 2 = -1
        BY <3>3
      <4> QED BY <2>2, <2>3, <2>5, <3>2, <3>3, <4>1 DEF Before
    <3>4. CASE j # 1 /\ j - 1 \in crossings
      <4>1. j - 2 \in D /\ j - 2 # -1
        BY <2>1, <2>5, <3>4
      <4>2. j - 2 \notin crossings
        <5>1. j - 2 \in Int /\ (j - 2) + 1 = j - 1 /\ (j - 2) + 2 = j
          BY <2>1
        <5> QED BY <3>4, <5>1 DEF Sparse
      <4>3. ~bit[j - 2]
        BY <1>4, <4>1, <4>2
      <4> QED BY <2>3, <2>5, <3>2, <3>4, <4>3 DEF Before
    <3>5. CASE j # 1 /\ j - 1 \notin crossings
      BY <2>3, <2>5, <3>2, <3>5 DEF Before
    <3> QED BY <3>3, <3>4, <3>5
  <2> QED BY <2>4, <2>5
<1> QED BY <1>1, <1>5

(***************************************************************************)
(* The marks of a capsule: none or one; the first sample if it starts just *)
(* past the turn and the sample before it was not marked (early), or the   *)
(* sample that passes the turn, or the next one.                           *)
(***************************************************************************)
MarkedPast(marks, now, inc, samples, m) ==
  /\ marks = {m}
  /\ Turn16 <= now + samples * inc
  /\ Turn16 <= now + m * inc + inc
  /\ now + m * inc < Turn16 + inc
  /\ m = samples - 1 \/ Turn16 + inc <= now + samples * inc

MarkedOnce(marks, now, inc, samples, early) ==
  \/ early /\ now < inc /\ marks = {0}
  \/ ~(early /\ now < inc) /\ now + samples * inc < Turn16 /\ marks = {}
  \/ \E m \in 0 .. samples - 1 : MarkedPast(marks, now, inc, samples, m)

\* the marks of an express or ultra capsule
LEMMA SingleMarks ==
  ASSUME NEW now, NEW inc, NEW samples, Steady(now, inc, samples)
  PROVE  MarkedOnce(Crosses(now, inc, samples, inc), now, inc, samples, FALSE)
<1>1. /\ now \in Int /\ 0 <= now /\ inc \in Nat /\ inc > 0
      /\ samples \in Nat /\ samples > 1 /\ samples * inc \in Int
  BY DEF Steady
<1>2. CASE now + samples * inc < Turn16
  <2>1. Crosses(now, inc, samples, inc) = {}
    <3>1. inc \in Int /\ inc <= now + inc
      BY <1>1
    <3> QED BY <1>2, <3>1, CrossNever
  <2> QED BY <1>2, <2>1 DEF MarkedOnce
<1>3. CASE ~(now + samples * inc < Turn16)
  <2>1. Turn16 <= now + samples * inc
    BY <1>1, <1>3, TurnTypes
  <2>2. PICK m \in 0 .. samples - 1 : FirstPast(now, inc, m)
    BY <2>1, StepsPast
  <2>3. Crosses(now, inc, samples, inc) = {m}
    BY <2>2, CrossOnce
  <2>4. m \in Int /\ m < samples
    BY <1>1
  <2>5. m = samples - 1 \/ Turn16 + inc <= now + samples * inc
    <3>1. CASE m = samples - 1
      BY <3>1
    <3>2. CASE m # samples - 1
      <4>1. m + 1 < samples /\ m + 1 \in Int
        BY <1>1, <2>4, <3>2
      <4>2. (m + 1) * inc + inc <= samples * inc /\ (m + 1) * inc = m * inc + inc
        BY <1>1, <2>4, <4>1, Products
      <4>3. m * inc \in Int
        BY <1>1, <2>4
      <4> QED BY <1>1, <2>2, <4>2, <4>3, TurnTypes DEF FirstPast
    <3> QED BY <3>1, <3>2
  <2>6. now + m * inc < Turn16 + inc
    <3>1. m * inc \in Int
      BY <1>1, <2>4
    <3> QED BY <1>1, <2>2, <3>1, TurnTypes DEF FirstPast
  <2>7. MarkedPast(Crosses(now, inc, samples, inc), now, inc, samples, m)
    BY <2>1, <2>2, <2>3, <2>5, <2>6 DEF MarkedPast, FirstPast
  <2> QED BY <2>7 DEF MarkedOnce
<1> QED BY <1>2, <1>3

\* the marks of a dense or ultra dense capsule
LEMMA AlternateMarks ==
  ASSUME NEW now, NEW inc, NEW samples, Steady(now, inc, samples), NEW last \in BOOLEAN
  PROVE  MarkedOnce(Alternate(Crosses(now, inc, samples, 2 * inc), last, samples),
                    now, inc, samples, ~last)
<1> DEFINE C == Crosses(now, inc, samples, 2 * inc)
           marks == Alternate(C, last, samples)
<1>1. /\ now \in Int /\ 0 <= now /\ now < Turn16 /\ inc \in Nat /\ inc > 0
      /\ samples \in Nat /\ samples > 1 /\ samples * inc \in Int /\ 4 * (samples * inc) < Turn16
  BY DEF Steady
<1>2. C \subseteq 0 .. samples - 1
  BY DEF Crosses
<1> HIDE DEF C
<1>3. Sparse(C) => /\ marks \subseteq C
                   /\ \A j \in C : j \in marks <=> ~Before(C, last, j)
  BY <1>1, <1>2, Alternates, ZenonT(40)
<1> HIDE DEF marks
<1>4. inc + inc <= samples * inc
  <2>1. 1 * inc + inc <= samples * inc /\ 1 * inc = inc
    BY <1>1, Products
  <2> QED BY <2>1
<1>5. CASE now < inc
  <2>1. C = {0}
    BY <1>5, CrossFirst DEF C
  <2>2. Sparse(C)
    BY <2>1 DEF Sparse
  <2>3. marks = IF last THEN {} ELSE {0}
    BY <1>3, <2>1, <2>2 DEF Before
  <2>4. now + samples * inc < Turn16
    BY <1>1, <1>4, <1>5, TurnTypes
  <2>5. CASE last
    BY <2>3, <2>4, <2>5 DEF MarkedOnce, marks, C
  <2>6. CASE ~last
    BY <1>5, <2>3, <2>6 DEF MarkedOnce, marks, C
  <2> QED BY <2>5, <2>6
<1>6. CASE inc <= now /\ now + samples * inc < Turn16
  <2>1. C = {}
    <3>1. 2 * inc \in Int /\ 2 * inc <= now + inc
      BY <1>1, <1>6
    <3> QED BY <1>6, <3>1, CrossNever DEF C
  <2>2. Sparse(C)
    BY <2>1 DEF Sparse
  <2>3. marks = {}
    BY <1>3, <2>1, <2>2
  <2>4. ~(now < inc)
    BY <1>1, <1>6
  <2> QED BY <1>6, <2>3, <2>4 DEF MarkedOnce, marks, C
<1>7. CASE inc <= now /\ Turn16 <= now + samples * inc
  <2>1. PICK m \in 0 .. samples - 1 : FirstPast(now, inc, m)
    BY <1>7, StepsPast
  <2>2. m \in Int /\ 0 <= m /\ m < samples /\ m * inc \in Int /\ (m + 1) * inc = m * inc + inc
    BY <1>1
  <2>3. Turn16 <= now + m * inc + inc /\ now + m * inc < Turn16
    BY <2>1 DEF FirstPast
  <2>4. C = {m, m + 1} \cap (0 .. samples - 1)
    BY <1>7, <2>1, CrossTwice DEF C
  <2>5. Sparse(C)
    <3>1. \A j \in Int : j \in C => j = m \/ j = m + 1
      BY <2>4
    <3> QED BY <2>2, <3>1 DEF Sparse
  <2>6. m \in C
    BY <2>4
  <2>7. \A j \in 0 .. samples - 1 : j \in marks <=> j \in C /\ ~Before(C, last, j)
    BY <1>3, <2>5
  <2>8. marks \subseteq C
    BY <1>3, <2>5
  <2>9. m + 1 < samples => Turn16 + inc <= now + samples * inc
    <3>1. ASSUME m + 1 < samples
          PROVE  (m + 1) * inc + inc <= samples * inc
      BY <1>1, <2>2, <3>1, Products
    <3> QED BY <1>1, <2>2, <2>3, <3>1, TurnTypes
  <2>10. CASE ~(m = 0 /\ last)
    <3>1. ~Before(C, last, m)
      <4>1. m - 1 \notin C
        BY <2>2, <2>4
      <4> QED BY <2>10, <4>1 DEF Before
    <3>2. m \in marks
      BY <2>6, <2>7, <3>1
    <3>3. m + 1 \notin marks
      <4>1. CASE m + 1 \in C
        <5>1. m + 1 # 0 /\ (m + 1) - 1 = m /\ (m + 1 = 1 <=> m = 0)
          BY <2>2
        <5>2. Before(C, last, m + 1)
          BY <2>6, <2>10, <5>1 DEF Before
        <5>3. m + 1 \in 0 .. samples - 1
          BY <1>2, <4>1
        <5> QED BY <2>7, <5>2, <5>3
      <4>2. CASE m + 1 \notin C
        BY <2>8, <4>2
      <4> QED BY <4>1, <4>2
    <3>4. marks = {m}
      BY <2>4, <2>8, <3>2, <3>3
    <3>5. m = samples - 1 \/ Turn16 + inc <= now + samples * inc
      BY <1>1, <2>2, <2>9
    <3>6. now + m * inc < Turn16 + inc
      BY <1>1, <2>2, <2>3, TurnTypes
    <3>7. MarkedPast(marks, now, inc, samples, m)
      BY <1>7, <2>3, <3>4, <3>5, <3>6 DEF MarkedPast
    <3> QED BY <3>7 DEF MarkedOnce, marks, C
  <2>11. CASE m = 0 /\ last
    <3>1. 1 \in 0 .. samples - 1 /\ 0 \in 0 .. samples - 1
      BY <1>1
    <3>2. C = {0, 1}
      BY <2>4, <2>11, <3>1
    <3>3. 0 \notin marks
      BY <2>7, <2>11, <3>1 DEF Before
    <3>4. 1 \in marks
      <4>1. ~Before(C, last, 1)
        BY <2>11 DEF Before
      <4> QED BY <2>7, <3>1, <3>2, <4>1
    <3>5. marks = {1}
      BY <2>8, <3>2, <3>3, <3>4
    <3>6. 1 * inc = inc /\ 0 * inc = 0 /\ m * inc = 0
      BY <1>1, <2>11
    <3>7. Turn16 + inc <= now + samples * inc
      BY <1>1, <1>4, <2>3, <3>6, TurnTypes
    <3>8. now + 1 * inc < Turn16 + inc
      BY <1>1, <3>6, TurnTypes
    <3>9. Turn16 <= now + 1 * inc + inc
      BY <1>1, <2>3, <3>6, TurnTypes
    <3>10. MarkedPast(marks, now, inc, samples, 1)
      BY <1>7, <3>5, <3>7, <3>8, <3>9 DEF MarkedPast
    <3> QED BY <3>1, <3>10 DEF MarkedOnce, marks, C
  <2> QED BY <2>10, <2>11
<1>8. inc <= now \/ now < inc
  BY <1>1
<1>9. now + samples * inc < Turn16 \/ Turn16 <= now + samples * inc
  BY <1>1, TurnTypes
<1> QED BY <1>5, <1>6, <1>7, <1>8, <1>9

\* Marked, in these terms
LEMMA MarksAre ==
  ASSUME NEW kind \in Kinds, NEW prev, NEW cur, NEW last
  PROVE  LET inc == Inc(kind, Diff8(prev, cur))
         IN Marked(kind, prev, cur, last)
              = IF kind \in {"dense", "ultra_dense"}
                THEN Alternate(Crosses(prev * 1024, inc, Samples[kind], 2 * inc), last,
                               Samples[kind])
                ELSE Crosses(prev * 1024, inc, Samples[kind], inc)
<1> DEFINE inc == Inc(kind, Diff8(prev, cur))
           C(window) == Crosses(prev * 1024, inc, Samples[kind], window)
<1>1. Crossings(kind, prev, cur) = C(Window(kind, inc))
  BY Zenon DEF Crossings, Crosses
<1>2. Marked(kind, prev, cur, last)
        = IF kind \in {"dense", "ultra_dense"}
          THEN Alternate(Crossings(kind, prev, cur), last, Samples[kind])
          ELSE Crossings(kind, prev, cur)
  BY Zenon DEF Marked, Alternate
<1>3. kind \in {"dense", "ultra_dense"} => Window(kind, inc) = 2 * inc
  BY DEF Window
<1>4. kind \notin {"dense", "ultra_dense"} => Window(kind, inc) = inc
  BY DEF Window, Kinds
<1> HIDE DEF inc, C
<1>5. Marked(kind, prev, cur, last)
        = IF kind \in {"dense", "ultra_dense"}
          THEN Alternate(C(2 * inc), last, Samples[kind])
          ELSE C(inc)
  BY <1>1, <1>2, <1>3, <1>4
<1> QED BY <1>5, Zenon DEF inc, C

-----------------------------------------------------------------------------
Doubled(kind) == kind \in {"dense", "ultra_dense"}

\* a capsule's steps, in numbers
LEMMA StepNumbers ==
  ASSUME NEW kind \in Kinds, NEW start \in 0 .. Turn6 - 1, NEW advance \in Advances,
         NEW inc, inc = Inc(kind, 4 * advance)
  PROVE  /\ Steady(start * 1024, inc, Samples[kind])
         /\ 1024 * advance - 64 <= Samples[kind] * inc
         /\ Samples[kind] * inc <= 1024 * advance
         /\ kind = "express" => Samples[kind] * inc = 1024 * advance
         /\ kind = "ultra" => (Samples[kind] * inc = 1024 * advance <=> (advance * 32) % 3 = 0)
<1>1. advance \in 1 .. Turn6 - 1 /\ advance \in 1 .. Fastest
  BY Slow
<1>2. advance \in Int /\ 0 < advance /\ advance <= 4544
  BY <1>1 DEF Fastest
<1>3. /\ inc \in Nat /\ inc > 0
      /\ Samples[kind] * inc \in 1024 * advance - 64 .. 1024 * advance
      /\ kind = "express" => Samples[kind] * inc = 1024 * advance
      /\ kind = "ultra" => (Samples[kind] * inc = 1024 * advance <=> (advance * 32) % 3 = 0)
  BY <1>1, Steps
<1>4. Samples[kind] \in Nat /\ Samples[kind] > 1
  BY Counts DEF Kinds
<1>5. start \in Int /\ 0 <= start /\ start < Turn6
  BY TurnTypes
<1>6. /\ Samples[kind] * inc \in Int
      /\ 1024 * advance - 64 <= Samples[kind] * inc /\ Samples[kind] * inc <= 1024 * advance
  BY <1>2, <1>3, <1>4
<1>7. 4 * (Samples[kind] * inc) < Turn16
  <2>1. ASSUME NEW w \in Int, w <= 1024 * advance
        PROVE  4 * w < Turn16
    BY <1>2, <2>1, SMT DEF Turn16
  <2> QED BY <1>6, <2>1
<1>8. start * 1024 \in Int /\ 0 <= start * 1024 /\ start * 1024 < Turn16
  BY <1>5, TurnTypes
<1> QED BY <1>3, <1>4, <1>6, <1>7, <1>8 DEF Steady

\* what Capsule marks
LEMMA SyncOf ==
  ASSUME case.kind \in Kinds, NEW prev, NEW cur, NEW last,
         ~TooFar(prev, cur, 40, SampleDuration), ~TooFar(prev, cur, 32, SampleDuration)
  PROVE  Capsule(prev, cur, last).sync
           = Marked(case.kind, prev, cur, IF Doubled(case.kind) THEN last ELSE FALSE)
<1>2. CASE case.kind = "express"
  <2>1. Capsule(prev, cur, last) = ExpressCapsule(prev, cur, BitsOf)
    BY <1>2 DEF Capsule
  <2>2. ExpressCapsule(prev, cur, BitsOf).sync = Marked("express", prev, cur, FALSE)
    BY SMT DEF ExpressCapsule, Publish
  <2>3. ~Doubled(case.kind)
    BY <1>2 DEF Doubled
  <2> QED BY <1>2, <2>1, <2>2, <2>3
<1>3. CASE case.kind = "ultra"
  <2>1. Capsule(prev, cur, last) = UltraCapsule(prev, cur, DistanceOf)
    BY <1>3 DEF Capsule
  <2>2. UltraCapsule(prev, cur, DistanceOf).sync = Marked("ultra", prev, cur, FALSE)
    BY SMT DEF UltraCapsule, Publish
  <2>3. ~Doubled(case.kind)
    BY <1>3 DEF Doubled
  <2> QED BY <1>3, <2>1, <2>2, <2>3
<1>4. CASE case.kind = "dense"
  <2>1. Capsule(prev, cur, last) = DenseCapsule(prev, cur, last, SampleDuration)
    BY <1>4 DEF Capsule
  <2>2. DenseCapsule(prev, cur, last, SampleDuration).sync = Marked("dense", prev, cur, last)
    BY SMT DEF DenseCapsule, Publish
  <2>3. Doubled(case.kind)
    BY <1>4 DEF Doubled
  <2> QED BY <1>4, <2>1, <2>2, <2>3
<1>5. CASE case.kind = "ultra_dense"
  <2>1. Capsule(prev, cur, last) = UltraDenseCapsule(prev, cur, last, SampleDuration)
    BY <1>5 DEF Capsule
  <2>2. UltraDenseCapsule(prev, cur, last, SampleDuration).sync
          = Marked("ultra_dense", prev, cur, last)
    BY SMT DEF UltraDenseCapsule, Publish
  <2>3. Doubled(case.kind)
    BY <1>5 DEF Doubled
  <2> QED BY <1>5, <2>1, <2>2, <2>3
<1> QED BY <1>2, <1>3, <1>4, <1>5 DEF Kinds

\* what it marks, in numbers; dense samples mark early only after an unmarked one
MarksOf(marks, kind, start, inc, last) ==
  MarkedOnce(marks, start * 1024, inc, Samples[kind], Doubled(kind) /\ ~last)

\* the marks of the capsule that ends at cur
LEMMA CapsuleMarks ==
  ASSUME case.kind \in Kinds, case.start \in 0 .. Turn6 - 1, NEW advance \in Advances,
         NEW last \in BOOLEAN, NEW cur, cur = Onward(case.start, advance)
  PROVE  MarksOf(Capsule(case.start, cur, last).sync, case.kind, case.start,
                 Inc(case.kind, 4 * advance), last)
<1>1. /\ advance \in 1 .. Turn6 - 1
      /\ \A a, b : Diff8(a, b) = 4 * advance =>
              ~TooFar(a, b, 40, SampleDuration) /\ ~TooFar(a, b, 32, SampleDuration)
  BY Slow
<1>2. Diff8(case.start, cur) = 4 * advance
  BY <1>1, Advanced
<1> DEFINE inc == Inc(case.kind, 4 * advance)
           samples == Samples[case.kind]
           other == IF Doubled(case.kind) THEN last ELSE FALSE
           now == case.start * 1024
<1>3. Capsule(case.start, cur, last).sync = Marked(case.kind, case.start, cur, other)
  BY <1>1, <1>2, SyncOf
<1>4. Steady(now, inc, samples)
  BY StepNumbers
<1>5. \A p \in Int : \A c, l : Diff8(p, c) = 4 * advance =>
        Marked(case.kind, p, c, l)
          = IF Doubled(case.kind)
            THEN Alternate(Crosses(p * 1024, inc, samples, 2 * inc), l, samples)
            ELSE Crosses(p * 1024, inc, samples, inc)
  BY MarksAre DEF Doubled
<1> HIDE DEF inc, samples, other
<1>6. case.start \in Int
  BY TurnTypes
<1>7. Marked(case.kind, case.start, cur, other)
        = IF Doubled(case.kind)
          THEN Alternate(Crosses(now, inc, samples, 2 * inc), other, samples)
          ELSE Crosses(now, inc, samples, inc)
  BY <1>2, <1>5, <1>6
<1> HIDE DEF now
<1>8. CASE Doubled(case.kind)
  <2>1. other = last /\ (Doubled(case.kind) /\ ~last) = ~last
    BY <1>8 DEF other
  <2>2. MarkedOnce(Alternate(Crosses(now, inc, samples, 2 * inc), last, samples),
                   now, inc, samples, ~last)
    BY <1>4, AlternateMarks
  <2>3. Capsule(case.start, cur, last).sync
          = Alternate(Crosses(now, inc, samples, 2 * inc), other, samples)
    BY <1>3, <1>7, <1>8, Zenon
  <2>4. MarkedOnce(Capsule(case.start, cur, last).sync, now, inc, samples,
                   Doubled(case.kind) /\ ~last)
    BY <2>1, <2>2, <2>3, Zenon
  <2> QED BY <2>4 DEF MarksOf, now, inc, samples
<1>9. CASE ~Doubled(case.kind)
  <2>1. (Doubled(case.kind) /\ ~last) = FALSE
    BY <1>9
  <2>2. MarkedOnce(Crosses(now, inc, samples, inc), now, inc, samples, FALSE)
    BY <1>4, SingleMarks
  <2>3. Capsule(case.start, cur, last).sync = Crosses(now, inc, samples, inc)
    BY <1>3, <1>7, <1>9, Zenon
  <2>4. MarkedOnce(Capsule(case.start, cur, last).sync, now, inc, samples,
                   Doubled(case.kind) /\ ~last)
    BY <2>1, <2>2, <2>3, Zenon
  <2> QED BY <2>4 DEF MarksOf, now, inc, samples
<1> QED BY <1>8, <1>9

-----------------------------------------------------------------------------
(***************************************************************************)
(* Where the last mark was.  A dense capsule that starts at exactly 0      *)
(* degrees has the turn's mark still to come.  But for that, the last mark *)
(* was within a step of the turn's start, and an unmarked start between    *)
(* the turn's start and the first step after it is past the last step.     *)
(***************************************************************************)
Pending == Doubled(case.kind) /\ case.start = 0 /\ ~case.marked

Lag == case.start * 1024 + (IF Pending THEN Turn16 ELSE 0) - case.since

MarkInv ==
  /\ Has({"marked", "since", "markStep", "gaps"})
  /\ case.marked \in BOOLEAN
  /\ case.since \in Int
  /\ case.markStep \in Nat
  /\ case.step \in Nat
  /\ case.since # -1 => /\ case.since >= 0
                        /\ case.step > 0
                        /\ 0 - case.markStep <= Lag
                        /\ Lag <= case.markStep
  /\ Doubled(case.kind) /\ ~case.marked /\ case.step > 0 =>
       case.start = 0 \/ case.step <= case.start * 1024

TurnOf ==
  LET width == case'.step + case.markStep
  IN /\ \A g \in case'.gaps : Distance(g, Turn16) <= width \/ (MarkedAgain /\ g <= width)
     /\ case'.since <= Turn16 + width

(***************************************************************************)
(* What a capsule does to the mark: it has none, or it has sample m.       *)
(***************************************************************************)
Passed(advance, inc, unreached) ==
  /\ case'.markStep = IF unreached THEN inc ELSE case.markStep
  /\ case'.since = IF unreached THEN 0 ELSE IF case.since = -1 THEN -1
                   ELSE case.since + advance * 1024
  /\ \A g \in case'.gaps : unreached /\ case.since # -1 /\ g = case.since + advance * 1024
  /\ ~case'.marked

MarkedAt(advance, inc, m) ==
  /\ case'.markStep = inc
  /\ case'.since = advance * 1024 - m * inc
  /\ \A g \in case'.gaps : case.since # -1 /\ g = case.since + m * inc
  /\ case'.marked = (m = Samples[case.kind] - 1)

Swept(advance) == Capsule(case.start, Onward(case.start, advance), case.marked).sync

\* the angles that gaps and since are made of
LEMMA FromMarks ==
  ASSUME NEW marks, NEW inc, NEW angle, NEW j \in Int
  PROVE  /\ marks = {} =>
              FromMark(marks, j, inc, angle)
                = IF case.since = -1 THEN -1 ELSE case.since + angle
         /\ \A m \in Int : marks = {m} =>
              FromMark(marks, j, inc, angle)
                = IF m < j THEN angle - m * inc
                  ELSE IF case.since = -1 THEN -1 ELSE case.since + angle
<1>1. ASSUME marks = {}
      PROVE  {k \in marks : k < j} = {}
  BY <1>1
<1>2. ASSUME NEW m \in Int, marks = {m}
      PROVE  FromMark(marks, j, inc, angle)
               = IF m < j THEN angle - m * inc
                 ELSE IF case.since = -1 THEN -1 ELSE case.since + angle
  <2>1. CASE m < j
    <3>1. {k \in marks : k < j} = {m}
      BY <1>2, <2>1
    <3>2. Greatest({m}) = m
      BY DEF Greatest
    <3> QED BY <2>1, <3>1, <3>2, Zenon DEF FromMark
  <2>2. CASE ~(m < j)
    <3>1. {k \in marks : k < j} = {}
      BY <1>2, <2>2
    <3> QED BY <2>2, <3>1, Zenon DEF FromMark
  <2> QED BY <2>1, <2>2
<1>3. marks = {} => FromMark(marks, j, inc, angle)
                      = IF case.since = -1 THEN -1 ELSE case.since + angle
  BY <1>1, Zenon DEF FromMark
<1> QED BY <1>2, <1>3

\* one of the two, by what the capsule marks
LEMMA MarkOfCapsule ==
  ASSUME IInv, MarkInv, NEW advance \in Advances, NextCapsule(advance)
  PROVE  /\ Swept(advance) = {} =>
              Passed(advance, Inc(case.kind, 4 * advance),
                     Unreached(advance, Onward(case.start, advance)))
         /\ \A m \in 0 .. Samples[case.kind] - 1 :
              Swept(advance) = {m} /\ ~Unreached(advance, Onward(case.start, advance)) =>
                MarkedAt(advance, Inc(case.kind, 4 * advance), m)
         /\ case'.start = Onward(case.start, advance)
         /\ case'.step = Inc(case.kind, 4 * advance)
         /\ case'.kind = case.kind
         /\ DOMAIN case' = DOMAIN case
         /\ case'.marked \in BOOLEAN
<1> DEFINE cur == Onward(case.start, advance)
           inc == Inc(case.kind, Diff8(case.start, cur))
           marks == Capsule(case.start, cur, case.marked).sync
           unreached == Unreached(advance, cur)
           whole == FromMark(marks, Samples[case.kind], inc, advance * 1024)
<1>1. case.of = "turn" /\ TurnInv
  BY DEF NextCapsule, IInv
<1>2. case.kind \in Kinds /\ case.start \in 0 .. Turn6 - 1
  BY <1>1 DEF TurnInv
<1>3. advance \in 1 .. Turn6 - 1
  BY Slow
<1>4. inc = Inc(case.kind, 4 * advance)
  BY <1>2, <1>3, Advanced
<1>5. case' = [case EXCEPT
          !.start = cur,
          !.from = case.start,
          !.step = inc,
          !.capsules = @ + 1,
          !.marked = Samples[case.kind] - 1 \in marks,
          !.markStep = IF marks # {} \/ unreached THEN inc ELSE @,
          !.gaps = ({FromMark(marks, j, inc, j * inc) : j \in marks}
                    \cup (IF unreached THEN {whole} ELSE {})) \ {-1},
          !.first = IF marks # {} THEN Greatest(marks) ELSE @,
          !.since = IF unreached THEN 0 ELSE whole]
  BY Zenon DEF NextCapsule
<1>6. Has({"kind", "start", "from", "step", "marked", "since", "markStep", "gaps"})
  BY <1>1 DEF TurnInv, MarkInv, Has
<1>7. marks = Swept(advance)
  BY DEF Swept
<1> DEFINE gaps == ({FromMark(marks, j, inc, j * inc) : j \in marks}
                       \cup (IF unreached THEN {whole} ELSE {})) \ {-1}
<1>8. marks = {} => gaps = (IF unreached THEN {whole} ELSE {}) \ {-1}
  BY Zenon
<1>9. \A m : marks = {m} /\ ~unreached =>
        gaps = {FromMark(marks, m, inc, m * inc)} \ {-1}
  OBVIOUS
<1> HIDE DEF cur, unreached, inc, marks, whole, gaps
<1>10. /\ case'.start = cur /\ case'.step = inc /\ case'.kind = case.kind
       /\ DOMAIN case' = DOMAIN case
       /\ case'.marked = (Samples[case.kind] - 1 \in marks)
       /\ case'.markStep = IF marks # {} \/ unreached THEN inc ELSE case.markStep
       /\ case'.gaps = gaps
       /\ case'.since = IF unreached THEN 0 ELSE whole
  <2> DEFINE c == case
             marked == Samples[case.kind] - 1 \in marks
             markStep == IF marks # {} \/ unreached THEN inc ELSE case.markStep
             since == IF unreached THEN 0 ELSE whole
             capsules == case.capsules + 1
             first == IF marks # {} THEN Greatest(marks) ELSE case.first
  <2>1. case' = [case EXCEPT !.start = cur, !.from = case.start, !.step = inc,
                   !.capsules = capsules, !.marked = marked, !.markStep = markStep,
                   !.gaps = gaps, !.first = first, !.since = since]
    BY <1>5, Zenon DEF gaps
  <2> HIDE DEF c, marked, markStep, since, capsules, first
  <2>2. /\ case'.start = cur /\ case'.step = inc /\ case'.kind = case.kind
        /\ DOMAIN case' = DOMAIN case
        /\ case'.marked = marked /\ case'.markStep = markStep
        /\ case'.gaps = gaps /\ case'.since = since
    BY <1>6, <2>1 DEF Has
  <2> QED BY <2>2, Zenon DEF marked, markStep, since
<1>11. Samples[case.kind] \in Int
  BY <1>2, Counts DEF Kinds
<1>12. ASSUME marks = {}
       PROVE  Passed(advance, inc, unreached)
  <2>1. whole = IF case.since = -1 THEN -1 ELSE case.since + advance * 1024
    BY <1>11, <1>12, FromMarks DEF whole
  <2>2. case'.since = IF unreached THEN 0 ELSE IF case.since = -1 THEN -1
                      ELSE case.since + advance * 1024
    BY <1>10, <2>1, ZenonT(40)
  <2>3. case'.markStep = IF unreached THEN inc ELSE case.markStep
    BY <1>10, <1>12, Zenon
  <2>4. \A g \in case'.gaps : unreached /\ g = whole /\ g # -1
    BY <1>8, <1>10, <1>12
  <2>5. ASSUME NEW g \in case'.gaps
        PROVE  unreached /\ case.since # -1 /\ g = case.since + advance * 1024
    <3>1. unreached /\ g = whole /\ g # -1
      BY <2>4, Zenon
    <3>2. case.since # -1
      BY <2>1, <3>1, ZenonT(40)
    <3>3. whole = case.since + advance * 1024
      BY <2>1, <3>2, ZenonT(40)
    <3> QED BY <3>1, <3>2, <3>3, ZenonT(40)
  <2>6. ~(Samples[case.kind] - 1 \in marks)
    BY <1>12
  <2>7. ~case'.marked
    BY <1>10, <2>6, Zenon
  <2> QED BY <2>2, <2>3, <2>5, <2>7, Zenon DEF Passed
<1>13. ASSUME NEW m \in 0 .. Samples[case.kind] - 1, marks = {m}, ~unreached
       PROVE  MarkedAt(advance, inc, m)
  <2>1. m \in Int /\ m < Samples[case.kind] /\ ~(m < m)
    BY <1>11
  <2>2. whole = advance * 1024 - m * inc
    BY <1>11, <1>13, <2>1, FromMarks DEF whole
  <2>3. FromMark(marks, m, inc, m * inc)
          = IF case.since = -1 THEN -1 ELSE case.since + m * inc
    BY <1>13, <2>1, FromMarks
  <2>4. \A g \in case'.gaps : g = FromMark(marks, m, inc, m * inc) /\ g # -1
    BY <1>9, <1>10, <1>13
  <2>5. ASSUME NEW g \in case'.gaps
        PROVE  case.since # -1 /\ g = case.since + m * inc
    <3>1. g = FromMark(marks, m, inc, m * inc) /\ g # -1
      BY <2>4, Zenon
    <3>2. case.since # -1
      BY <2>3, <3>1, Zenon
    <3>3. FromMark(marks, m, inc, m * inc) = case.since + m * inc
      BY <2>3, <3>2, Zenon
    <3> QED BY <3>1, <3>2, <3>3, Zenon
  <2>6. case'.marked = (m = Samples[case.kind] - 1)
    BY <1>10, <1>13
  <2>7. case'.markStep = inc
    BY <1>10, <1>13
  <2>8. case'.since = advance * 1024 - m * inc
    BY <1>10, <1>13, <2>2
  <2> QED BY <2>5, <2>6, <2>7, <2>8, ZenonT(40) DEF MarkedAt
<1>14. marks = {} => Passed(advance, Inc(case.kind, 4 * advance), unreached)
  BY <1>4, <1>12
<1>15. \A m \in 0 .. Samples[case.kind] - 1 :
         marks = {m} /\ ~unreached => MarkedAt(advance, Inc(case.kind, 4 * advance), m)
  BY <1>4, <1>13
<1>16. case'.start = cur /\ case'.step = Inc(case.kind, 4 * advance)
  BY <1>4, <1>10
<1>17. case'.marked \in BOOLEAN
  BY <1>10
<1> QED BY <1>7, <1>10, <1>14, <1>15, <1>16, <1>17, Zenon DEF unreached, cur

(***************************************************************************)
(* What a capsule does, in numbers.  now: where it starts, w: what its     *)
(* samples span, turn: what it spans, after: where it ends, owed: what a   *)
(* pending mark stands for.                                                *)
(***************************************************************************)
LEMMA TurnStep ==
  ASSUME IInv, MarkInv, NEW advance \in Advances, NextCapsule(advance)
  PROVE  MarkInv' /\ TurnOf
<1> DEFINE cur == Onward(case.start, advance)
           inc == Inc(case.kind, 4 * advance)
           n == Samples[case.kind]
           dense == Doubled(case.kind)
           unreached == Unreached(advance, cur)
           now == case.start * 1024
           w == n * inc
           span == advance * 1024
           after == cur * 1024
           owed == IF Pending THEN Turn16 ELSE 0
           since == case.since
           ms == case.markStep
           owedAfter == IF dense /\ cur = 0 /\ ~case'.marked THEN Turn16 ELSE 0
<1>1. case.of = "turn" /\ TurnInv
  BY DEF NextCapsule, IInv
<1>2. case.kind \in Kinds /\ case.start \in 0 .. Turn6 - 1
  BY <1>1 DEF TurnInv
<1>3. advance \in 1 .. Turn6 - 1
  BY Slow
<1>4. /\ Steady(now, inc, n)
      /\ 1024 * advance - 64 <= w /\ w <= 1024 * advance
      /\ case.kind = "express" => w = 1024 * advance
      /\ case.kind = "ultra" => (w = 1024 * advance <=> (advance * 32) % 3 = 0)
  BY <1>2, StepNumbers
<1>5. /\ now \in Int /\ 0 <= now /\ now < Turn16
      /\ inc \in Nat /\ inc > 0
      /\ n \in Nat /\ n > 1
      /\ w \in Int /\ 4 * w < Turn16
  BY <1>4 DEF Steady
<1>6. advance \in Int /\ 0 < advance /\ case.start \in Int /\ 0 <= case.start
  BY <1>2, <1>3, TurnTypes
<1>7. span \in Int /\ span = 1024 * advance /\ 0 < span /\ span - 64 <= w /\ w <= span
  BY <1>4, <1>5, <1>6
<1>8. inc <= w
  <2>1. 0 * inc + inc <= w
    BY <1>5, Products
  <2> QED BY <1>5, <2>1
<1>9. /\ after \in Int /\ 0 <= after /\ cur \in Int /\ 0 <= cur
      /\ cur = 0 <=> after = 0
      /\ after < 64 => after = 0
      /\ after = IF now + span < Turn16 THEN now + span ELSE now + span - Turn16
  <2>1. cur \in 0 .. Turn6 - 1
    BY <1>2, <1>3, Advanced
  <2>2. cur \in Int /\ 0 <= cur
    BY <2>1, TurnTypes
  <2>3. cur = IF case.start + advance < Turn6 THEN case.start + advance
              ELSE case.start + advance - Turn6
    BY DEF Onward
  <2> HIDE DEF cur
  <2>4. now + span < Turn16 <=> case.start + advance < Turn6
    BY <1>6, TurnTypes
  <2>5. after = IF now + span < Turn16 THEN now + span ELSE now + span - Turn16
    BY <1>6, <2>2, <2>3, <2>4, TurnTypes
  <2> QED BY <2>2, <2>5
<1>10. Turn16 \in Int /\ Turn16 > 1024
  BY TurnTypes
<1>11. /\ case.marked \in BOOLEAN /\ since \in Int /\ ms \in Nat /\ case.step \in Nat
       /\ since # -1 => /\ since >= 0
                        /\ case.step > 0
                        /\ 0 - ms <= now + owed - since
                        /\ now + owed - since <= ms
       /\ dense /\ ~case.marked /\ case.step > 0 => case.start = 0 \/ case.step <= now
  BY DEF MarkInv, Lag
<1>12. Pending <=> dense /\ case.start = 0 /\ ~case.marked
  BY DEF Pending
<1>13. case.start = 0 <=> now = 0
  BY <1>6
<1>14. /\ Swept(advance) = {} => Passed(advance, inc, unreached)
       /\ \A m \in 0 .. n - 1 :
            Swept(advance) = {m} /\ ~unreached => MarkedAt(advance, inc, m)
       /\ case'.start = cur /\ case'.step = inc /\ case'.kind = case.kind
       /\ DOMAIN case' = DOMAIN case
       /\ case'.marked \in BOOLEAN
  BY MarkOfCapsule
<1>15. \/ dense /\ ~case.marked /\ now < inc /\ Swept(advance) = {0}
       \/ ~(dense /\ ~case.marked /\ now < inc) /\ now + w < Turn16 /\ Swept(advance) = {}
       \/ \E m \in 0 .. n - 1 : MarkedPast(Swept(advance), now, inc, n, m)
  <2>1. MarksOf(Swept(advance), case.kind, case.start, inc, case.marked)
    BY <1>2, <1>11, CapsuleMarks DEF Swept
  <2> QED BY <2>1 DEF MarksOf, MarkedOnce
<1>16. unreached <=> case.kind = "ultra" /\ cur = 0 /\ (advance * 32) % 3 # 0
  BY DEF Unreached
<1>17. dense => case.kind # "ultra" /\ case.kind # "express"
  BY DEF Doubled
<1>18. ~dense => case.kind = "ultra" \/ case.kind = "express"
  BY <1>2 DEF Doubled, Kinds
\* what is left to show
<1>19. ASSUME /\ case'.since \in Int /\ case'.markStep \in Nat
              /\ case'.since # -1 => /\ case'.since >= 0
                                     /\ 0 - case'.markStep <= after + owedAfter - case'.since
                                     /\ after + owedAfter - case'.since <= case'.markStep
              /\ dense /\ ~case'.marked => after = 0 \/ inc <= after
       PROVE  MarkInv'
  <2>1. Has({"marked", "since", "markStep", "gaps"})'
    BY <1>14 DEF Has, MarkInv
  <2>2. Pending' <=> dense /\ cur = 0 /\ ~case'.marked
    BY <1>14, Zenon DEF Pending
  <2>3. owedAfter = IF Pending' THEN Turn16 ELSE 0
    BY <2>2, Zenon
  <2>4. case'.start = 0 <=> after = 0
    BY <1>9, <1>14
  <2>5. case'.start * 1024 = after
    BY <1>14
  <2>6. case'.step \in Nat /\ case'.step > 0
    BY <1>5, <1>14
  <2>7. Doubled(case'.kind) <=> dense
    BY <1>14, Zenon
  <2> HIDE DEF after, owedAfter, inc, dense
  <2>8. Lag' = after + owedAfter - case'.since
    BY <2>3, <2>5, SMT DEF Lag, Turn16
  <2> QED BY <1>14, <1>19, <2>1, <2>4, <2>5, <2>6, <2>7, <2>8 DEF MarkInv
<1>20. ASSUME \A g \in case'.gaps : \/ Distance(g, Turn16) <= inc + ms
                                    \/ MarkedAgain /\ g <= inc + ms,
              case'.since <= Turn16 + (inc + ms)
       PROVE  TurnOf
  BY <1>14, <1>20, Zenon DEF TurnOf
<1>21. case.kind \in {"dense", "ultra_dense"} <=> dense
  BY DEF Doubled
<1> HIDE DEF cur, inc, n, dense, unreached, now, w, span, after, owed, since, ms, owedAfter
<1>22. ASSUME dense /\ ~case.marked /\ now < inc /\ Swept(advance) = {0}
       PROVE  MarkInv' /\ TurnOf
  <2>1. 0 \in 0 .. n - 1 /\ ~(0 = n - 1)
    BY <1>5
  <2>2. MarkedAt(advance, inc, 0)
    BY <1>14, <1>16, <1>17, <1>22, <2>1
  <2>3. case'.markStep = inc /\ case'.since = span /\ ~case'.marked
    <3>1. 0 * inc = 0
      BY <1>5
    <3>2. case'.since = advance * 1024 - 0
      BY <2>2, <3>1 DEF MarkedAt
    <3>3. case'.markStep = inc
      BY <2>2 DEF MarkedAt
    <3>4. ~case'.marked
      BY <2>1, <2>2, ZenonT(40) DEF MarkedAt, n
    <3>5. advance * 1024 - 0 = span
      BY <1>6 DEF span
    <3> QED BY <3>2, <3>3, <3>4, <3>5
  <2>4. \A g \in case'.gaps : since # -1 /\ g = since
    <3>1. \A g \in case'.gaps : since # -1 /\ g = since + 0 * inc
      BY <2>2, ZenonT(40) DEF MarkedAt, since
    <3>2. since + 0 * inc = since
      BY <1>5, <1>11
    <3> QED BY <3>1, <3>2
  <2>5. after = now + span /\ after # 0 /\ owedAfter = 0
    <3>1. after = now + span /\ after # 0
      BY <1>5, <1>7, <1>8, <1>9, <1>10, <1>22
    <3> QED BY <1>9, <3>1 DEF owedAfter
  <2>6. MarkInv'
    BY <1>5, <1>7, <1>8, <1>19, <1>22, <2>3, <2>5
  <2>7. ASSUME NEW g \in case'.gaps
        PROVE  Distance(g, Turn16) <= inc + ms \/ (MarkedAgain /\ g <= inc + ms)
    <3>1. since # -1 /\ g = since /\ g \in Int
      BY <1>11, <2>4
    <3>2. CASE Pending
      <4>1. owed = Turn16 /\ now = 0
        BY <1>12, <1>13, <3>2 DEF owed
      <4>2. 0 - ms <= Turn16 - g /\ Turn16 - g <= ms
        BY <1>10, <1>11, <3>1, <4>1
      <4>3. Distance(g, Turn16) <= ms
        BY <1>10, <1>11, <3>1, <4>2 DEF Distance
      <4>4. Distance(g, Turn16) \in Int
        BY <1>10, <3>1 DEF Distance
      <4> QED BY <1>5, <1>11, <4>3, <4>4
    <3>3. CASE ~Pending
      <4>1. owed = 0 /\ case.start # 0
        BY <1>12, <1>22, <3>3 DEF owed
      <4>2. case.step <= now
        BY <1>11, <1>22, <3>1, <4>1
      <4>3. now \in case.step .. inc - 1
        BY <1>5, <1>11, <1>22, <4>2
      <4>4. MarkedAgain
        <5>1. case.kind \in {"dense", "ultra_dense"}
          BY <1>21, <1>22, Zenon
        <5>2. case.start * 1024 \in case.step .. case'.step - 1
          BY <1>14, <4>3, ZenonT(40) DEF now
        <5> QED BY <5>1, <5>2, ZenonT(40) DEF MarkedAgain
      <4>5. g <= inc + ms
        BY <1>5, <1>11, <1>22, <3>1, <4>1
      <4> QED BY <4>4, <4>5
    <3> QED BY <3>2, <3>3
  <2>8. case'.since <= Turn16 + (inc + ms)
    BY <1>5, <1>7, <1>10, <1>11, <2>3
  <2> QED BY <1>20, <2>6, <2>7, <2>8
<1>23. ASSUME ~(dense /\ ~case.marked /\ now < inc) /\ now + w < Turn16 /\ Swept(advance) = {}
       PROVE  MarkInv' /\ TurnOf
  <2>1. Passed(advance, inc, unreached)
    BY <1>14, <1>23
  <2>2. /\ case'.markStep = IF unreached THEN inc ELSE ms
        /\ case'.since = IF unreached THEN 0 ELSE IF since = -1 THEN -1 ELSE since + span
        /\ \A g \in case'.gaps : unreached /\ since # -1 /\ g = since + span
        /\ ~case'.marked
    BY <2>1, Zenon DEF Passed, since, ms, span
  <2>3. owed = 0
    <3>1. ~Pending
      BY <1>5, <1>12, <1>13, <1>23
    <3> QED BY <3>1 DEF owed
  <2>4. CASE unreached
    <3>1. ~dense /\ cur = 0 /\ after = 0
      BY <1>9, <1>16, <1>17, <2>4
    <3>2. now + span = Turn16
      BY <1>5, <1>7, <1>9, <3>1, <1>10
    <3>3. owedAfter = 0
      BY <3>1 DEF owedAfter
    <3>4. MarkInv'
      BY <1>5, <1>19, <2>2, <2>4, <3>1, <3>3
    <3>5. ASSUME NEW g \in case'.gaps
          PROVE  Distance(g, Turn16) <= inc + ms
      <4>1. since # -1 /\ g = since + span /\ g \in Int
        BY <1>7, <1>11, <2>2
      <4>2. 0 - ms <= Turn16 - g /\ Turn16 - g <= ms
        BY <1>5, <1>7, <1>10, <1>11, <2>3, <3>2, <4>1
      <4>3. Distance(g, Turn16) <= ms /\ Distance(g, Turn16) \in Int
        BY <1>10, <1>11, <4>1, <4>2 DEF Distance
      <4> QED BY <1>5, <1>11, <4>3
    <3>6. case'.since <= Turn16 + (inc + ms)
      BY <1>5, <1>10, <1>11, <2>2, <2>4
    <3> QED BY <1>20, <3>4, <3>5, <3>6
  <2>5. CASE ~unreached
    <3>1. \A g \in case'.gaps : FALSE
      BY <2>2, <2>5
    <3>2. case'.markStep = ms /\ case'.since = IF since = -1 THEN -1 ELSE since + span
      BY <2>2, <2>5
    <3>3. CASE now + span < Turn16
      <4>1. after = now + span /\ after # 0
        BY <1>5, <1>7, <1>9, <3>3
      <4>2. owedAfter = 0
        BY <1>9, <4>1 DEF owedAfter
      <4>3. inc <= after
        BY <1>5, <1>7, <1>8, <4>1
      <4>4. MarkInv'
        BY <1>5, <1>7, <1>11, <1>19, <2>3, <3>2, <4>1, <4>2, <4>3
      <4>5. case'.since <= Turn16 + (inc + ms)
        BY <1>5, <1>7, <1>10, <1>11, <2>3, <3>2, <3>3
      <4> QED BY <1>20, <3>1, <4>4, <4>5
    <3>4. CASE ~(now + span < Turn16)
      <4>1. after = now + span - Turn16
        BY <1>9, <3>4
      <4>2. after = 0 /\ cur = 0 /\ now + span = Turn16
        BY <1>5, <1>7, <1>9, <1>10, <1>23, <4>1
      <4>3. w # span
        BY <1>5, <1>7, <1>10, <1>23, <4>2
      <4>4. dense
        BY <1>4, <1>7, <1>16, <1>18, <2>5, <4>2, <4>3
      <4>5. owedAfter = Turn16
        BY <2>2, <4>2, <4>4 DEF owedAfter
      <4>6. MarkInv'
        BY <1>5, <1>7, <1>10, <1>11, <1>19, <2>3, <3>2, <4>2, <4>5
      <4>7. case'.since <= Turn16 + (inc + ms)
        BY <1>5, <1>7, <1>10, <1>11, <2>3, <3>2, <4>2
      <4> QED BY <1>20, <3>1, <4>6, <4>7
    <3> QED BY <3>3, <3>4
  <2> QED BY <2>4, <2>5
<1>24. ASSUME NEW m \in 0 .. n - 1, MarkedPast(Swept(advance), now, inc, n, m)
       PROVE  MarkInv' /\ TurnOf
  <2> DEFINE q == m * inc
  <2>1. m \in Int /\ 0 <= m /\ m < n
    BY <1>5
  <2>2. q \in Int /\ 0 <= q /\ q + inc <= w
    <3>1. m * inc + inc <= w
      BY <1>5, <2>1, Products DEF w
    <3> QED BY <1>5, <2>1, <3>1
  <2>3. /\ Swept(advance) = {m}
        /\ Turn16 <= now + w
        /\ Turn16 <= now + q + inc
        /\ now + q < Turn16 + inc
        /\ m = n - 1 \/ Turn16 + inc <= now + w
    BY <1>24 DEF MarkedPast, w
  <2> HIDE DEF q
  <2>4. after = now + span - Turn16
    BY <1>5, <1>7, <1>9, <1>10, <2>3
  <2>5. ~unreached
    <3>1. ASSUME unreached
          PROVE  FALSE
      <4>1. after = 0 /\ w # span
        BY <1>4, <1>7, <1>9, <1>16, <3>1
      <4> QED BY <1>5, <1>7, <1>10, <2>3, <2>4, <4>1
    <3> QED BY <3>1
  <2>6. MarkedAt(advance, inc, m)
    BY <1>14, <2>3, <2>5
  <2>7. /\ case'.markStep = inc
        /\ case'.since = span - q
        /\ \A g \in case'.gaps : since # -1 /\ g = since + q
        /\ case'.marked = (m = n - 1)
    BY <2>6, Zenon DEF MarkedAt, since, span, q, n
  <2>8. owed = 0
    <3>1. now # 0
      BY <1>5, <1>10, <2>3
    <3> QED BY <1>12, <1>13, <3>1 DEF owed
  <2>9. ~case'.marked => inc <= after
    <3>1. ASSUME ~case'.marked
          PROVE  Turn16 + inc <= now + w
      <4>1. m # n - 1
        BY <2>7, <3>1, Zenon
      <4> QED BY <2>3, <4>1
    <3> QED BY <1>5, <1>7, <1>10, <2>4, <3>1
  <2>10. owedAfter = 0
    <3>1. ~(cur = 0 /\ ~case'.marked)
      BY <1>5, <1>9, <2>9
    <3> QED BY <3>1 DEF owedAfter
  <2>11. MarkInv'
    BY <1>5, <1>7, <1>9, <1>10, <1>19, <2>2, <2>3, <2>4, <2>7, <2>9, <2>10
  <2>12. ASSUME NEW g \in case'.gaps
         PROVE  Distance(g, Turn16) <= inc + ms
    <3>1. since # -1 /\ g = since + q /\ g \in Int
      BY <1>11, <2>2, <2>7
    <3>2. 0 - (inc + ms) <= Turn16 - g /\ Turn16 - g <= inc + ms
      BY <1>5, <1>10, <1>11, <2>2, <2>3, <2>8, <3>1
    <3> QED BY <1>5, <1>10, <1>11, <3>1, <3>2 DEF Distance
  <2>13. case'.since <= Turn16 + (inc + ms)
    BY <1>5, <1>7, <1>10, <1>11, <2>2, <2>7
  <2> QED BY <1>20, <2>11, <2>12, <2>13
<1> QED BY <1>15, <1>22, <1>23, <1>24

-----------------------------------------------------------------------------
(***************************************************************************)
(* MarkInv is inductive together with the invariant of the cases.          *)
(***************************************************************************)
Marks == IInv /\ (case.of = "turn" => MarkInv)

\* no mark yet
LEMMA InitMarks == Init => Marks
<1> SUFFICES ASSUME Init, case.of = "turn" PROVE MarkInv
  BY InitInv DEF Marks
<1>1. case \in Turning
  BY DEF Init, Watching, SteeringCases
<1>2. /\ Has({"marked", "since", "markStep", "gaps"})
      /\ case.marked \in BOOLEAN /\ case.since = -1 /\ case.markStep = 0 /\ case.step = 0
  BY <1>1 DEF Turning, Has
<1> QED BY <1>2 DEF MarkInv

\* only capsules change what MarkInv is about
LEMMA StepMarks == Marks /\ [Next]_case => Marks'
<1> SUFFICES ASSUME Marks, [Next]_case, case'.of = "turn" PROVE MarkInv'
  BY StepInv DEF Marks
<1>1. IInv /\ Has({"of"})
  BY DEF Marks, IInv
<1>2. ASSUME NEW advance \in Advances, NextCapsule(advance) PROVE MarkInv'
  <2>1. case.of = "turn"
    BY <1>2 DEF NextCapsule
  <2> QED BY <1>1, <1>2, <2>1, TurnStep DEF Marks
<1>3. ASSUME NEW scan, CalibrateScan(scan) PROVE FALSE
  <2>1. case.of = "watch" /\ case'.of = case.of
    BY <1>1, <1>3 DEF CalibrateScan, Calibrated, Has
  <2> QED BY <2>1
<1>4. ASSUME NEW visit, Watch(visit) PROVE FALSE
  <2>1. case.of = "watch" /\ case'.of = case.of
    BY <1>1, <1>4 DEF Watch, Watched, Has
  <2> QED BY <2>1
<1>5. ASSUME SteerPeriod PROVE FALSE
  <2>1. case.of = "steer" /\ case'.of = case.of
    BY <1>1, <1>5 DEF SteerPeriod, Has
  <2> QED BY <2>1
<1>6. CASE UNCHANGED case
  <2>1. MarkInv
    BY <1>6 DEF Marks
  <2> QED BY <1>6, <2>1 DEF MarkInv, Has, Lag, Pending
<1> QED BY <1>2, <1>3, <1>4, <1>5, <1>6 DEF Next

(***************************************************************************)
(* However the speed of the lidar changes, from whatever angle and for     *)
(* however long, a turn is marked once, but in the two cases named at      *)
(* TurnMarkedOnce (handler_capsules.cpp:234, 541, 766, 1020): they are the *)
(* only ways in which the marks break the promise of a scan.               *)
(***************************************************************************)
THEOREM TurnsMarked == Spec => TurnMarkedOnce
<1>1. ASSUME Marks, Next, case.of = "turn"
      PROVE  TurnOf
  <2>1. IInv /\ MarkInv
    BY <1>1 DEF Marks
  <2>2. PICK advance \in Advances : NextCapsule(advance)
    BY <1>1 DEF Next, CalibrateScan, Watch, SteerPeriod
  <2> QED BY <2>1, <2>2, TurnStep
<1>2. Marks /\ [Next]_case => [case.of = "turn" => TurnOf]_case
  BY <1>1
<1>3. Spec => []Marks
  BY InitMarks, StepMarks, PTL DEF Spec
<1>4. Spec => [][case.of = "turn" => TurnOf]_case
  BY <1>2, <1>3, PTL DEF Spec
<1> QED BY <1>4 DEF TurnMarkedOnce, TurnOf

-----------------------------------------------------------------------------
\* what holds of 0, and of a number if of the one before, holds of all
LEMMA Upwards ==
  ASSUME NEW N \in Nat, NEW S, 0 \in S, \A n \in 1 .. N : n - 1 \in S => n \in S
  PROVE  \A n \in 0 .. N : n \in S
<1> SUFFICES ASSUME NEW k \in 0 .. N, k \notin S PROVE FALSE
  OBVIOUS
<1> DEFINE Out == {n \in 0 .. N : n \notin S}
<1>1. Out \in SUBSET Nat /\ Out # {}
  OBVIOUS
<1>2. PICK n \in Out : \A m \in Out : n <= m
  BY <1>1, LeastElement
<1>3. n \in 1 .. N /\ n - 1 \in 0 .. N /\ n - 1 \notin Out
  BY <1>2
<1> QED BY <1>2, <1>3

\* the values a recurrence gives exist: a function that is defined by it has them
Recurs(g, N, base, step) ==
  g[0] = base /\ \A n \in 1 .. N : g[n] = step[<<n, g[n - 1]>>]

\* there is one for every recurrence on a type
LEMMA Recursion ==
  ASSUME NEW N \in Nat, NEW T, NEW base \in T, NEW step \in [(1 .. N) \X T -> T]
  PROVE  \E g \in [0 .. N -> T] : Recurs(g, N, base, step)
<1> DEFINE S == {n \in 0 .. N : \E g \in [0 .. n -> T] : Recurs(g, n, base, step)}
<1>1. 0 \in S
  <2> DEFINE g == [i \in 0 .. 0 |-> base]
  <2>1. g \in [0 .. 0 -> T] /\ Recurs(g, 0, base, step)
    BY DEF Recurs
  <2> QED BY <2>1
<1>2. ASSUME NEW n \in 1 .. N, n - 1 \in S
      PROVE  n \in S
  <2>0. n \in Nat /\ n # 0
    BY <1>2
  <2>1. PICK f \in [0 .. n - 1 -> T] : Recurs(f, n - 1, base, step)
    BY <1>2
  <2> DEFINE g == [i \in 0 .. n |-> IF i = n THEN step[<<n, f[n - 1]>>] ELSE f[i]]
  <2>2. f[n - 1] \in T /\ \A i \in 0 .. n : i # n => i \in 0 .. n - 1
    OBVIOUS
  <2>3. step[<<n, f[n - 1]>>] \in T
    BY <2>2
  <2>4. g \in [0 .. n -> T]
    BY <2>2, <2>3
  <2>5. g[0] = base
    BY <2>1 DEF Recurs
  <2>6. ASSUME NEW i \in 1 .. n
        PROVE  g[i] = step[<<i, g[i - 1]>>]
    <3>1. g[i - 1] = f[i - 1]
      <4>1. i - 1 \in 0 .. n /\ i - 1 # n
        BY <2>0
      <4> QED BY <4>1
    <3>2. CASE i = n
      <4>1. g[n] = step[<<n, f[n - 1]>>]
        BY <2>0
      <4> HIDE DEF g
      <4> QED BY <3>1, <3>2, <4>1
    <3>3. CASE i # n
      <4>1. i \in 1 .. n - 1 /\ i \in 0 .. n
        BY <2>0, <3>3
      <4>2. f[i] = step[<<i, f[i - 1]>>]
        BY <2>1, <4>1 DEF Recurs
      <4>3. g[i] = f[i]
        BY <3>3, <4>1
      <4> HIDE DEF g
      <4> QED BY <3>1, <4>2, <4>3
    <3> QED BY <3>2, <3>3
  <2>7. Recurs(g, n, base, step)
    BY <2>5, <2>6 DEF Recurs
  <2> QED BY <2>4, <2>7
<1> HIDE DEF S
<1>3. N \in S
  BY <1>1, <1>2, Upwards
<1> QED BY <1>3 DEF S

-----------------------------------------------------------------------------
\* a sequence with one element more
LEMMA Appended ==
  ASSUME NEW T, NEW s \in Seq(T), NEW x \in T
  PROVE  /\ Append(s, x) \in Seq(T)
         /\ Len(Append(s, x)) = Len(s) + 1
         /\ Append(s, x)[Len(s) + 1] = x
         /\ \A i \in 1 .. Len(s) : Append(s, x)[i] = s[i]
         /\ ToSet(Append(s, x)) = ToSet(s) \cup {x}
<1> DEFINE a == Append(s, x)
<1>1. a \in Seq(T) /\ Len(a) = Len(s) + 1 /\ Len(s) \in Nat
  OBVIOUS
<1>2. a[Len(s) + 1] = x /\ \A i \in 1 .. Len(s) : a[i] = s[i]
  OBVIOUS
<1>3. DOMAIN a = 1 .. Len(s) + 1 /\ DOMAIN s = 1 .. Len(s)
  BY <1>1
<1> HIDE DEF a
<1>4. {a[i] : i \in 1 .. Len(s) + 1} = {s[i] : i \in 1 .. Len(s)} \cup {x}
  <2>1. \A i \in 1 .. Len(s) + 1 : i \in 1 .. Len(s) \/ i = Len(s) + 1
    BY <1>1
  <2>2. Len(s) + 1 \in 1 .. Len(s) + 1 /\ \A i \in 1 .. Len(s) : i \in 1 .. Len(s) + 1
    BY <1>1
  <2> QED BY <1>2, <2>1, <2>2
<1>5. ToSet(a) = ToSet(s) \cup {x}
  BY <1>3, <1>4 DEF ToSet
<1> QED BY <1>1, <1>2, <1>5 DEF a

\* Those, step by step
LEMMA ThoseSteps ==
  ASSUME NEW T, NEW seq \in Seq(T), NEW places
  PROVE  \E kept \in [0 .. Len(seq) -> Seq(T)] :
           /\ Those(seq, places) = kept[Len(seq)]
           /\ kept[0] = <<>>
           /\ \A i \in 1 .. Len(seq) :
                kept[i] = IF i \in places THEN Append(kept[i - 1], seq[i]) ELSE kept[i - 1]
<1> DEFINE N == Len(seq)
           step == [p \in (1 .. N) \X Seq(T) |->
                      IF p[1] \in places THEN Append(p[2], seq[p[1]]) ELSE p[2]]
           Is(f) == f = [i \in 0 .. N |->
                           IF i = 0 THEN <<>>
                           ELSE IF i \in places THEN Append(f[i - 1], seq[i]) ELSE f[i - 1]]
<1>1. N \in Nat /\ <<>> \in Seq(T)
  OBVIOUS
<1>2. step \in [(1 .. N) \X Seq(T) -> Seq(T)]
  OBVIOUS
<1> HIDE DEF N
<1>3. PICK g \in [0 .. N -> Seq(T)] : Recurs(g, N, <<>>, step)
  BY <1>1, <1>2, Recursion DEF step
<1>4. ASSUME NEW i \in 1 .. N
      PROVE  g[i] = IF i \in places THEN Append(g[i - 1], seq[i]) ELSE g[i - 1]
  <2>1. i - 1 \in 0 .. N
    BY <1>1
  <2> QED BY <1>3, <2>1 DEF Recurs
<1>5. g[0] = <<>>
  BY <1>3 DEF Recurs
<1>6. Is(g)
  <2>1. \A i \in 0 .. N : i # 0 => i \in 1 .. N
    BY <1>1
  <2>2. g = [i \in 0 .. N |-> g[i]]
    BY <1>3
  <2>3. \A i \in 0 .. N : g[i] = IF i = 0 THEN <<>>
                                  ELSE IF i \in places THEN Append(g[i - 1], seq[i]) ELSE g[i - 1]
    BY <1>4, <1>5, <2>1
  <2> QED BY <2>2, <2>3, ZenonT(40)
<1> DEFINE kept == CHOOSE f : Is(f)
<1>7. Is(kept)
  <2> HIDE DEF Is
  <2> QED BY <1>6
<1>8. Those(seq, places) = kept[N]
  BY ZenonT(40) DEF Those, N
<1> HIDE DEF kept
<1>9. kept[0] = <<>> /\ \A i \in 1 .. N :
        kept[i] = IF i \in places THEN Append(kept[i - 1], seq[i]) ELSE kept[i - 1]
  <2>1. 0 \in 0 .. N /\ \A i \in 1 .. N : i \in 0 .. N /\ i # 0
    BY <1>1
  <2> QED BY <1>7, <2>1, ZenonT(40)
<1> DEFINE S == {i \in 0 .. N : kept[i] \in Seq(T)}
<1>10. DOMAIN kept = 0 .. N /\ kept = [i \in 0 .. N |-> kept[i]]
  BY <1>7
<1>11. 0 \in S
  <2>1. kept[0] \in Seq(T) /\ 0 \in 0 .. N
    BY <1>1, <1>9
  <2> QED BY <2>1
<1>12. ASSUME NEW i \in 1 .. N, i - 1 \in S
       PROVE  i \in S
  <2>1. kept[i - 1] \in Seq(T) /\ seq[i] \in T
    BY <1>12 DEF N
  <2>2. kept[i] = Append(kept[i - 1], seq[i]) \/ kept[i] = kept[i - 1]
    BY <1>9, ZenonT(40)
  <2>3. kept[i] \in Seq(T)
    <3>1. CASE kept[i] = Append(kept[i - 1], seq[i])
      <4>1. Append(kept[i - 1], seq[i]) \in Seq(T)
        BY <2>1, Appended
      <4> QED BY <3>1, <4>1
    <3>2. CASE kept[i] = kept[i - 1]
      BY <2>1, <3>2
    <3> QED BY <2>2, <3>1, <3>2
  <2> QED BY <1>1, <2>3
<1>13. \A i \in 0 .. N : i \in S
  <2> HIDE DEF S
  <2> QED BY <1>1, <1>11, <1>12, Upwards
<1>14. kept \in [0 .. N -> Seq(T)]
  BY <1>10, <1>13
<1> QED BY <1>8, <1>9, <1>14 DEF N

\* what is kept: members of the sequence, all that are at the places
LEMMA ThoseKept ==
  ASSUME NEW T, NEW seq \in Seq(T), NEW places
  PROVE  /\ Those(seq, places) \in Seq(T)
         /\ ToSet(Those(seq, places)) = {seq[i] : i \in places \cap (1 .. Len(seq))}
<1> DEFINE N == Len(seq)
           Upto(i) == {seq[j] : j \in {k \in places \cap (1 .. N) : k <= i}}
<1>1. N \in Nat
  OBVIOUS
<1>2. PICK kept \in [0 .. N -> Seq(T)] :
        /\ Those(seq, places) = kept[N]
        /\ kept[0] = <<>>
        /\ \A i \in 1 .. N :
             kept[i] = IF i \in places THEN Append(kept[i - 1], seq[i]) ELSE kept[i - 1]
  BY ThoseSteps
<1> DEFINE S == {i \in 0 .. N : ToSet(kept[i]) = Upto(i)}
<1>3. 0 \in S
  <2>1. ToSet(kept[0]) = {}
    BY <1>2 DEF ToSet
  <2>2. Upto(0) = {}
    BY <1>1
  <2> QED BY <1>1, <2>1, <2>2
<1>4. ASSUME NEW i \in 1 .. N, i - 1 \in S
      PROVE  i \in S
  <2>1. kept[i - 1] \in Seq(T) /\ seq[i] \in T /\ ToSet(kept[i - 1]) = Upto(i - 1)
    BY <1>4
  <2>2. ASSUME i \in places
        PROVE  ToSet(kept[i]) = ToSet(kept[i - 1]) \cup {seq[i]}
    <3>1. kept[i] = Append(kept[i - 1], seq[i])
      BY <1>2, <2>2
    <3> QED BY <2>1, <3>1, Appended
  <2>3. i \notin places => kept[i] = kept[i - 1]
    BY <1>2
  <2>4. i \in places => Upto(i) = Upto(i - 1) \cup {seq[i]}
    BY <1>1
  <2>5. i \notin places => Upto(i) = Upto(i - 1)
    BY <1>1
  <2>6. ToSet(kept[i]) = Upto(i)
    <3> HIDE DEF Upto
    <3> QED BY <2>1, <2>2, <2>3, <2>4, <2>5
  <2> QED BY <1>1, <2>6
<1>5. N \in S
  <2>1. \A i \in 0 .. N : i \in S
    <3> HIDE DEF N, S
    <3> QED BY <1>1, <1>3, <1>4, Upwards
  <2> QED BY <1>1, <2>1
<1>6. Upto(N) = {seq[i] : i \in places \cap (1 .. N)}
  <2>1. {k \in places \cap (1 .. N) : k <= N} = places \cap (1 .. N)
    BY <1>1
  <2> QED BY <2>1
<1>7. ToSet(kept[N]) = Upto(N) /\ kept[N] \in Seq(T)
  BY <1>1, <1>5
<1> QED BY <1>2, <1>6, <1>7

\* places beyond the sequence do not count
LEMMA ThoseSame ==
  ASSUME NEW T, NEW seq \in Seq(T), NEW P, NEW Q,
         \A i \in 1 .. Len(seq) : i \in P <=> i \in Q
  PROVE  Those(seq, P) = Those(seq, Q)
<1> DEFINE N == Len(seq)
<1>1. N \in Nat
  OBVIOUS
<1>2. PICK f \in [0 .. N -> Seq(T)] :
        /\ Those(seq, P) = f[N]
        /\ f[0] = <<>>
        /\ \A i \in 1 .. N : f[i] = IF i \in P THEN Append(f[i - 1], seq[i]) ELSE f[i - 1]
  BY ThoseSteps, ZenonT(40)
<1>3. PICK g \in [0 .. N -> Seq(T)] :
        /\ Those(seq, Q) = g[N]
        /\ g[0] = <<>>
        /\ \A i \in 1 .. N : g[i] = IF i \in Q THEN Append(g[i - 1], seq[i]) ELSE g[i - 1]
  BY ThoseSteps, ZenonT(40)
<1> DEFINE S == {i \in 0 .. N : f[i] = g[i]}
<1> HIDE DEF N
<1>4. 0 \in S
  BY <1>1, <1>2, <1>3
<1>5. ASSUME NEW i \in 1 .. N, i - 1 \in S
      PROVE  i \in S
  <2>1. f[i - 1] = g[i - 1]
    BY <1>5
  <2>2. i \in P <=> i \in Q
    BY DEF N
  <2>3. f[i] = g[i]
    BY <1>2, <1>3, <2>1, <2>2, ZenonT(40)
  <2> QED BY <1>1, <2>3
<1>6. N \in S
  <2>1. \A i \in 0 .. N : i \in S
    <3> HIDE DEF S
    <3> QED BY <1>1, <1>4, <1>5, Upwards
  <2>2. N \in 0 .. N
    BY <1>1
  <2> QED BY <2>1, <2>2
<1> QED BY <1>2, <1>3, <1>6

\* without a place nothing is kept
LEMMA ThoseNone ==
  ASSUME NEW T, NEW seq \in Seq(T), NEW places, \A i \in 1 .. Len(seq) : i \notin places
  PROVE  Those(seq, places) = <<>>
<1>1. Those(seq, places) \in Seq(T) /\ ToSet(Those(seq, places)) = {}
  BY ThoseKept
<1> DEFINE s == Those(seq, places)
<1>2. s \in Seq(T) /\ {s[i] : i \in DOMAIN s} = {}
  BY <1>1 DEF ToSet
<1> HIDE DEF s
<1>3. Len(s) = 0
  <2>1. Len(s) \in Nat /\ DOMAIN s = 1 .. Len(s)
    BY <1>2
  <2>2. \A i \in DOMAIN s : FALSE
    BY <1>2
  <2>3. 1 \notin 1 .. Len(s)
    BY <2>1, <2>2
  <2> QED BY <2>1, <2>3
<1> QED BY <1>2, <1>3 DEF s

\* of a sequence of one
LEMMA ThoseOne ==
  ASSUME NEW T, NEW seq \in Seq(T), NEW places
  PROVE  Len(seq) = 1 => Those(seq, places) = IF 1 \in places THEN seq ELSE <<>>
<1> DEFINE N == Len(seq)
<1>1. PICK kept \in [0 .. N -> Seq(T)] :
        /\ Those(seq, places) = kept[N]
        /\ kept[0] = <<>>
        /\ \A i \in 1 .. N :
             kept[i] = IF i \in places THEN Append(kept[i - 1], seq[i]) ELSE kept[i - 1]
  BY ThoseSteps
<1> HAVE Len(seq) = 1
<1>2. N = 1 /\ 1 \in 1 .. N /\ 1 - 1 = 0
  OBVIOUS
<1> HIDE DEF N
<1>3. kept[1] = IF 1 \in places THEN Append(kept[1 - 1], seq[1]) ELSE kept[1 - 1]
  BY <1>1, <1>2
<1>4. Append(<<>>, seq[1]) = seq
  OBVIOUS
<1> QED BY <1>1, <1>2, <1>3, <1>4

\* each point joins the one before it
Chained(points) == \A i \in 1 .. Len(points) - 1 : Within(points[i], points[i + 1], 350)

\* the beginning of a sequence of points, and one point more
LEMMA Begun ==
  ASSUME NEW points \in Seq(Place), NEW i \in 1 .. Len(points)
  PROVE  /\ SubSeq(points, 1, i) \in Seq(Place)
         /\ SubSeq(points, 1, i) # <<>>
         /\ Last(SubSeq(points, 1, i)) = points[i]
         /\ i > 1 => Append(SubSeq(points, 1, i - 1), points[i]) = SubSeq(points, 1, i)
         /\ i = 1 => <<points[1]>> = SubSeq(points, 1, 1)
<1>1. Len(points) \in Nat /\ i \in Nat /\ 1 <= i /\ i <= Len(points)
  OBVIOUS
<1>2. Len(SubSeq(points, 1, i)) = i /\ SubSeq(points, 1, i) \in Seq(Place)
  BY <1>1
<1>3. Last(SubSeq(points, 1, i)) = points[i]
  BY <1>1, <1>2 DEF Last
<1>4. i > 1 => Append(SubSeq(points, 1, i - 1), points[i]) = SubSeq(points, 1, i)
  BY <1>1
<1>5. i = 1 => <<points[1]>> = SubSeq(points, 1, 1)
  BY <1>1
<1> QED BY <1>1, <1>2, <1>3, <1>4, <1>5

\* a chain is one run
LEMMA OneRun ==
  ASSUME NEW points \in Seq(Place), Chained(points)
  PROVE  Runs(points) = IF points = <<>> THEN <<>> ELSE <<points>>
<1> DEFINE N == Len(points)
           g == [i \in 0 .. N |-> IF i = 0 THEN <<>> ELSE <<SubSeq(points, 1, i)>>]
           Then(before, i) ==
             IF before # <<>> /\ Joins(Last(before), points[i])
             THEN Append(Front(before), Append(Last(before), points[i]))
             ELSE Append(before, <<points[i]>>)
           Is(f) == f = [i \in 0 .. N |-> IF i = 0 THEN <<>> ELSE Then(f[i - 1], i)]
<1>1. N \in Nat
  OBVIOUS
<1>2. \A i \in 1 .. N : i - 1 \in 0 .. N /\ i \in 0 .. N /\ i # 0
  BY <1>1
<1>3. ASSUME NEW i \in 1 .. N
      PROVE  Then(g[i - 1], i) = <<SubSeq(points, 1, i)>>
  <2>1. CASE i = 1
    <3>1. g[i - 1] = <<>>
      BY <1>2, <2>1
    <3>2. <<points[1]>> = SubSeq(points, 1, 1)
      BY <2>1, Begun
    <3>3. Append(<<>>, <<points[1]>>) = <<(<<points[1]>>)>>
      OBVIOUS
    <3> HIDE DEF g
    <3> QED BY <2>1, <3>1, <3>2, <3>3
  <2>2. CASE i # 1
    <3> DEFINE run == SubSeq(points, 1, i - 1)
    <3>1. i - 1 \in 1 .. N /\ i > 1 /\ (i - 1) + 1 = i /\ i - 1 \in 1 .. N - 1
      BY <1>1, <2>2
    <3>2. g[i - 1] = <<run>>
      BY <1>2, <3>1
    <3>3. /\ run \in Seq(Place) /\ Last(run) = points[i - 1]
          /\ Append(run, points[i]) = SubSeq(points, 1, i)
      BY <3>1, Begun
    <3>4. Within(points[i - 1], points[i], 350)
      BY <3>1 DEF Chained
    <3> HIDE DEF run, g
    <3>5. Last(<<run>>) = run /\ Front(<<run>>) = <<>> /\ <<run>> # <<>>
      BY DEF Last, Front
    <3>6. Joins(run, points[i])
      BY <3>3, <3>4 DEF Joins
    <3>7. Append(<<>>, SubSeq(points, 1, i)) = <<SubSeq(points, 1, i)>>
      OBVIOUS
    <3> QED BY <3>2, <3>3, <3>5, <3>6, <3>7
  <2> QED BY <2>1, <2>2
<1>4. Is(g)
  <2>1. \A i \in 0 .. N : g[i] = IF i = 0 THEN <<>> ELSE Then(g[i - 1], i)
    <3>1. \A i \in 0 .. N : i # 0 => i \in 1 .. N
      BY <1>1
    <3> HIDE DEF Then
    <3> QED BY <1>3, <3>1
  <2>2. g = [i \in 0 .. N |-> g[i]]
    OBVIOUS
  <2> HIDE DEF g, Then
  <2> QED BY <2>1, <2>2, ZenonT(40)
<1> DEFINE runs == CHOOSE f : Is(f)
<1>5. Is(runs)
  <2> HIDE DEF Is
  <2> QED BY <1>4
<1>6. Runs(points) = runs[N]
  BY ZenonT(40) DEF Runs
<1> HIDE DEF runs
<1>7. runs[0] = <<>> /\ \A i \in 1 .. N : runs[i] = Then(runs[i - 1], i)
  <2>1. 0 \in 0 .. N
    BY <1>1
  <2> HIDE DEF Then
  <2> QED BY <1>2, <1>5, <2>1, ZenonT(40)
<1> DEFINE S == {i \in 0 .. N : runs[i] = g[i]}
<1>8. 0 \in S
  BY <1>1, <1>7
<1>9. ASSUME NEW i \in 1 .. N, i - 1 \in S
      PROVE  i \in S
  <2>1. runs[i - 1] = g[i - 1] /\ g[i] = <<SubSeq(points, 1, i)>>
    BY <1>2, <1>9
  <2> HIDE DEF g, Then
  <2>2. runs[i] = g[i]
    BY <1>3, <1>7, <2>1
  <2> QED BY <1>2, <2>2
<1>10. \A i \in 0 .. N : i \in S
  <2> HIDE DEF S, N
  <2> QED BY <1>1, <1>8, <1>9, Upwards
<1>11. runs[N] = g[N]
  BY <1>1, <1>10
<1>12. CASE points = <<>>
  BY <1>6, <1>11, <1>12
<1>13. CASE points # <<>>
  <2>1. N # 0 /\ N \in 0 .. N
    BY <1>1, <1>13
  <2>2. SubSeq(points, 1, N) = points
    OBVIOUS
  <2>3. g[N] = <<points>>
    BY <2>1, <2>2
  <2> QED BY <1>6, <1>11, <1>13, <2>3
<1> QED BY <1>12, <1>13

\* and one cluster, if it is neither too short nor too long
LEMMA OneCluster ==
  ASSUME NEW points \in Seq(Place), Chained(points), Len(points) \in MinCluster .. MaxCluster,
         AlgorithmsAssumption
  PROVE  DoClustering(points) = <<points>>
<1> DEFINE runs == <<points>>
           places == {i \in DOMAIN runs : Len(runs[i]) \in MinCluster .. MaxCluster}
<1>1. points # <<>>
  BY DEF AlgorithmsAssumption
<1>2. Runs(points) = runs
  BY <1>1, OneRun
<1>3. runs \in Seq(Seq(Place)) /\ Len(runs) = 1 /\ 1 \in DOMAIN runs /\ runs[1] = points
  OBVIOUS
<1>4. 1 \in places
  BY <1>3
<1>5. DoClustering(points) = Those(runs, places)
  BY <1>2, Zenon DEF DoClustering
<1> HIDE DEF runs, places
<1>6. Those(runs, places) = runs
  BY <1>3, <1>4, ThoseOne
<1> QED BY <1>5, <1>6 DEF runs

\* no points, no cluster
LEMMA NoCluster == DoClustering(<<>>) = <<>>
<1> DEFINE places == {i \in DOMAIN <<>> : Len(<<>>[i]) \in MinCluster .. MaxCluster}
<1>1. <<>> \in Seq(Place) /\ Chained(<<>>)
  BY DEF Chained
<1>2. Runs(<<>>) = <<>>
  BY <1>1, OneRun
<1>3. DoClustering(<<>>) = Those(<<>>, places)
  BY <1>2, Zenon DEF DoClustering
<1>4. Those(<<>>, places) = <<>>
  <2>1. \A i \in 1 .. Len(<<>>) : i \notin places
    OBVIOUS
  <2> QED BY <1>1, <2>1, ThoseNone
<1> QED BY <1>3, <1>4

\* the points of a scan
LEMMA PointsIn ==
  ASSUME NEW scan \in Seq(Measured), AlgorithmsAssumption
  PROVE  Points(scan) \in Seq(Place)
<1> DEFINE nodes == Ascend(scan).nodes
           valid == PreprocessData(nodes)
           points == TransformCoordinates(valid)
<1>1. nodes \in Seq(Measured)
  BY Ascended
<1> HIDE DEF nodes
<1>2. valid \in Seq(Measured)
  BY <1>1, ThoseKept DEF PreprocessData
<1> HIDE DEF valid
<1>3. DOMAIN valid = 1 .. Len(valid) /\ Len(valid) \in Nat
  BY <1>2
<1>4. ASSUME NEW i \in 1 .. Len(valid)
      PROVE  points[i] \in Place
  <2>1. valid[i] \in Measured
    BY <1>2
  <2>2. valid[i].dist \in Nat /\ valid[i].angle \in 0 .. Full - 1
    BY <2>1, Zenon DEF Measured
  <2>3. Sine[valid[i].angle] \in Int /\ Cosine[valid[i].angle] \in Int
    BY <2>2, Zenon DEF AlgorithmsAssumption
  <2> DEFINE x == (valid[i].dist * Sine[valid[i].angle]) \div 1000
             y == (valid[i].dist * Cosine[valid[i].angle]) \div 1000
  <2>4. x \in Int /\ y \in Int
    BY <2>2, <2>3, SMTT(40)
  <2>5. points[i] = [x |-> x, y |-> y]
    BY <1>3, ZenonT(40) DEF TransformCoordinates
  <2> HIDE DEF x, y
  <2>6. [x |-> x, y |-> y] \in Place
    BY <2>4, Zenon DEF Place
  <2> HIDE DEF points
  <2> QED BY <2>5, <2>6, Zenon
<1>5. points = [i \in 1 .. Len(valid) |-> points[i]]
  BY <1>3 DEF TransformCoordinates
<1> HIDE DEF points
<1>6. points \in [1 .. Len(valid) -> Place]
  BY <1>4, <1>5
<1>7. points \in Seq(Place)
  <2> DEFINE n == Len(valid)
  <2> HIDE DEF n
  <2>1. n \in Nat /\ points \in [1 .. n -> Place]
    BY <1>3, <1>6 DEF n
  <2> QED BY <2>1
<1>8. Points(scan) = points
  BY Zenon DEF Points, points, valid, nodes
<1> QED BY <1>7, <1>8

-----------------------------------------------------------------------------
\* m is the inner product of two vectors with the squares A and C
LEMMA InnerProduct ==
  ASSUME NEW a \in Int, NEW b \in Int, NEW c \in Int, NEW d \in Int,
         a * a + b * b < 62500, c * c + d * d < 2500
  PROVE  a * c + b * d <= 12500
<1> DEFINE m == a * c + b * d
           w == a * d - b * c
           A == a * a + b * b
           C == c * c + d * d
<1>1. m \in Int /\ w \in Int /\ A \in Int /\ C \in Int
  OBVIOUS
<1>2. m * m + w * w = A * C
  OBVIOUS
<1>3. w * w >= 0 /\ A >= 0 /\ C >= 0
  OBVIOUS
<1> HIDE DEF m, w, A, C
<1>4. A * C <= 62500 * 2500
  <2>1. A * C <= 62500 * C
    BY <1>1, <1>3 DEF A
  <2>2. 62500 * C <= 62500 * 2500
    BY <1>1 DEF C
  <2> QED BY <1>1, <2>1, <2>2
<1>5. m * m <= 12500 * 12500
  BY <1>1, <1>2, <1>3, <1>4
<1>6. m <= 12500
  BY <1>1, <1>5
<1> QED BY <1>6 DEF m

\* 250 mm and 50 mm are 300 mm at most: the thinning of the background leaves no gap
LEMMA NearBoth ==
  ASSUME NEW p \in Place, NEW q \in Place, NEW r \in Place,
         Within(p, q, 250), Within(q, r, 50)
  PROVE  Within(p, r, 300)
<1> DEFINE a == p.x - q.x
           b == p.y - q.y
           c == q.x - r.x
           d == q.y - r.y
<1>1. a \in Int /\ b \in Int /\ c \in Int /\ d \in Int
  BY DEF Place
<1>2. a * a + b * b < 62500 /\ c * c + d * d < 2500
  BY DEF Within, Place
<1>3. p.x - r.x = a + c /\ p.y - r.y = b + d
  BY DEF Place
<1> HIDE DEF a, b, c, d
<1>4. a * c + b * d <= 12500
  BY <1>1, <1>2, InnerProduct
<1>5. (a + c) * (a + c) + (b + d) * (b + d)
        = (a * a + b * b) + (c * c + d * d) + 2 * (a * c + b * d)
  BY <1>1
<1>6. (a + c) * (a + c) + (b + d) * (b + d) < 300 * 300
  <2> DEFINE A == a * a + b * b
             C == c * c + d * d
             m == a * c + b * d
  <2>1. A \in Int /\ C \in Int /\ m \in Int
    BY <1>1
  <2> HIDE DEF A, C, m
  <2>2. A + C + 2 * m < 300 * 300
    BY <1>2, <1>4, <2>1 DEF A, C, m
  <2> QED BY <1>5, <2>2 DEF A, C, m
<1> QED BY <1>3, <1>6 DEF Within

\* a point is close to itself
LEMMA NearItself == \A p \in Place : Within(p, p, 50)
BY DEF Place, Within

-----------------------------------------------------------------------------
\* what a scan of the calibration adds: enough of its points to be close to all
LEMMA Calibration ==
  ASSUME NEW background \in SUBSET Place, NEW points \in Seq(Place)
  PROVE  /\ background \subseteq Calibrate(background, points)
         /\ Calibrate(background, points) \subseteq background \cup ToSet(points)
         /\ \A p \in ToSet(points) : \E b \in Calibrate(background, points) : Within(p, b, 50)
<1> DEFINE N == Len(points)
           Then(before, i) == IF \E b \in before : Within(points[i], b, 50) THEN before
                              ELSE before \cup {points[i]}
           step == [p \in (1 .. N) \X SUBSET Place |-> Then(p[2], p[1])]
           Is(f) == f = [i \in 0 .. N |-> IF i = 0 THEN background ELSE Then(f[i - 1], i)]
<1>1. N \in Nat /\ (\A i \in 1 .. N : points[i] \in Place) /\ DOMAIN points = 1 .. N
  OBVIOUS
<1>2. \A i \in 1 .. N : i - 1 \in 0 .. N /\ i \in 0 .. N /\ i # 0
  BY <1>1
<1>3. \A i \in 0 .. N : i # 0 => i \in 1 .. N
  BY <1>1
<1>4. step \in [(1 .. N) \X SUBSET Place -> SUBSET Place]
  <2>1. ASSUME NEW p \in (1 .. N) \X SUBSET Place
        PROVE  Then(p[2], p[1]) \in SUBSET Place
    BY <1>1
  <2> HIDE DEF Then
  <2> QED BY <2>1
<1> HIDE DEF N
<1>5. PICK g \in [0 .. N -> SUBSET Place] : Recurs(g, N, background, step)
  <2> HIDE DEF step
  <2> QED BY <1>1, <1>4, Recursion
<1>6. Is(g)
  <2>1. ASSUME NEW i \in 1 .. N
        PROVE  g[i] = Then(g[i - 1], i)
    <3>1. g[i] = step[<<i, g[i - 1]>>]
      BY <1>5 DEF Recurs
    <3>2. g[i - 1] \in SUBSET Place
      BY <1>2, <1>5
    <3> HIDE DEF Then
    <3> QED BY <3>1, <3>2
  <2>2. g[0] = background
    BY <1>5 DEF Recurs
  <2> HIDE DEF Then
  <2>3. \A i \in 0 .. N : g[i] = IF i = 0 THEN background ELSE Then(g[i - 1], i)
    BY <1>3, <2>1, <2>2
  <2>4. g = [i \in 0 .. N |-> g[i]]
    BY <1>5
  <2> QED BY <2>3, <2>4, ZenonT(40)
<1> DEFINE kept == CHOOSE f : Is(f)
<1>7. Is(kept)
  <2> HIDE DEF Is
  <2> QED BY <1>6
<1>8. Calibrate(background, points) = kept[N]
  BY ZenonT(40) DEF Calibrate, N
<1> HIDE DEF kept
<1>9. kept[0] = background /\ \A i \in 1 .. N : kept[i] = Then(kept[i - 1], i)
  <2>1. 0 \in 0 .. N
    BY <1>1
  <2> HIDE DEF Then
  <2> QED BY <1>2, <1>7, <2>1, ZenonT(40)
<1> DEFINE Up(i) == {points[j] : j \in {k \in 1 .. N : k <= i}}
           Good(i) == /\ background \subseteq kept[i]
                      /\ kept[i] \subseteq background \cup Up(i)
                      /\ \A p \in Up(i) : \E b \in kept[i] : Within(p, b, 50)
           S == {i \in 0 .. N : Good(i)}
<1>10. 0 \in S
  <2>1. Up(0) = {}
    BY <1>1
  <2> HIDE DEF Up
  <2> QED BY <1>1, <1>9, <2>1
<1>11. ASSUME NEW i \in 1 .. N, i - 1 \in S
       PROVE  i \in S
  <2>1. Good(i - 1)
    BY <1>11
  <2>2. Up(i) = Up(i - 1) \cup {points[i]}
    <3>1. {k \in 1 .. N : k <= i} = {k \in 1 .. N : k <= i - 1} \cup {i}
      BY <1>1
    <3> QED BY <3>1
  <2>3. kept[i] = Then(kept[i - 1], i)
    BY <1>9
  <2> HIDE DEF Up
  <2>4. CASE \E b \in kept[i - 1] : Within(points[i], b, 50)
    <3>1. kept[i] = kept[i - 1]
      BY <2>3, <2>4
    <3>2. Good(i)
      BY <2>1, <2>2, <2>4, <3>1, ZenonT(40)
    <3> QED BY <1>2, <3>2
  <2>5. CASE ~\E b \in kept[i - 1] : Within(points[i], b, 50)
    <3>1. kept[i] = kept[i - 1] \cup {points[i]}
      BY <2>3, <2>5
    <3>2. Within(points[i], points[i], 50)
      BY <1>1, NearItself
    <3>3. Good(i)
      BY <2>1, <2>2, <3>1, <3>2, ZenonT(40)
    <3> QED BY <1>2, <3>3
  <2> QED BY <2>4, <2>5
<1>12. \A i \in 0 .. N : i \in S
  <2> HIDE DEF S
  <2> QED BY <1>1, <1>10, <1>11, Upwards
<1>13. Good(N)
  BY <1>1, <1>12
<1>14. Up(N) = ToSet(points)
  <2>1. {k \in 1 .. N : k <= N} = 1 .. N
    BY <1>1
  <2> QED BY <1>1, <2>1 DEF ToSet
<1> HIDE DEF Up
<1> QED BY <1>8, <1>13, <1>14

\* Familiar and Seen, of what was seen in the calibration
Known(points, seen) == \A p \in points : \E q \in seen : Within(p, q, 250)
Strange(object, seen) == \A i \in DOMAIN object, q \in seen : ~Within(object[i], q, 300)

\* the background that is kept is close to all that was seen
Thinned(background, seen) ==
  /\ background \subseteq seen
  /\ seen \subseteq Place
  /\ \A q \in seen : \E b \in background : Within(q, b, 50)

\* found is what lies neither in the background nor near it
LEMMA Frame ==
  ASSUME NEW background, NEW points
  PROVE  LET control == DoClustering(FilterBackground(background, points))
             frame == ProcessLidarFrame(background, points)
         IN /\ control = <<>> => ~frame.found
            /\ control # <<>> /\ Len(Head(control)) > 2 =>
                 frame.found /\ frame.car = Centre(Head(control))
<1> DEFINE control == DoClustering(FilterBackground(background, points))
           found == control # <<>> /\ Len(Head(control)) > 2
           grid == GridClusters(points)
           car == IF found THEN Centre(Head(control)) ELSE [x |-> 0, y |-> 0]
           frame == ProcessLidarFrame(background, points)
<1>1. frame = [found |-> found, grid |-> grid, car |-> car]
  BY Zenon DEF ProcessLidarFrame
<1>2. frame.found = found /\ frame.car = car
  <2> HIDE DEF found, grid, car, frame
  <2> QED BY <1>1
<1> HIDE DEF frame, control
<1> QED BY <1>2, ZenonT(40) DEF control, frame

\* what is known from the calibration is not a torpedo
LEMMA NothingNew ==
  ASSUME NEW background, NEW seen, Thinned(background, seen), NEW points \in Seq(Place),
         Known(ToSet(points), seen)
  PROVE  ~ProcessLidarFrame(background, points).found
<1> DEFINE places == {i \in DOMAIN points : \A b \in background : ~Within(points[i], b, 300)}
<1>1. \A i \in 1 .. Len(points) : i \notin places
  <2> SUFFICES ASSUME NEW i \in 1 .. Len(points)
               PROVE  \E b \in background : Within(points[i], b, 300)
    OBVIOUS
  <2>1. points[i] \in Place /\ points[i] \in ToSet(points)
    BY DEF ToSet
  <2>2. PICK q \in seen : Within(points[i], q, 250)
    BY <2>1 DEF Known
  <2>3. PICK b \in background : Within(q, b, 50)
    BY DEF Thinned
  <2>4. q \in Place /\ b \in Place
    BY DEF Thinned
  <2> QED BY <2>1, <2>2, <2>3, <2>4, NearBoth
<1>2. Those(points, places) = <<>>
  <2> HIDE DEF places
  <2> QED BY <1>1, ThoseNone
<1>3. FilterBackground(background, points) = <<>>
  BY <1>2, Zenon DEF FilterBackground
<1>4. DoClustering(FilterBackground(background, points)) = <<>>
  BY <1>3, NoCluster
<1> QED BY <1>4, Frame

\* an object away from the background, before what is known
LEMMA ObjectFound ==
  ASSUME AlgorithmsAssumption,
         NEW background, NEW seen, Thinned(background, seen), NEW points \in Seq(Place),
         NEW O, NEW object, object = Those(points, O),
         Len(object) \in MinCluster .. MaxCluster, Chained(object), Strange(object, seen),
         Known(ToSet(points) \ ToSet(object), seen),
         \A i \in 1 .. Len(points) : i \notin O => points[i] \notin ToSet(object)
  PROVE  LET frame == ProcessLidarFrame(background, points)
         IN frame.found /\ frame.car = Centre(object)
<1> DEFINE places == {i \in DOMAIN points : \A b \in background : ~Within(points[i], b, 300)}
<1>1. object \in Seq(Place) /\ ToSet(object) = {points[i] : i \in O \cap (1 .. Len(points))}
  BY ThoseKept
<1>2. ASSUME NEW i \in 1 .. Len(points)
      PROVE  i \in O <=> i \in places
  <2>1. points[i] \in Place /\ points[i] \in ToSet(points) /\ i \in DOMAIN points
    BY DEF ToSet
  <2>2. CASE i \in O
    <3>1. points[i] \in ToSet(object)
      BY <1>1, <2>2
    <3>2. PICK j \in DOMAIN object : object[j] = points[i]
      BY <3>1 DEF ToSet
    <3>3. \A b \in background : ~Within(points[i], b, 300)
      BY <3>2 DEF Strange, Thinned
    <3> QED BY <2>1, <2>2, <3>3
  <2>3. CASE i \notin O
    <3>1. points[i] \in ToSet(points) \ ToSet(object)
      BY <2>1, <2>3
    <3>2. PICK q \in seen : Within(points[i], q, 250)
      BY <3>1 DEF Known
    <3>3. PICK b \in background : Within(q, b, 50)
      BY DEF Thinned
    <3>4. q \in Place /\ b \in Place
      BY DEF Thinned
    <3>5. Within(points[i], b, 300)
      BY <2>1, <3>2, <3>3, <3>4, NearBoth
    <3> QED BY <2>3, <3>5
  <2> QED BY <2>2, <2>3
<1>3. FilterBackground(background, points) = Those(points, places)
  BY Zenon DEF FilterBackground
<1> HIDE DEF places
<1>4. Those(points, places) = object
  BY <1>2, ThoseSame
<1>5. DoClustering(FilterBackground(background, points)) = <<object>>
  BY <1>1, <1>3, <1>4, OneCluster
<1>6. <<object>> # <<>> /\ Head(<<object>>) = object /\ Len(object) > 2
  BY <1>1 DEF AlgorithmsAssumption
<1> QED BY <1>5, <1>6, Frame

-----------------------------------------------------------------------------
\* a room that is watched keeps what the calibration made of it
WatchInv ==
  case.of = "watch" =>
    /\ Has({"of", "room", "background", "seen", "scans", "object", "points", "found", "car"})
    /\ case.room \in Rooms
    /\ case.scans \in 0 .. 3
    /\ Thinned(case.background, case.seen)

\* inductive together with what is to be shown
TargetInv == WatchInv /\ TargetIsTheObject

\* it holds before the calibration
LEMMA InitTarget == Init => TargetInv
<1> SUFFICES ASSUME Init, case.of = "watch" PROVE TargetInv
  BY DEF TargetInv, WatchInv, TargetIsTheObject
<1>1. case \in Watching
  BY DEF Init, Turning, SteeringCases
<1>2. PICK room \in Rooms :
        case = [of |-> "watch", room |-> room, background |-> {}, seen |-> {}, scans |-> 0,
                object |-> <<>>, points |-> {}, found |-> FALSE, car |-> None]
  BY <1>1 DEF Watching
<1>3. /\ Has({"of", "room", "background", "seen", "scans", "object", "points", "found", "car"})
      /\ case.room = room /\ case.background = {} /\ case.seen = {} /\ case.scans = 0
  BY <1>2 DEF Has
<1>4. Thinned({}, {})
  BY DEF Thinned
<1> QED BY <1>3, <1>4 DEF TargetInv, WatchInv, TargetIsTheObject

\* another scan of the calibration keeps the thinning without gaps
LEMMA CalibrateTarget ==
  ASSUME AlgorithmsAssumption, TargetInv, NEW scan, CalibrateScan(scan)
  PROVE  TargetInv'
<1> DEFINE points == Points(scan)
           background == Calibrate(case.background, points)
           seen == case.seen \cup ToSet(points)
           scans == case.scans + 1
<1>1. /\ case.of = "watch" /\ case.scans \in 0 .. 3 /\ case.scans < 2
      /\ Thinned(case.background, case.seen) /\ case.room \in Rooms /\ scan \in case.room
      /\ Has({"of", "room", "background", "seen", "scans", "object", "points", "found", "car"})
  BY DEF TargetInv, WatchInv, CalibrateScan
<1>2. /\ DOMAIN case' = DOMAIN case /\ case'.of = "watch" /\ case'.room = case.room
      /\ case'.background = background /\ case'.seen = seen /\ case'.scans = scans
  <2>1. case' = [case EXCEPT !.background = background, !.seen = seen, !.scans = scans]
    BY DEF CalibrateScan, Calibrated
  <2> HIDE DEF background, seen, scans
  <2> QED BY <1>1, <2>1 DEF Has
<1>3. points \in Seq(Place)
  <2>1. scan \in Seq(Measured)
    BY <1>1 DEF AlgorithmsAssumption
  <2> QED BY <2>1, PointsIn
<1> HIDE DEF points
<1>4. scans \in 0 .. 3 /\ scans # 3
  BY <1>1
<1>5. Thinned(background, seen)
  <2>1. case.background \in SUBSET Place
    BY <1>1 DEF Thinned
  <2>2. /\ case.background \subseteq background
        /\ background \subseteq case.background \cup ToSet(points)
        /\ \A p \in ToSet(points) : \E b \in background : Within(p, b, 50)
    BY <1>3, <2>1, Calibration
  <2>3. ToSet(points) \subseteq Place
    BY <1>3 DEF ToSet
  <2> HIDE DEF background
  <2> QED BY <1>1, <2>2, <2>3, ZenonT(40) DEF Thinned
<1> HIDE DEF background, seen, scans
<1> QED BY <1>1, <1>2, <1>4, <1>5 DEF TargetInv, WatchInv, TargetIsTheObject, Has

\* the frame that is watched
LEMMA WatchTarget ==
  ASSUME AlgorithmsAssumption, TargetInv, NEW visit \in Visits, Watch(visit)
  PROVE  TargetInv'
<1> DEFINE points == Points(visit.scan)
           frame == ProcessLidarFrame(case.background, points)
           O == {i \in DOMAIN points : points[i] \in visit.object}
           object == Those(points, O)
           all == ToSet(points)
<1>1. /\ case.of = "watch" /\ case.scans \in 0 .. 3
      /\ Thinned(case.background, case.seen) /\ case.room \in Rooms
      /\ Has({"of", "room", "background", "seen", "scans", "object", "points", "found", "car"})
  BY DEF TargetInv, WatchInv, Watch
<1>2. /\ DOMAIN case' = DOMAIN case /\ case'.of = "watch" /\ case'.room = case.room
      /\ case'.background = case.background /\ case'.seen = case.seen /\ case'.scans = 3
      /\ case'.found = frame.found /\ case'.car = frame.car
      /\ case'.points = all /\ case'.object = object
  <2>1. case' = [case EXCEPT !.found = frame.found, !.car = frame.car, !.points = all,
                             !.object = object, !.scans = 3]
    BY Zenon DEF Watch, Watched
  <2> HIDE DEF frame, all, object
  <2> QED BY <1>1, <2>1 DEF Has
<1>3. points \in Seq(Place)
  <2>1. visit.scan \in Seq(Measured)
    BY DEF AlgorithmsAssumption
  <2> QED BY <2>1, PointsIn
<1>o. object = Those(points, O)
  OBVIOUS
<1> HIDE DEF points, object
<1>4. Known(all, case.seen) => ~frame.found
  BY <1>1, <1>3, NothingNew
<1>5. \A i \in 1 .. Len(points) : i \notin O => points[i] \notin ToSet(object)
  <2>1. ToSet(object) \subseteq visit.object
    <3> HIDE DEF O
    <3>1. ToSet(object) = {points[i] : i \in O \cap (1 .. Len(points))}
      BY <1>3, <1>o, ThoseKept
    <3> QED BY <3>1 DEF O
  <2>2. DOMAIN points = 1 .. Len(points)
    BY <1>3
  <2> QED BY <2>1, <2>2
<1> HIDE DEF O
<1>6. ASSUME Len(object) \in MinCluster .. MaxCluster, Chained(object),
             Strange(object, case.seen), Known(all \ ToSet(object), case.seen)
      PROVE  frame.found /\ frame.car = Centre(object)
  BY <1>1, <1>3, <1>o, <1>5, <1>6, ObjectFound
<1> HIDE DEF frame, all
<1>7. WatchInv'
  BY <1>1, <1>2 DEF WatchInv, Has
<1>8. TargetIsTheObject'
  <2>1. Familiar(case.points)' = Known(all, case.seen)
    BY <1>2 DEF Familiar, Known
  <2>2. Familiar(case.points \ ToSet(case.object))' = Known(all \ ToSet(object), case.seen)
    BY <1>2 DEF Familiar, Known
  <2>3. Seen(case.object)' => /\ Len(object) \in MinCluster .. MaxCluster
                              /\ Chained(object) /\ Strange(object, case.seen)
    <3>1. Seen(case.object)' =>
            /\ Len(case'.object) \in MinCluster .. MaxCluster
            /\ Chained(case'.object) /\ Strange(case'.object, case'.seen)
      BY DEF Seen, Chained, Strange, Within
    <3> QED BY <1>2, <3>1
  <2> QED BY <1>2, <1>4, <1>6, <2>1, <2>2, <2>3, ZenonT(40) DEF TargetIsTheObject
<1> QED BY <1>7, <1>8 DEF TargetInv

\* so every step keeps it
LEMMA StepTarget ==
  ASSUME AlgorithmsAssumption, Has({"of"}), TargetInv, [Next]_case
  PROVE  TargetInv'
<1>1. ASSUME NEW advance \in Advances, NextCapsule(advance) PROVE TargetInv'
  <2>1. case'.of = case.of /\ case.of = "turn"
    BY <1>1 DEF NextCapsule, Has
  <2> QED BY <2>1 DEF TargetInv, WatchInv, TargetIsTheObject
<1>2. ASSUME SteerPeriod PROVE TargetInv'
  <2>1. case'.of = case.of /\ case.of = "steer"
    BY <1>2 DEF SteerPeriod, Has
  <2> QED BY <2>1 DEF TargetInv, WatchInv, TargetIsTheObject
<1>3. CASE UNCHANGED case
  BY <1>3 DEF TargetInv, WatchInv, TargetIsTheObject, Familiar, Seen, Has
<1>4. ASSUME NEW scan, CalibrateScan(scan) PROVE TargetInv'
  BY <1>4, CalibrateTarget
<1>5. ASSUME NEW visit \in Visits, Watch(visit) PROVE TargetInv'
  BY <1>5, WatchTarget
<1> QED BY <1>1, <1>2, <1>3, <1>4, <1>5 DEF Next

(***************************************************************************)
(* Whatever the room, the scans of its calibration and the scan that is    *)
(* watched: a room in which everything is within 250 mm of what was        *)
(* calibrated has no torpedo in it, and an object away from all that was   *)
(* calibrated is found at its centre (LidarNode.cpp:80, 214).              *)
(***************************************************************************)
THEOREM TargetFound == Spec => []TargetIsTheObject
<1>1. Init => TargetInv
  BY InitTarget
<1>2. IInv /\ TargetInv /\ [Next]_case => TargetInv'
  <2>1. IInv => Has({"of"})
    BY DEF IInv
  <2> QED BY <2>1, StepTarget, AlgorithmsAssumption
<1>3. Spec => []TargetInv
  BY <1>1, <1>2, Invariant, PTL DEF Spec
<1>4. TargetInv => TargetIsTheObject
  BY DEF TargetInv
<1> QED BY <1>3, <1>4, PTL

-----------------------------------------------------------------------------
(***************************************************************************)
(* A register that is shifted down: when a one falls out of it, the        *)
(* polynomial is added.  Halve is that for 32 bits; Double16, seen in a    *)
(* mirror, for 16.                                                         *)
(***************************************************************************)
Down(c) == {k - 1 : k \in c \ {0}}
Shifted(P, c) == IF 0 \in c THEN Xor(P, Down(c)) ELSE Down(c)
Input(c, bit) == IF bit THEN Xor(c, {0}) ELSE c

\* exclusive or is a group's operation, each word its own inverse
LEMMA XorLaws ==
  ASSUME NEW a, NEW b, NEW c
  PROVE  /\ Xor(a, b) = Xor(b, a)
         /\ Xor(Xor(a, b), c) = Xor(a, Xor(b, c))
         /\ Xor(a, a) = {} /\ Xor(a, {}) = a /\ Xor({}, a) = a
         /\ Xor(a, b) = {} => a = b
         /\ Xor(a, b) = c => a = Xor(c, b)
BY DEF Xor

\* of words of a width it is a word of that width
LEMMA XorWord == ASSUME NEW W, NEW a \in SUBSET W, NEW b \in SUBSET W PROVE Xor(a, b) \in SUBSET W
BY DEF Xor

\* bit by bit
LEMMA DownBits ==
  ASSUME NEW N \in Nat, NEW c \in SUBSET (0 .. N)
  PROVE  /\ Down(c) \in SUBSET (0 .. N)
         /\ N \notin Down(c)
         /\ \A k \in 0 .. N : k \in Down(c) <=> k + 1 \in c
<1>1. \A k \in c : k \in 0 .. N
  OBVIOUS
<1>2. ASSUME NEW k \in 0 .. N
      PROVE  k \in Down(c) <=> k + 1 \in c
  <2>1. ASSUME k \in Down(c) PROVE k + 1 \in c
    <3>1. PICK j \in c \ {0} : k = j - 1
      BY <2>1 DEF Down
    <3>2. j = k + 1
      BY <1>1, <3>1
    <3> QED BY <3>1, <3>2
  <2>2. ASSUME k + 1 \in c PROVE k \in Down(c)
    <3>1. k + 1 \in c \ {0} /\ k = (k + 1) - 1
      BY <2>2
    <3> QED BY <3>1 DEF Down
  <2> QED BY <2>1, <2>2
<1>3. Down(c) \in SUBSET (0 .. N)
  <2> SUFFICES ASSUME NEW k \in Down(c) PROVE k \in 0 .. N
    OBVIOUS
  <2>1. PICK j \in c \ {0} : k = j - 1
    BY DEF Down
  <2> QED BY <1>1, <2>1
<1>4. N + 1 \notin c
  BY <1>1
<1> QED BY <1>2, <1>3, <1>4

\* the register keeps its width
LEMMA ShiftedWord ==
  ASSUME NEW N \in Nat, NEW P \in SUBSET (0 .. N), NEW c \in SUBSET (0 .. N)
  PROVE  Shifted(P, c) \in SUBSET (0 .. N)
<1>1. Down(c) \in SUBSET (0 .. N)
  BY DownBits
<1>2. Xor(P, Down(c)) \in SUBSET (0 .. N)
  BY <1>1 DEF Xor
<1> QED BY <1>1, <1>2 DEF Shifted

\* also with a bit added
LEMMA InputWord ==
  ASSUME NEW N \in Nat, NEW c \in SUBSET (0 .. N), NEW bit
  PROVE  Input(c, bit) \in SUBSET (0 .. N)
<1>1. {0} \in SUBSET (0 .. N)
  OBVIOUS
<1>2. Xor(c, {0}) \in SUBSET (0 .. N)
  BY <1>1, XorWord
<1> QED BY <1>2 DEF Input

\* shifting is linear
LEMMA DownLinear ==
  ASSUME NEW N \in Nat, NEW a \in SUBSET (0 .. N), NEW b \in SUBSET (0 .. N)
  PROVE  Down(Xor(a, b)) = Xor(Down(a), Down(b))
<1>1. Xor(a, b) \in SUBSET (0 .. N)
  BY XorWord
<1>2. /\ Down(Xor(a, b)) \in SUBSET (0 .. N)
      /\ \A k \in 0 .. N : k \in Down(Xor(a, b)) <=> k + 1 \in Xor(a, b)
  BY <1>1, DownBits
<1>3. Down(a) \in SUBSET (0 .. N) /\ \A k \in 0 .. N : k \in Down(a) <=> k + 1 \in a
  BY DownBits
<1>4. Down(b) \in SUBSET (0 .. N) /\ \A k \in 0 .. N : k \in Down(b) <=> k + 1 \in b
  BY DownBits
<1>5. \A k : k \in Xor(a, b) <=> ((k \in a /\ k \notin b) \/ (k \in b /\ k \notin a))
  BY DEF Xor
<1>6. \A k : k \in Xor(Down(a), Down(b)) <=>
        ((k \in Down(a) /\ k \notin Down(b)) \/ (k \in Down(b) /\ k \notin Down(a)))
  BY DEF Xor
<1> DEFINE W == 0 .. N
<1> HIDE DEF W
<1>7. \A k \in W : k \in Down(Xor(a, b)) <=> k \in Xor(Down(a), Down(b))
  BY <1>2, <1>3, <1>4, <1>5, <1>6, ZenonT(40) DEF W
<1> QED BY <1>2, <1>3, <1>4, <1>6, <1>7, ZenonT(40) DEF W

\* with the polynomial, too
LEMMA ShiftedLinear ==
  ASSUME NEW N \in Nat, NEW P, NEW a \in SUBSET (0 .. N), NEW b \in SUBSET (0 .. N)
  PROVE  Shifted(P, Xor(a, b)) = Xor(Shifted(P, a), Shifted(P, b))
<1>1. Down(Xor(a, b)) = Xor(Down(a), Down(b))
  BY DownLinear
<1>2. 0 \in Xor(a, b) <=> ((0 \in a /\ 0 \notin b) \/ (0 \in b /\ 0 \notin a))
  BY DEF Xor
<1> DEFINE A == Down(a)
           B == Down(b)
<1> HIDE DEF A, B
<1>3. /\ Xor(Xor(P, A), B) = Xor(P, Xor(A, B))
      /\ Xor(A, Xor(P, B)) = Xor(P, Xor(A, B))
      /\ Xor(Xor(P, A), Xor(P, B)) = Xor(A, B)
  BY DEF Xor
<1>4. CASE 0 \in a /\ 0 \in b
  BY <1>1, <1>2, <1>3, <1>4 DEF Shifted, A, B
<1>5. CASE 0 \in a /\ 0 \notin b
  BY <1>1, <1>2, <1>3, <1>5 DEF Shifted, A, B
<1>6. CASE 0 \notin a /\ 0 \in b
  BY <1>1, <1>2, <1>3, <1>6 DEF Shifted, A, B
<1>7. CASE 0 \notin a /\ 0 \notin b
  BY <1>1, <1>2, <1>7 DEF Shifted
<1> QED BY <1>4, <1>5, <1>6, <1>7

\* what has not reached the end of the register yet only moves
LEMMA ShiftedHigh ==
  ASSUME NEW N \in Nat, NEW P, NEW a \in SUBSET (0 .. N), NEW d \in SUBSET (0 .. N), 0 \notin d
  PROVE  Shifted(P, Xor(a, d)) = Xor(Shifted(P, a), Down(d))
<1>1. Shifted(P, d) = Down(d)
  BY DEF Shifted
<1>2. Shifted(P, Xor(a, d)) = Xor(Shifted(P, a), Shifted(P, d))
  BY ShiftedLinear
<1> QED BY <1>1, <1>2

\* and only zero is shifted to less than the polynomial's first bit
LEMMA ShiftedBack ==
  ASSUME NEW N \in Nat, NEW P \in SUBSET (0 .. N), N \in P, NEW c \in SUBSET (0 .. N),
         N \notin Shifted(P, c)
  PROVE  0 \notin c /\ \A k \in 1 .. N : k \in c => k - 1 \in Shifted(P, c)
<1>1. N \notin Down(c) /\ \A k \in 0 .. N : k \in Down(c) <=> k + 1 \in c
  BY DownBits
<1>2. 0 \notin c
  <2>1. N \in Xor(P, Down(c))
    BY <1>1 DEF Xor
  <2>2. 0 \in c => Shifted(P, c) = Xor(P, Down(c))
    BY DEF Shifted
  <2> QED BY <2>1, <2>2
<1>3. Shifted(P, c) = Down(c)
  BY <1>2 DEF Shifted
<1>4. ASSUME NEW k \in 1 .. N, k \in c
      PROVE  k - 1 \in Down(c)
  <2>1. k - 1 \in 0 .. N /\ (k - 1) + 1 = k
    OBVIOUS
  <2> QED BY <1>1, <1>4, <2>1
<1> QED BY <1>2, <1>3, <1>4

\* the register's states while the bits in ones come in, one at a time
Register(g, L, P, N, ones) ==
  /\ g \in [0 .. L -> SUBSET (0 .. N)]
  /\ \A n \in 1 .. L : g[n] = Shifted(P, Input(g[n - 1], n \in ones))

\* adding bits is linear
LEMMA InputXor ==
  ASSUME NEW a, NEW b, NEW p \in BOOLEAN, NEW q \in BOOLEAN
  PROVE  Xor(Input(a, p), Input(b, q)) = Input(Xor(a, b), p # q)
<1>1. /\ Xor(Xor(a, {0}), Xor(b, {0})) = Xor(a, b)
      /\ Xor(Xor(a, {0}), b) = Xor(Xor(a, b), {0})
      /\ Xor(a, Xor(b, {0})) = Xor(Xor(a, b), {0})
  BY DEF Xor
<1> QED BY <1>1 DEF Input

(***************************************************************************)
(* Two registers that start alike and take bits that differ in a burst no  *)
(* longer than they are end in different states: going back from the end,  *)
(* what they differ in can be no higher than what is left of the burst,    *)
(* but after its first bit they differ in the highest.                     *)
(***************************************************************************)
LEMMA BurstSeen ==
  ASSUME NEW N \in Nat, NEW P \in SUBSET (0 .. N), N \in P, NEW L \in Nat,
         NEW f, NEW g, NEW x, NEW y, Register(f, L, P, N, x), Register(g, L, P, N, y),
         f[0] = g[0],
         {n \in 1 .. L : (n \in x) # (n \in y)} # {},
         \A m, n \in {n \in 1 .. L : (n \in x) # (n \in y)} : n - m < N + 1
  PROVE  f[L] # g[L]
<1> DEFINE e == {n \in 1 .. L : (n \in x) # (n \in y)}
           D(i) == Xor(f[i], g[i])
<1>1. /\ f \in [0 .. L -> SUBSET (0 .. N)] /\ g \in [0 .. L -> SUBSET (0 .. N)]
      /\ \A n \in 1 .. L : f[n] = Shifted(P, Input(f[n - 1], n \in x))
      /\ \A n \in 1 .. L : g[n] = Shifted(P, Input(g[n - 1], n \in y))
  BY DEF Register
<1>2. ASSUME NEW i \in 0 .. L PROVE D(i) \in SUBSET (0 .. N)
  <2>1. f[i] \in SUBSET (0 .. N) /\ g[i] \in SUBSET (0 .. N)
    BY <1>1
  <2> QED BY <2>1, XorWord
<1>3. ASSUME NEW n \in 1 .. L
      PROVE  D(n) = Shifted(P, Input(D(n - 1), n \in e))
  <2>1. n - 1 \in 0 .. L /\ f[n - 1] \in SUBSET (0 .. N) /\ g[n - 1] \in SUBSET (0 .. N)
    BY <1>1
  <2> DEFINE a == Input(f[n - 1], n \in x)
             b == Input(g[n - 1], n \in y)
  <2>2. a \in SUBSET (0 .. N) /\ b \in SUBSET (0 .. N)
    BY <2>1, InputWord
  <2>3. Xor(a, b) = Input(D(n - 1), (n \in x) # (n \in y))
    <3> DEFINE p == n \in x
               q == n \in y
    <3>1. p \in BOOLEAN /\ q \in BOOLEAN
      OBVIOUS
    <3> HIDE DEF p, q
    <3>2. Xor(Input(f[n - 1], p), Input(g[n - 1], q)) = Input(D(n - 1), p # q)
      BY <3>1, InputXor
    <3> QED BY <3>2 DEF p, q
  <2>4. n \in e <=> ((n \in x) # (n \in y))
    OBVIOUS
  <2>5. f[n] = Shifted(P, a) /\ g[n] = Shifted(P, b)
    BY <1>1, ZenonT(40)
  <2> HIDE DEF a, b, e
  <2>6. Shifted(P, Xor(a, b)) = Xor(Shifted(P, a), Shifted(P, b))
    BY <2>2, ShiftedLinear
  <2>7. Input(D(n - 1), n \in e) = Input(D(n - 1), (n \in x) # (n \in y))
    BY <2>4 DEF Input
  <2> QED BY <2>3, <2>5, <2>6, <2>7
<1>4. D(0) = {}
  BY DEF Xor
<1>5. e \subseteq 1 .. L /\ e # {} /\ \A m, n \in e : n - m < N + 1
  OBVIOUS
<1> HIDE DEF D, e
<1>6. PICK first \in e : \A n \in e : first <= n
  <2>1. e \subseteq Nat
    BY <1>5
  <2> QED BY <1>5, <2>1, LeastElement
<1>7. PICK last \in e : \A n \in e : n <= last
  BY <1>5, GreatestElement
<1>8. /\ first \in Nat /\ last \in Nat
      /\ 1 <= first /\ first <= last /\ last <= L /\ last - first < N + 1
  BY <1>5, <1>6, <1>7
<1> SUFFICES ASSUME D(L) = {} PROVE FALSE
  <2>1. D(L) # {} => f[L] # g[L]
    BY DEF D, Xor
  <2> QED BY <2>1
<1> DEFINE Left(i) == \A k \in D(i) : k < last - i
           S == {j \in 0 .. L - first : Left(L - j)}
<1>9. 0 \in S
  BY <1>8
<1>10. ASSUME NEW j \in 1 .. L - first, j - 1 \in S
       PROVE  j \in S
  <2> DEFINE n == L - j + 1
             c == Input(D(n - 1), n \in e)
  <2>1. n \in 1 .. L /\ n - 1 \in 0 .. L /\ n - 1 = L - j /\ first < n /\ n = L - (j - 1)
        /\ j \in 0 .. L - first /\ n \in Nat /\ n \in 0 .. L
    BY <1>8
  <2>2. Left(n)
    BY <1>10, <2>1
  <2> HIDE DEF n
  <2>3. D(n) = Shifted(P, c) /\ c \in SUBSET (0 .. N) /\ D(n - 1) \in SUBSET (0 .. N)
    BY <1>2, <1>3, <2>1, InputWord
  <2>4. N \notin Shifted(P, c)
    BY <1>8, <2>1, <2>2, <2>3
  <2> HIDE DEF c
  <2>5. 0 \notin c /\ \A k \in 1 .. N : k \in c => k - 1 \in Shifted(P, c)
    BY <2>3, <2>4, ShiftedBack
  <2>6. ASSUME NEW k \in D(n - 1)
        PROVE  k < last - (n - 1)
    <3>1. k \in 0 .. N
      BY <2>3
    <3>2. CASE k = 0
      <4>1. n \in e
        BY <2>5, <3>2 DEF c, Input
      <4>2. n <= last
        BY <1>7, <4>1
      <4> QED BY <1>8, <2>1, <3>2, <4>2
    <3>3. CASE k # 0
      <4>1. k \in c
        BY <3>3 DEF c, Input, Xor
      <4>2. k \in 1 .. N
        BY <3>1, <3>3
      <4>3. k - 1 \in D(n)
        BY <2>3, <2>5, <4>1, <4>2
      <4>4. k - 1 < last - n
        BY <2>2, <4>3
      <4> QED BY <1>8, <2>1, <3>1, <4>4
    <3> QED BY <3>2, <3>3
  <2> QED BY <2>1, <2>6
<1>11. Left(first)
  <2>1. L - first \in Nat /\ L - first \in 0 .. L - first /\ L - (L - first) = first
    BY <1>8
  <2>2. \A j \in 0 .. L - first : j \in S
    <3> DEFINE M == L - first
    <3>1. M \in Nat
      BY <2>1
    <3> HIDE DEF S, M
    <3>2. \A j \in 1 .. M : j - 1 \in S => j \in S
      BY <1>10 DEF M
    <3>3. \A j \in 0 .. M : j \in S
      BY <1>9, <3>1, <3>2, Upwards
    <3> QED BY <3>3 DEF M
  <2> QED BY <2>1, <2>2
<1>12. N \in D(first)
  <2>1. D(first) = Shifted(P, Input(D(first - 1), TRUE))
    BY <1>3, <1>5, <1>6
  <2>2. D(first - 1) = {}
    <3> DEFINE T == {i \in 0 .. first - 1 : D(i) = {}}
               M == first - 1
    <3>1. M \in Nat
      BY <1>8
    <3>2. 0 \in T
      BY <1>4, <1>8
    <3>3. ASSUME NEW i \in 1 .. M, i - 1 \in T
          PROVE  i \in T
      <4>1. D(i - 1) = {} /\ i \in 1 .. L /\ i \in 0 .. first - 1
        BY <1>8, <3>3
      <4>2. i \notin e
        BY <1>6, <1>8, <3>3
      <4>3. D(i) = Shifted(P, {})
        BY <1>3, <4>1, <4>2 DEF Input
      <4>4. Shifted(P, {}) = {}
        BY DEF Shifted, Down
      <4> QED BY <4>1, <4>3, <4>4
    <3> HIDE DEF T, M
    <3>4. \A i \in 0 .. M : i \in T
      BY <3>1, <3>2, <3>3, Upwards
    <3>5. M \in T
      BY <3>1, <3>4
    <3> QED BY <3>5 DEF T, M
  <2>3. Input({}, TRUE) = {0}
    BY DEF Input, Xor
  <2>4. Shifted(P, {0}) = P
    BY DEF Shifted, Down, Xor
  <2> QED BY <2>1, <2>2, <2>3, <2>4
<1>13. N < last - first
  BY <1>11, <1>12
<1> QED BY <1>8, <1>13

\* ShiftRight, bit by bit
LEMMA MovedDown ==
  ASSUME NEW N \in Nat, NEW d \in SUBSET (0 .. N), NEW i \in Nat
  PROVE  /\ ShiftRight(d, i) \in SUBSET (0 .. N)
         /\ \A k \in Nat : k \in ShiftRight(d, i) <=> k + i \in d
<1>1. \A k \in d : k \in 0 .. N
  OBVIOUS
<1>2. ASSUME NEW k \in Nat, k \in ShiftRight(d, i) PROVE k + i \in d
  <2>1. PICK j \in {b \in d : b >= i} : k = j - i
    BY <1>2 DEF ShiftRight
  <2>2. j = k + i
    BY <1>1, <2>1
  <2> QED BY <2>1, <2>2
<1>3. ASSUME NEW k \in Nat, k + i \in d PROVE k \in ShiftRight(d, i)
  <2>1. k + i \in {b \in d : b >= i} /\ k = (k + i) - i
    BY <1>3
  <2> QED BY <2>1 DEF ShiftRight
<1>4. ShiftRight(d, i) \in SUBSET (0 .. N)
  <2> SUFFICES ASSUME NEW k \in ShiftRight(d, i) PROVE k \in 0 .. N
    OBVIOUS
  <2>1. PICK j \in {b \in d : b >= i} : k = j - i
    BY DEF ShiftRight
  <2> QED BY <1>1, <2>1
<1> QED BY <1>2, <1>3, <1>4

\* by one place more
LEMMA MovedOnce ==
  ASSUME NEW N \in Nat, NEW d \in SUBSET (0 .. N), NEW i \in Nat
  PROVE  Down(ShiftRight(d, i)) = ShiftRight(d, i + 1)
<1> DEFINE m == i + 1
           A == ShiftRight(d, i)
           B == ShiftRight(d, m)
<1>0. m \in Nat /\ m = i + 1
  OBVIOUS
<1> HIDE DEF m
<1>1. A \in SUBSET (0 .. N) /\ \A k \in Nat : k \in A <=> k + i \in d
  BY MovedDown
<1>2. B \in SUBSET (0 .. N) /\ \A k \in Nat : k \in B <=> k + m \in d
  BY <1>0, MovedDown
<1> HIDE DEF A, B
<1>3. Down(A) \in SUBSET (0 .. N) /\ \A k \in 0 .. N : k \in Down(A) <=> k + 1 \in A
  BY <1>1, DownBits
<1>4. ASSUME NEW k \in 0 .. N PROVE k \in Down(A) <=> k \in B
  <2>1. k \in Nat /\ k + 1 \in Nat /\ (k + 1) + i = k + m
    BY <1>0
  <2> QED BY <1>1, <1>2, <1>3, <2>1
<1>5. Down(A) = B
  BY <1>2, <1>3, <1>4
<1> QED BY <1>0, <1>5 DEF A, B

\* the words of N + 1 bits
Words(N) == SUBSET (0 .. N)

\* where the ones of a byte are when its lowest bit comes first
Ones(b) == {k + 1 : k \in b}

\* Ones, bit by bit
LEMMA OnesOf == ASSUME NEW b \in Octets, NEW i \in Int PROVE i \in Ones(b) <=> i - 1 \in b
<1>1. \A k \in b : k \in Int
  BY DEF Octets
<1>2. ASSUME i \in Ones(b) PROVE i - 1 \in b
  <2>1. PICK k \in b : i = k + 1
    BY <1>2 DEF Ones
  <2>2. k = i - 1
    BY <1>1, <2>1
  <2> QED BY <2>2
<1>3. ASSUME i - 1 \in b PROVE i \in Ones(b)
  <2>1. i = (i - 1) + 1
    OBVIOUS
  <2> QED BY <1>3, <2>1 DEF Ones
<1> QED BY <1>2, <1>3

\* of what is added to the register only the lowest bit matters at once
LEMMA BitIn ==
  ASSUME NEW N \in Nat, NEW P, NEW s \in SUBSET (0 .. N), NEW r \in SUBSET (0 .. N)
  PROVE  Shifted(P, Xor(s, r)) = Xor(Shifted(P, Input(s, 0 \in r)), Down(r))
<1> DEFINE d == r \ {0}
           a == Input(s, 0 \in r)
<1>1. a \in SUBSET (0 .. N)
  BY InputWord
<1>2. d \in SUBSET (0 .. N) /\ 0 \notin d /\ Down(d) = Down(r)
  BY DEF Down
<1>3. Xor(s, r) = Xor(a, d)
  <2>1. CASE 0 \in r
    BY <2>1 DEF Input, Xor
  <2>2. CASE 0 \notin r
    BY <2>2 DEF Input
  <2> QED BY <2>1, <2>2
<1> HIDE DEF a, d
<1>4. Shifted(P, Xor(a, d)) = Xor(Shifted(P, a), Down(d))
  BY <1>1, <1>2, ShiftedHigh
<1> QED BY <1>2, <1>3, <1>4 DEF a

(***************************************************************************)
(* A byte that is added to the register at once, and then shifted through, *)
(* is the same as its bits coming in one by one.                           *)
(***************************************************************************)
LEMMA BitByBit ==
  ASSUME NEW N \in Nat, 7 <= N, NEW P, NEW b \in Octets,
         NEW h, Register(h, 8, P, N, {}), NEW s, Register(s, 8, P, N, Ones(b)),
         h[0] = Xor(s[0], b)
  PROVE  h[8] = s[8]
<1> DEFINE n == 8
           W == 0 .. N
           R(i) == ShiftRight(b, i)
           S == {i \in 0 .. n : h[i] = Xor(s[i], R(i))}
<1>0. n \in Nat
  OBVIOUS
<1>1. b \in SUBSET W
  BY DEF Octets
<1>2. Register(h, n, P, N, {}) /\ Register(s, n, P, N, Ones(b))
  OBVIOUS
<1>3. R(n) = {}
  <2>1. \A k \in b : k \in Int /\ ~(k >= 8)
    BY DEF Octets
  <2>2. {j \in b : j >= 8} = {}
    BY <2>1
  <2> QED BY <2>2 DEF ShiftRight
<1> HIDE DEF n, W
<1>4. 0 \in S
  <2>1. R(0) = b
    <3>1. R(0) \in SUBSET W /\ \A k \in Nat : k \in R(0) <=> k + 0 \in b
      BY <1>1, MovedDown DEF W
    <3>2. ASSUME NEW k \in W PROVE k \in R(0) <=> k \in b
      <4>1. k \in Nat /\ k + 0 = k
        BY DEF W
      <4> QED BY <3>1, <4>1, Zenon
    <3> HIDE DEF R
    <3> QED BY <1>1, <3>1, <3>2
  <2> HIDE DEF R
  <2> QED BY <1>0, <2>1
<1>5. ASSUME NEW i \in 1 .. n, i - 1 \in S
      PROVE  i \in S
  <2> DEFINE r == R(i - 1)
  <2>0. i - 1 \in Nat /\ i - 1 \in 0 .. n /\ i \in 0 .. n /\ (i - 1) + 1 = i /\ i \in Int
    BY <1>0
  <2>1. h[i - 1] = Xor(s[i - 1], r)
    BY <1>5
  <2>2. /\ s[i - 1] \in SUBSET W /\ h[i] = Shifted(P, Input(h[i - 1], i \in {}))
        /\ s[i] = Shifted(P, Input(s[i - 1], i \in Ones(b)))
    BY <1>2, <2>0, ZenonT(40) DEF Register, W
  <2>3. h[i] = Shifted(P, h[i - 1])
    BY <2>2 DEF Input
  <2>4. r \in SUBSET W /\ \A k \in Nat : k \in r <=> k + (i - 1) \in b
    BY <1>1, <2>0, MovedDown DEF W
  <2>5. 0 \in r <=> i \in Ones(b)
    <3>1. 0 \in r <=> 0 + (i - 1) \in b
      BY <2>4
    <3>2. 0 + (i - 1) = i - 1
      BY <2>0
    <3>3. i \in Ones(b) <=> i - 1 \in b
      BY <2>0, OnesOf
    <3> QED BY <3>1, <3>2, <3>3
  <2>6. Down(r) = R(i)
    BY <1>1, <2>0, MovedOnce DEF W
  <2> HIDE DEF R, r
  <2>7. Shifted(P, Xor(s[i - 1], r)) = Xor(Shifted(P, Input(s[i - 1], 0 \in r)), Down(r))
    BY <2>2, <2>4, BitIn DEF W
  <2>8. Input(s[i - 1], 0 \in r) = Input(s[i - 1], i \in Ones(b))
    BY <2>5 DEF Input
  <2>9. h[i] = Xor(s[i], R(i))
    BY <2>1, <2>2, <2>3, <2>6, <2>7, <2>8
  <2> QED BY <2>0, <2>9
<1>6. \A i \in 0 .. n : i \in S
  <2>1. \A i \in 1 .. n : i - 1 \in S => i \in S
    BY <1>5
  <2> HIDE DEF S
  <2> QED BY <1>0, <1>4, <2>1, Upwards
<1>7. h[n] = Xor(s[n], R(n))
  BY <1>0, <1>6
<1>8. h[n] = s[n]
  <2> HIDE DEF R
  <2> QED BY <1>3, <1>7 DEF Xor
<1> QED BY <1>8 DEF n

(***************************************************************************)
(* Of a word only the low byte decides what is added in eight steps: the   *)
(* rest moves down.                                                        *)
(***************************************************************************)
LEMMA ByTable ==
  ASSUME NEW N \in Nat, NEW P, NEW x \in Words(N),
         NEW h, Register(h, 8, P, N, {}), NEW c, Register(c, 8, P, N, {}),
         h[0] = x, c[0] = Low(x)
  PROVE  h[8] = Xor(ShiftRight(x, 8), c[8])
<1> x \in SUBSET (0 .. N)
  BY DEF Words
<1> DEFINE n == 8
           W == 0 .. N
           high == x \ Low(x)
           R(i) == ShiftRight(high, i)
           S == {i \in 0 .. n : h[i] = Xor(c[i], R(i))}
<1>0. n \in Nat
  OBVIOUS
<1>1. high \in SUBSET W
  OBVIOUS
<1>2. Register(h, n, P, N, {}) /\ Register(c, n, P, N, {})
  OBVIOUS
<1>3. R(n) = ShiftRight(x, n)
  <2>1. \A k \in x : k \in Int /\ (k \in high <=> k >= 8)
    <3>1. \A k \in x : k \in high <=> ~(k < 8)
      BY DEF Low
    <3> QED BY <3>1
  <2>2. {k \in high : k >= 8} = {k \in x : k >= 8}
    BY <2>1
  <2> QED BY <2>2 DEF ShiftRight
<1>4. \A i \in Nat : i < n => i \notin high
  BY DEF Low
<1> HIDE DEF n, W
<1>5. 0 \in S
  <2>1. R(0) = high
    <3>1. R(0) \in SUBSET W /\ \A k \in Nat : k \in R(0) <=> k + 0 \in high
      BY <1>1, MovedDown DEF W
    <3>2. ASSUME NEW k \in W PROVE k \in R(0) <=> k \in high
      <4>1. k \in Nat /\ k + 0 = k
        BY DEF W
      <4> QED BY <3>1, <4>1, Zenon
    <3> HIDE DEF R, high
    <3> QED BY <1>1, <3>1, <3>2
  <2>2. x = Xor(Low(x), high)
    BY DEF Low, Xor
  <2> HIDE DEF R, high
  <2> QED BY <1>0, <2>1, <2>2
<1> HIDE DEF high
<1>6. ASSUME NEW i \in 1 .. n, i - 1 \in S
      PROVE  i \in S
  <2> DEFINE r == R(i - 1)
             a == c[i - 1]
  <2>0. i - 1 \in Nat /\ i - 1 \in 0 .. n /\ i \in 0 .. n /\ (i - 1) + 1 = i /\ i - 1 < n
    BY <1>0
  <2>1. h[i - 1] = Xor(a, r)
    BY <1>6
  <2>2. /\ a \in SUBSET W /\ h[i] = Shifted(P, Input(h[i - 1], i \in {}))
        /\ c[i] = Shifted(P, Input(a, i \in {}))
    BY <1>2, <2>0, ZenonT(40) DEF Register, W
  <2>3. h[i] = Shifted(P, h[i - 1]) /\ c[i] = Shifted(P, a)
    BY <2>2 DEF Input
  <2>4. r \in SUBSET W /\ \A k \in Nat : k \in r <=> k + (i - 1) \in high
    BY <1>1, <2>0, MovedDown DEF W
  <2>5. 0 \notin r
    <3>1. 0 \in r <=> 0 + (i - 1) \in high
      BY <2>4
    <3>2. 0 + (i - 1) = i - 1
      BY <2>0
    <3> QED BY <1>4, <2>0, <3>1, <3>2
  <2>6. Down(r) = R(i)
    BY <1>1, <2>0, MovedOnce DEF W
  <2> HIDE DEF R, r, a
  <2>7. Shifted(P, Xor(a, r)) = Xor(Shifted(P, a), Down(r))
    BY <2>2, <2>4, <2>5, ShiftedHigh, ZenonT(40) DEF W
  <2>8. h[i] = Xor(c[i], R(i))
    BY <2>1, <2>3, <2>6, <2>7
  <2> QED BY <2>0, <2>8
<1>7. \A i \in 0 .. n : i \in S
  <2>1. \A i \in 1 .. n : i - 1 \in S => i \in S
    BY <1>6
  <2> HIDE DEF S
  <2> QED BY <1>0, <1>5, <2>1, Upwards
<1>8. h[n] = Xor(c[n], R(n))
  BY <1>0, <1>7
<1>9. h[n] = Xor(ShiftRight(x, n), c[n])
  <2> HIDE DEF R
  <2> QED BY <1>3, <1>8 DEF Xor
<1> QED BY <1>9 DEF n

\* two functions that follow the same recurrence agree
Agree(N, f, g) == \A i \in 0 .. N : f[i] = g[i]

LEMMA Alike ==
  ASSUME NEW N \in Nat, NEW f, NEW g, f[0] = g[0],
         \A i \in 1 .. N : f[i - 1] = g[i - 1] => f[i] = g[i]
  PROVE  Agree(N, f, g)
<1> DEFINE S == {i \in 0 .. N : f[i] = g[i]}
<1>1. 0 \in S /\ \A i \in 1 .. N : i - 1 \in S => i \in S
  OBVIOUS
<1>2. \A i \in 0 .. N : i \in S
  <2> HIDE DEF S
  <2> QED BY <1>1, Upwards
<1> QED BY <1>2 DEF Agree

\* the places of the ones in a stream of bits, from 1 on
Streams == SUBSET Nat

\* every stream takes the register through some states
LEMMA Registers ==
  ASSUME NEW N \in Nat, NEW P \in Words(N), NEW L \in Nat, NEW ones \in Streams,
         NEW start \in Words(N)
  PROVE  \E g : Register(g, L, P, N, ones) /\ g[0] = start
<1> P \in SUBSET (0 .. N) /\ start \in SUBSET (0 .. N)
  BY DEF Words
<1> DEFINE T == SUBSET (0 .. N)
           step == [p \in (1 .. L) \X T |-> Shifted(P, Input(p[2], p[1] \in ones))]
<1>1. step \in [(1 .. L) \X T -> T]
  <2> SUFFICES ASSUME NEW p \in (1 .. L) \X T
               PROVE  Shifted(P, Input(p[2], p[1] \in ones)) \in T
    OBVIOUS
  <2>1. Input(p[2], p[1] \in ones) \in SUBSET (0 .. N)
    BY InputWord
  <2> HIDE DEF T
  <2> QED BY <2>1, ShiftedWord DEF T
<1> DEFINE base == start
<1>2. base \in T
  OBVIOUS
<1> HIDE DEF T, step
<1>3. PICK g \in [0 .. L -> T] : Recurs(g, L, base, step)
  BY <1>1, <1>2, Recursion
<1>4. ASSUME NEW n \in 1 .. L
      PROVE  g[n] = Shifted(P, Input(g[n - 1], n \in ones))
  <2>1. n - 1 \in 0 .. L
    OBVIOUS
  <2>2. g[n - 1] \in T /\ g[n] = step[<<n, g[n - 1]>>]
    BY <1>3, <2>1 DEF Recurs
  <2> QED BY <2>2 DEF step
<1>5. g[0] = start
  BY <1>3 DEF Recurs
<1>6. Register(g, L, P, N, ones)
  BY <1>3, <1>4 DEF Register, T
<1> QED BY <1>5, <1>6

\* the bits of bytes, the lowest of a byte first
Stream(bytes) == {n \in 1 .. 8 * Len(bytes) : BitOf(bytes, n)}

\* no bits, and the bits of bytes, are streams
LEMMA StreamOf == {} \in Streams /\ \A bytes \in Seq(Octets) : Stream(bytes) \in Streams
BY DEF Streams, Stream

\* the bits of the j-th byte
LEMMA StreamBits ==
  ASSUME NEW bytes \in Seq(Octets), NEW j \in 1 .. Len(bytes), NEW i \in 1 .. 8
  PROVE  /\ 8 * (j - 1) + i \in 1 .. 8 * Len(bytes)
         /\ 8 * (j - 1) + i \in Stream(bytes) <=> i \in Ones(bytes[j])
<1> DEFINE n == 8 * (j - 1) + i
<1>1. Len(bytes) \in Nat /\ j \in Nat /\ i \in Nat
  OBVIOUS
<1>2. n \in 1 .. 8 * Len(bytes)
  BY <1>1
<1>3. (n - 1) % 8 = i - 1 /\ (n - 1) \div 8 = j - 1
  BY <1>1
<1>4. BitOf(bytes, n) <=> i - 1 \in bytes[j]
  BY <1>1, <1>3 DEF BitOf
<1>5. bytes[j] \in Octets /\ i \in Int
  OBVIOUS
<1>6. i \in Ones(bytes[j]) <=> i - 1 \in bytes[j]
  BY <1>5, OnesOf
<1>7. n \in Stream(bytes) <=> BitOf(bytes, n)
  BY <1>2 DEF Stream
<1> QED BY <1>2, <1>4, <1>6, <1>7

(***************************************************************************)
(* Bytes that are added to a register, each followed by eight steps, leave *)
(* in it what their bits, coming in one by one, leave.                     *)
(***************************************************************************)
LEMMA BytesAsBits ==
  ASSUME NEW N \in Nat, 7 <= N, NEW P, NEW bytes \in Seq(Octets),
         NEW f, NEW g, Register(g, 8 * Len(bytes), P, N, Stream(bytes)), f[0] = g[0],
         \A j \in 1 .. Len(bytes) :
           \E h : /\ Register(h, 8, P, N, {})
                  /\ h[0] = Xor(f[j - 1], bytes[j]) /\ h[8] = f[j]
  PROVE  f[Len(bytes)] = g[8 * Len(bytes)]
<1> DEFINE M == Len(bytes)
           W == 0 .. N
           S == {j \in 0 .. M : f[j] = g[8 * j]}
<1>1. M \in Nat /\ 0 \in S
  OBVIOUS
<1>2. ASSUME NEW j \in 1 .. M, j - 1 \in S
      PROVE  j \in S
  <2> DEFINE o == 8 * (j - 1)
             s == [i \in 0 .. 8 |-> g[o + i]]
  <2>0. o \in Nat /\ o + 8 = 8 * j /\ o + 0 = o /\ j \in 0 .. M /\ bytes[j] \in Octets
    BY <1>1
  <2>1. ASSUME NEW i \in 1 .. 8
        PROVE  s[i] = Shifted(P, Input(s[i - 1], i \in Ones(bytes[j])))
    <3>1. o + i \in 1 .. 8 * M /\ (o + i \in Stream(bytes) <=> i \in Ones(bytes[j]))
      BY StreamBits
    <3>2. (o + i) - 1 = o + (i - 1) /\ i - 1 \in 0 .. 8 /\ i \in 0 .. 8
      BY <2>0
    <3>3. s[i] = g[o + i] /\ s[i - 1] = g[o + (i - 1)]
      BY <3>2
    <3> HIDE DEF s, o
    <3>4. g[o + i] = Shifted(P, Input(g[(o + i) - 1], o + i \in Stream(bytes)))
      BY <3>1, ZenonT(40) DEF Register
    <3>5. Input(s[i - 1], o + i \in Stream(bytes)) = Input(s[i - 1], i \in Ones(bytes[j]))
      BY <3>1 DEF Input
    <3> QED BY <3>2, <3>3, <3>4, <3>5
  <2>2. \A i \in 0 .. 8 : o + i \in 0 .. 8 * M
    BY <1>1
  <2>3. s \in [0 .. 8 -> SUBSET W]
    BY <2>2 DEF Register
  <2>4. Register(s, 8, P, N, Ones(bytes[j]))
    BY <2>1, <2>3 DEF Register
  <2>5. PICK h : Register(h, 8, P, N, {}) /\ h[0] = Xor(f[j - 1], bytes[j]) /\ h[8] = f[j]
    OBVIOUS
  <2>6. f[j - 1] = g[o] /\ s[0] = g[o] /\ s[8] = g[8 * j]
    BY <1>2, <2>0
  <2> HIDE DEF s, o
  <2>7. h[0] = Xor(s[0], bytes[j])
    BY <2>5, <2>6
  <2>8. h[8] = s[8]
    BY <2>0, <2>4, <2>5, <2>7, BitByBit
  <2> QED BY <2>0, <2>5, <2>6, <2>8
<1>3. \A j \in 0 .. M : j \in S
  <2> HIDE DEF S, M
  <2> QED BY <1>1, <1>2, Upwards
<1> QED BY <1>1, <1>3

\* the polynomial as init has it, its highest power at bit 0
P32 == BitRev(Poly, 32)

\* the last bit of the CRC-32's register
End == 31

\* the polynomial has a 1 at the register's last bit, and bytes fit in
LEMMA Poly32 == /\ End \in Nat /\ 7 <= End
                /\ P32 \in Words(End) /\ End \in P32
                /\ \A byte \in Octets :
                     byte \in Words(End) /\ \A k \in byte : k \in Nat /\ ~(k >= 8)
<1>1. \A k \in Poly : k \in 0 .. 31
  BY DEF Poly
<1>2. P32 \in SUBSET (0 .. 31)
  BY <1>1 DEF P32, BitRev
<1>3. 0 \in Poly /\ 31 = 32 - 1 - 0
  BY DEF Poly
<1>4. 31 \in P32
  BY <1>3 DEF P32, BitRev
<1>5. \A k \in 0 .. 7 : k \in 0 .. 31 /\ k \in Nat /\ ~(k >= 8)
  OBVIOUS
<1>6. \A byte \in Octets : byte \in SUBSET (0 .. 31) /\ \A k \in byte : k \in Nat /\ ~(k >= 8)
  BY <1>5 DEF Octets
<1> QED BY <1>2, <1>4, <1>6 DEF End, Words

\* init's inner loop shifts the register
LEMMA Halved == ASSUME NEW c \in Words(End) PROVE Halve(c) = Shifted(P32, c)
<1>0. \A b \in c : b \in Nat
  BY Poly32 DEF Words
<1>1. {b \in c : b >= 1} = c \ {0}
  BY <1>0
<1>2. ShiftRight(c, 1) = Down(c)
  BY <1>1 DEF ShiftRight, Down
<1> HIDE DEF P32
<1>3. Halve(c) = IF 0 \in c THEN Xor(P32, ShiftRight(c, 1)) ELSE ShiftRight(c, 1)
  BY DEF Halve, P32
<1> QED BY <1>2, <1>3 DEF Shifted

\* an entry of the table is what eight steps make of its byte
LEMMA Tabled ==
  ASSUME NEW byte \in Octets
  PROVE  \E c : Register(c, 8, P32, End, {}) /\ c[0] = byte /\ c[8] = Table[byte]
<1> DEFINE n == 8
           Is(f) == f = [i \in 0 .. n |-> IF i = 0 THEN byte ELSE Halve(f[i - 1])]
<1>0. n \in Nat
  OBVIOUS
<1>1. byte \in Words(End)
  BY Poly32
<1> DEFINE kept == CHOOSE f : Is(f)
<1>2. Table[byte] = kept[n]
  BY ZenonT(40) DEF Table
<1> HIDE DEF n
<1>3. PICK g : Register(g, n, P32, End, {}) /\ g[0] = byte
  BY <1>0, <1>1, Registers, Poly32, StreamOf
<1>4. ASSUME NEW i \in 1 .. n
      PROVE  g[i] = Halve(g[i - 1])
  <2>1. i - 1 \in 0 .. n
    BY <1>0
  <2>2. g[i] = Shifted(P32, Input(g[i - 1], i \in {})) /\ g[i - 1] \in Words(End)
    BY <1>3, <2>1, ZenonT(40) DEF Register, Words
  <2>3. Input(g[i - 1], i \in {}) = g[i - 1]
    BY DEF Input
  <2>4. Halve(g[i - 1]) = Shifted(P32, g[i - 1])
    BY <2>2, Halved
  <2> QED BY <2>2, <2>3, <2>4
<1>5. Is(g)
  <2>1. \A i \in 0 .. n : i # 0 => i \in 1 .. n
    BY <1>0
  <2>2. g = [i \in 0 .. n |-> g[i]]
    BY <1>3, ZenonT(40) DEF Register
  <2>3. \A i \in 0 .. n : g[i] = IF i = 0 THEN byte ELSE Halve(g[i - 1])
    BY <1>3, <1>4, <2>1
  <2> QED BY <2>2, <2>3, ZenonT(40)
<1>6. Is(kept)
  <2> HIDE DEF Is
  <2> QED BY <1>5
<1> HIDE DEF kept
<1>7. kept[0] = byte /\ \A i \in 1 .. n : kept[i] = Halve(kept[i - 1])
  <2>1. 0 \in 0 .. n /\ \A i \in 1 .. n : i \in 0 .. n /\ i # 0
    BY <1>0
  <2> QED BY <1>6, <2>1, ZenonT(40)
<1>8. Agree(n, kept, g)
  <2>1. kept[0] = g[0] /\ \A i \in 1 .. n : kept[i - 1] = g[i - 1] => kept[i] = g[i]
    BY <1>3, <1>4, <1>7
  <2> QED BY <1>0, <2>1, Alike
<1>9. g[n] = Table[byte]
  BY <1>0, <1>2, <1>8 DEF Agree
<1> QED BY <1>3, <1>9 DEF n

\* calByte is eight steps with its byte added
LEMMA OneByte ==
  ASSUME NEW crc \in Words(End), NEW byte \in Octets
  PROVE  \E h : /\ Register(h, 8, P32, End, {})
                /\ h[0] = Xor(crc, byte) /\ h[8] = CalByte(crc, byte)
<1> DEFINE x == Xor(crc, byte)
<1>1. byte \in Words(End)
  BY Poly32
<1>2. x \in Words(End)
  BY <1>1, XorWord DEF Words
<1>3. Low(x) \in Octets
  <2>1. \A k \in 0 .. End : k < 8 => k \in 0 .. 7
    BY Poly32
  <2> HIDE DEF x
  <2>2. \A k \in Low(x) : k \in 0 .. End /\ k < 8
    BY <1>2 DEF Low, Words
  <2> QED BY <2>1, <2>2 DEF Octets
<1>4. ShiftRight(x, 8) = ShiftRight(crc, 8)
  <2>1. \A k \in byte : ~(k >= 8)
    BY Poly32
  <2>2. {k \in x : k >= 8} = {k \in crc : k >= 8}
    BY <2>1 DEF Xor
  <2> QED BY <2>2 DEF ShiftRight
<1>5. CalByte(crc, byte) = Xor(ShiftRight(crc, 8), Table[Low(x)])
  BY DEF CalByte
<1> HIDE DEF x
<1>6. PICK c : Register(c, 8, P32, End, {}) /\ c[0] = Low(x) /\ c[8] = Table[Low(x)]
  BY <1>3, Tabled
<1>7. PICK h : Register(h, 8, P32, End, {}) /\ h[0] = x
  <2> DEFINE L == 8
  <2>1. L \in Nat
    OBVIOUS
  <2> HIDE DEF L
  <2>2. \E h : Register(h, L, P32, End, {}) /\ h[0] = x
    BY <1>2, <2>1, Poly32, Registers, StreamOf
  <2> QED BY <2>2 DEF L
<1>8. h[8] = Xor(ShiftRight(x, 8), c[8])
  <2>1. End \in Nat
    BY Poly32
  <2>2. Register(c, 8, P32, End, {}) /\ c[0] = Low(x) /\ Register(h, 8, P32, End, {}) /\ h[0] = x
    BY <1>6, <1>7
  <2> QED BY <1>2, <2>1, <2>2, ByTable
<1>9. h[8] = CalByte(crc, byte)
  BY <1>4, <1>5, <1>6, <1>8
<1> QED BY <1>7, <1>9 DEF x

\* what cal and the shifting of bits work on
Padded(bytes) == bytes \o Padding(Len(bytes))

\* padding leaves the block as it is, and adds zeros
LEMMA Filled ==
  ASSUME NEW bytes \in Seq(Octets)
  PROVE  /\ Padded(bytes) \in Seq(Octets)
         /\ Len(Padded(bytes)) = Len(bytes) + Len(Padding(Len(bytes)))
         /\ Len(Padding(Len(bytes))) \in Nat
         /\ \A i \in 1 .. Len(bytes) : Padded(bytes)[i] = bytes[i]
         /\ \A i \in 1 .. Len(Padded(bytes)) : i > Len(bytes) => Padded(bytes)[i] = {}
<1> DEFINE p == Padding(Len(bytes))
           k == 4 - (Len(bytes) % 4)
<1>1. Len(bytes) \in Nat /\ k \in Nat
  OBVIOUS
<1>2. p = [i \in 1 .. k |-> {}]
  BY DEF Padding
<1>3. {} \in Octets
  BY DEF Octets
<1> HIDE DEF k, p
<1>4. p \in Seq(Octets) /\ Len(p) = k /\ \A i \in 1 .. k : p[i] = {}
  BY <1>1, <1>2, <1>3
<1> DEFINE whole == bytes \o p
<1>5. /\ whole \in Seq(Octets) /\ Len(whole) = Len(bytes) + Len(p)
      /\ \A i \in 1 .. Len(bytes) : whole[i] = bytes[i]
      /\ \A i \in 1 .. Len(whole) : i > Len(bytes) => whole[i] = p[i - Len(bytes)]
  BY <1>4
<1>6. ASSUME NEW i \in 1 .. Len(whole), i > Len(bytes) PROVE whole[i] = {}
  <2>1. whole[i] = p[i - Len(bytes)]
    BY <1>5, <1>6
  <2>2. i - Len(bytes) \in 1 .. k
    BY <1>1, <1>4, <1>5, <1>6
  <2> QED BY <1>4, <2>1, <2>2
<1> QED BY <1>1, <1>4, <1>5, <1>6 DEF Padded, p

\* Cal, byte by byte
LEMMA CalSteps ==
  ASSUME NEW bytes \in Seq(Octets)
  PROVE  \E f : /\ Cal(bytes) = Xor(f[Len(Padded(bytes))], 0 .. End)
                /\ f[Len(Padded(bytes))] \in Words(End)
                /\ f[0] = 0 .. End
                /\ \A j \in 1 .. Len(Padded(bytes)) :
                     \E h : /\ Register(h, 8, P32, End, {})
                            /\ h[0] = Xor(f[j - 1], Padded(bytes)[j]) /\ h[8] = f[j]
<1> DEFINE padded == Padded(bytes)
           M == Len(padded)
           T == Words(End)
           base == 0 .. End
           step == [p \in (1 .. M) \X T |-> CalByte(p[2], padded[p[1]])]
           Is(f) == f = [i \in 0 .. M |-> IF i = 0 THEN base ELSE CalByte(f[i - 1], padded[i])]
           kept == CHOOSE f : Is(f)
<1>1. Cal(bytes) = Xor(kept[M], 0 .. End)
  BY ZenonT(40) DEF Cal, Padded, End
<1>2. M \in Nat /\ padded \in Seq(Octets) /\ base \in T
  BY Filled DEF Words
<1> HIDE DEF padded, M, base, kept
<1>3. ASSUME NEW crc \in T, NEW i \in 1 .. M
      PROVE  /\ CalByte(crc, padded[i]) \in T
             /\ \E h : /\ Register(h, 8, P32, End, {})
                       /\ h[0] = Xor(crc, padded[i]) /\ h[8] = CalByte(crc, padded[i])
  <2>1. padded[i] \in Octets
    BY <1>2 DEF M
  <2>2. PICK h : /\ Register(h, 8, P32, End, {})
                 /\ h[0] = Xor(crc, padded[i]) /\ h[8] = CalByte(crc, padded[i])
    BY <2>1, OneByte
  <2>3. h[8] \in T
    BY <2>2 DEF Register, Words
  <2> QED BY <2>2, <2>3
<1>4. step \in [(1 .. M) \X T -> T]
  <2> SUFFICES ASSUME NEW p \in (1 .. M) \X T PROVE CalByte(p[2], padded[p[1]]) \in T
    OBVIOUS
  <2>1. p[1] \in 1 .. M /\ p[2] \in T
    OBVIOUS
  <2> QED BY <1>3, <2>1
<1> HIDE DEF T, step
<1>5. PICK g \in [0 .. M -> T] : Recurs(g, M, base, step)
  BY <1>2, <1>4, Recursion
<1>6. ASSUME NEW i \in 1 .. M
      PROVE  g[i] = CalByte(g[i - 1], padded[i]) /\ g[i - 1] \in T
  <2>1. i - 1 \in 0 .. M
    BY <1>2
  <2>2. g[i - 1] \in T /\ g[i] = step[<<i, g[i - 1]>>]
    BY <1>5, <2>1 DEF Recurs
  <2> QED BY <2>2 DEF step
<1>7. Is(g)
  <2>1. \A i \in 0 .. M : i # 0 => i \in 1 .. M
    BY <1>2
  <2>2. g = [i \in 0 .. M |-> g[i]]
    BY <1>5
  <2>3. \A i \in 0 .. M : g[i] = IF i = 0 THEN base ELSE CalByte(g[i - 1], padded[i])
    BY <1>5, <1>6, <2>1 DEF Recurs
  <2> QED BY <2>2, <2>3, ZenonT(40)
<1>8. Is(kept)
  <2> HIDE DEF Is
  <2> QED BY <1>7 DEF kept
<1>9. kept[0] = base /\ \A i \in 1 .. M : kept[i] = CalByte(kept[i - 1], padded[i])
  <2>1. 0 \in 0 .. M /\ \A i \in 1 .. M : i \in 0 .. M /\ i # 0
    BY <1>2
  <2> QED BY <1>8, <2>1, ZenonT(40)
<1>10. Agree(M, kept, g)
  <2>1. kept[0] = g[0] /\ \A i \in 1 .. M : kept[i - 1] = g[i - 1] => kept[i] = g[i]
    BY <1>5, <1>6, <1>9 DEF Recurs
  <2> HIDE DEF Is
  <2> QED BY <1>2, <2>1, Alike
<1>11. kept[M] = g[M] /\ g[M] \in T /\ g[0] = base
  BY <1>2, <1>5, <1>10 DEF Recurs, Agree
<1>12. \A j \in 1 .. M : \E h : /\ Register(h, 8, P32, End, {})
                                /\ h[0] = Xor(g[j - 1], padded[j]) /\ h[8] = g[j]
  BY <1>3, <1>6
<1> QED BY <1>1, <1>11, <1>12 DEF padded, M, T, base

\* BitwiseCrc, bit by bit
LEMMA BitwiseSteps ==
  ASSUME NEW bytes \in Seq(Octets)
  PROVE  \E g : /\ BitwiseCrc(bytes) = Xor(g[8 * Len(Padded(bytes))], 0 .. End)
                /\ g[0] = 0 .. End
                /\ Register(g, 8 * Len(Padded(bytes)), P32, End, Stream(Padded(bytes)))
<1> DEFINE padded == Padded(bytes)
           L == 8 * Len(padded)
           base == 0 .. End
           ones == Stream(padded)
           Is(f) == f = [n \in 0 .. L |-> IF n = 0 THEN base
                                          ELSE ShiftBit(f[n - 1], BitOf(padded, n))]
           kept == CHOOSE f : Is(f)
<1>1. BitwiseCrc(bytes) = Xor(kept[L], 0 .. End)
  BY ZenonT(40) DEF BitwiseCrc, Padded, End
<1>2. L \in Nat /\ padded \in Seq(Octets) /\ base \in Words(End) /\ ones \in Streams
  BY Filled, StreamOf DEF Words
<1>3. \A n \in 1 .. L : n \in ones <=> BitOf(padded, n)
  BY DEF Stream
<1> HIDE DEF padded, L, base, kept, ones
<1>4. PICK g : Register(g, L, P32, End, ones) /\ g[0] = base
  BY <1>2, Poly32, Registers
<1>5. ASSUME NEW n \in 1 .. L
      PROVE  g[n] = ShiftBit(g[n - 1], BitOf(padded, n))
  <2>1. n - 1 \in 0 .. L
    BY <1>2
  <2>2. g[n] = Shifted(P32, Input(g[n - 1], n \in ones)) /\ g[n - 1] \in SUBSET (0 .. End)
    BY <1>4, <2>1, ZenonT(40) DEF Register
  <2>3. Input(g[n - 1], n \in ones) = Input(g[n - 1], BitOf(padded, n))
    BY <1>3 DEF Input
  <2>4. Input(g[n - 1], BitOf(padded, n)) \in Words(End)
    BY <2>2, Poly32, InputWord DEF Words
  <2>5. ShiftBit(g[n - 1], BitOf(padded, n)) = Halve(Input(g[n - 1], BitOf(padded, n)))
    BY DEF ShiftBit, Input
  <2> QED BY <2>2, <2>3, <2>4, <2>5, Halved
<1>6. Is(g)
  <2>1. \A n \in 0 .. L : n # 0 => n \in 1 .. L
    BY <1>2
  <2>2. g = [n \in 0 .. L |-> g[n]]
    BY <1>4, ZenonT(40) DEF Register
  <2>3. \A n \in 0 .. L : g[n] = IF n = 0 THEN base ELSE ShiftBit(g[n - 1], BitOf(padded, n))
    BY <1>4, <1>5, <2>1
  <2> QED BY <2>2, <2>3, ZenonT(40)
<1>7. Is(kept)
  <2> HIDE DEF Is
  <2> QED BY <1>6 DEF kept
<1>8. kept[0] = base /\ \A n \in 1 .. L : kept[n] = ShiftBit(kept[n - 1], BitOf(padded, n))
  <2>1. 0 \in 0 .. L /\ \A n \in 1 .. L : n \in 0 .. L /\ n # 0
    BY <1>2
  <2> QED BY <1>7, <2>1, ZenonT(40)
<1>9. Agree(L, kept, g)
  <2>1. kept[0] = g[0] /\ \A n \in 1 .. L : kept[n - 1] = g[n - 1] => kept[n] = g[n]
    BY <1>4, <1>5, <1>8
  <2> HIDE DEF Is
  <2> QED BY <1>2, <2>1, Alike
<1>10. kept[L] = g[L]
  BY <1>2, <1>9 DEF Agree
<1> QED BY <1>1, <1>4, <1>10 DEF padded, L, base, ones

\* the table makes no difference
LEMMA TableRight == ASSUME NEW bytes \in Seq(Octets) PROVE Cal(bytes) = BitwiseCrc(bytes)
<1> DEFINE padded == Padded(bytes)
<1>1. padded \in Seq(Octets) /\ End \in Nat /\ 7 <= End
  BY Filled, Poly32
<1>2. PICK f : /\ Cal(bytes) = Xor(f[Len(padded)], 0 .. End)
               /\ f[0] = 0 .. End
               /\ \A j \in 1 .. Len(padded) :
                    \E h : /\ Register(h, 8, P32, End, {})
                           /\ h[0] = Xor(f[j - 1], padded[j]) /\ h[8] = f[j]
  BY CalSteps
<1>3. PICK g : /\ BitwiseCrc(bytes) = Xor(g[8 * Len(padded)], 0 .. End)
               /\ g[0] = 0 .. End
               /\ Register(g, 8 * Len(padded), P32, End, Stream(padded))
  BY BitwiseSteps
<1> HIDE DEF padded
<1>4. f[Len(padded)] = g[8 * Len(padded)]
  BY <1>1, <1>2, <1>3, BytesAsBits
<1> QED BY <1>2, <1>3, <1>4

\* where the bits of two blocks differ
Differing(a, b) == {n \in 1 .. 8 * Len(a) : BitOf(a, n) # BitOf(b, n)}

\* the number of a bit's byte
LEMMA ByteOf ==
  ASSUME NEW M \in Nat, NEW n \in Nat, 1 <= n
  PROVE  /\ ((n - 1) \div 8) + 1 \in Nat
         /\ 1 <= ((n - 1) \div 8) + 1
         /\ ((n - 1) \div 8) + 1 <= M <=> n <= 8 * M
OBVIOUS

\* padding does not move them
LEMMA PaddedErrors ==
  ASSUME NEW a \in Seq(Octets), NEW b \in Seq(Octets), Len(a) = Len(b)
  PROVE  Differing(Padded(a), Padded(b)) = Differing(a, b)
<1> DEFINE p == Padded(a)
           q == Padded(b)
           k(n) == ((n - 1) \div 8) + 1
           M == Len(a)
<1>1. /\ p \in Seq(Octets) /\ M \in Nat /\ Len(p) \in Nat /\ M <= Len(p) /\ Len(q) = Len(p)
      /\ \A i \in 1 .. M : p[i] = a[i] /\ q[i] = b[i]
      /\ \A i \in 1 .. Len(p) : i > M => p[i] = {} /\ q[i] = {}
  <2>1. /\ p \in Seq(Octets) /\ Len(p) = Len(a) + Len(Padding(Len(a)))
        /\ Len(Padding(Len(a))) \in Nat
        /\ \A i \in 1 .. Len(a) : p[i] = a[i]
        /\ \A i \in 1 .. Len(p) : i > Len(a) => p[i] = {}
    BY Filled
  <2>2. /\ q \in Seq(Octets) /\ Len(q) = Len(b) + Len(Padding(Len(b)))
        /\ \A i \in 1 .. Len(b) : q[i] = b[i]
        /\ \A i \in 1 .. Len(q) : i > Len(b) => q[i] = {}
    BY Filled
  <2> HIDE DEF p, q
  <2>3. Len(a) \in Nat
    OBVIOUS
  <2> QED BY <2>1, <2>2, <2>3
<1> HIDE DEF p, q, M
<1>2. ASSUME NEW n \in 1 .. 8 * Len(p)
      PROVE  /\ n <= 8 * M => BitOf(p, n) = BitOf(a, n) /\ BitOf(q, n) = BitOf(b, n)
             /\ ~(n <= 8 * M) => BitOf(p, n) = BitOf(q, n)
  <2>1. n \in Nat /\ 1 <= n /\ Len(p) \in Nat /\ n <= 8 * Len(p)
    BY <1>1
  <2>2. k(n) \in Nat /\ 1 <= k(n) /\ (k(n) <= M <=> n <= 8 * M)
    BY <1>1, <2>1, ByteOf
  <2>3. k(n) <= Len(p) <=> n <= 8 * Len(p)
    BY <2>1, ByteOf
  <2>4. /\ BitOf(p, n) = ((n - 1) % 8 \in p[k(n)]) /\ BitOf(q, n) = ((n - 1) % 8 \in q[k(n)])
        /\ BitOf(a, n) = ((n - 1) % 8 \in a[k(n)]) /\ BitOf(b, n) = ((n - 1) % 8 \in b[k(n)])
    BY DEF BitOf
  <2> HIDE DEF k
  <2>5. n <= 8 * M => p[k(n)] = a[k(n)] /\ q[k(n)] = b[k(n)]
    <3>1. n <= 8 * M => k(n) \in 1 .. M
      BY <1>1, <2>2
    <3> QED BY <1>1, <3>1, Zenon
  <2>6. ~(n <= 8 * M) => p[k(n)] = q[k(n)]
    <3>1. ~(n <= 8 * M) => k(n) \in 1 .. Len(p) /\ k(n) > M
      BY <1>1, <2>1, <2>2, <2>3
    <3> QED BY <1>1, <3>1, Zenon
  <2> QED BY <2>4, <2>5, <2>6, Zenon
<1>3. \A n \in 1 .. 8 * M : n \in 1 .. 8 * Len(p) /\ n <= 8 * M
  BY <1>1
<1>4. \A n \in 1 .. 8 * Len(p) : n <= 8 * M => n \in 1 .. 8 * M
  BY <1>1
<1>5. Differing(p, q) = {n \in 1 .. 8 * Len(p) : BitOf(p, n) # BitOf(q, n)}
  BY DEF Differing
<1>6. Differing(a, b) = {n \in 1 .. 8 * M : BitOf(a, n) # BitOf(b, n)}
  BY DEF Differing, M
<1>7. ASSUME NEW n \in Differing(p, q) PROVE n \in Differing(a, b)
  BY <1>2, <1>4, <1>5, <1>6, <1>7, Zenon
<1>8. ASSUME NEW n \in Differing(a, b) PROVE n \in Differing(p, q)
  BY <1>2, <1>3, <1>5, <1>6, <1>8, Zenon
<1>9. Differing(p, q) = Differing(a, b)
  BY <1>7, <1>8
<1> QED BY <1>9 DEF p, q

(***************************************************************************)
(* The registers of two blocks of a length that differ in a burst no       *)
(* longer than the register differ at the end.                             *)
(***************************************************************************)
LEMMA BurstOfBits ==
  ASSUME NEW N \in Nat, NEW P \in Words(N), N \in P,
         NEW a \in Seq(Octets), NEW b \in Seq(Octets), Len(a) = Len(b),
         NEW f, NEW g, f[0] = g[0],
         Register(f, 8 * Len(a), P, N, Stream(a)), Register(g, 8 * Len(a), P, N, Stream(b)),
         Burst(a, b, N + 1)
  PROVE  f[8 * Len(a)] # g[8 * Len(a)]
<1> DEFINE L == 8 * Len(a)
           x == Stream(a)
           y == Stream(b)
<1>1. L \in Nat /\ P \in SUBSET (0 .. N)
  BY DEF Words
<1>2. \A n \in 1 .. L : (n \in x <=> BitOf(a, n)) /\ (n \in y <=> BitOf(b, n))
  BY DEF Stream
<1>3. Differing(a, b) = {n \in 1 .. L : BitOf(a, n) # BitOf(b, n)}
  BY DEF Differing
<1>4. \A n : BitOf(a, n) \in BOOLEAN /\ BitOf(b, n) \in BOOLEAN
  BY DEF BitOf
<1> HIDE DEF L, x, y
<1>5. {n \in 1 .. L : (n \in x) # (n \in y)} = Differing(a, b)
  <2> DEFINE e == {n \in 1 .. L : (n \in x) # (n \in y)}
  <2>1. ASSUME NEW n \in e PROVE n \in Differing(a, b)
    <3>1. n \in 1 .. L /\ (n \in x) # (n \in y)
      OBVIOUS
    <3>2. (n \in x <=> BitOf(a, n)) /\ (n \in y <=> BitOf(b, n))
      BY <1>2, <3>1
    <3>3. BitOf(a, n) # BitOf(b, n)
      BY <1>4, <3>1, <3>2
    <3> QED BY <1>3, <3>1, <3>3
  <2>2. ASSUME NEW n \in Differing(a, b) PROVE n \in e
    <3>1. n \in 1 .. L /\ BitOf(a, n) # BitOf(b, n)
      BY <1>3
    <3>2. (n \in x <=> BitOf(a, n)) /\ (n \in y <=> BitOf(b, n))
      BY <1>2, <3>1
    <3>3. (n \in x) # (n \in y)
      BY <1>4, <3>1, <3>2
    <3> QED BY <3>1, <3>3
  <2> HIDE DEF e
  <2>3. e = Differing(a, b)
    BY <2>1, <2>2
  <2> QED BY <2>3 DEF e
<1>6. Register(f, L, P, N, x) /\ Register(g, L, P, N, y)
  BY DEF L, x, y
<1>7. Differing(a, b) # {} /\ \A m, n \in Differing(a, b) : n - m < N + 1
  BY DEF Burst, Differing
<1>8. f[L] # g[L]
  BY <1>1, <1>5, <1>6, <1>7, BurstSeen
<1> QED BY <1>8 DEF L

(***************************************************************************)
(* The CRC-32 sees every burst of up to 32 bits.                           *)
(***************************************************************************)
LEMMA BurstSeen32 ==
  ASSUME NEW a \in Seq(Octets), NEW b \in Seq(Octets), Len(a) = Len(b), Burst(a, b, 32)
  PROVE  Cal(a) # Cal(b)
<1> DEFINE p == Padded(a)
           q == Padded(b)
<1>1. Burst(a, b, End + 1)
  <2>1. End + 1 = 32
    BY DEF End
  <2> QED BY <2>1
<1>2. Burst(p, q, End + 1)
  <2>1. Differing(p, q) = Differing(a, b)
    BY PaddedErrors
  <2> HIDE DEF p, q
  <2> QED BY <1>1, <2>1 DEF Burst, Differing
<1>3. p \in Seq(Octets) /\ q \in Seq(Octets) /\ Len(p) = Len(q)
  <2>1. p \in Seq(Octets) /\ Len(p) = Len(a) + Len(Padding(Len(a)))
    BY Filled
  <2>2. q \in Seq(Octets) /\ Len(q) = Len(b) + Len(Padding(Len(b)))
    BY Filled
  <2> QED BY <2>1, <2>2
<1>4. PICK f : /\ BitwiseCrc(a) = Xor(f[8 * Len(p)], 0 .. End) /\ f[0] = 0 .. End
               /\ Register(f, 8 * Len(p), P32, End, Stream(p))
  BY BitwiseSteps
<1>5. PICK g : /\ BitwiseCrc(b) = Xor(g[8 * Len(q)], 0 .. End) /\ g[0] = 0 .. End
               /\ Register(g, 8 * Len(q), P32, End, Stream(q))
  BY BitwiseSteps
<1> HIDE DEF p, q
<1>6. f[8 * Len(p)] # g[8 * Len(p)]
  <2>1. Register(g, 8 * Len(p), P32, End, Stream(q)) /\ f[0] = g[0]
    BY <1>3, <1>4, <1>5
  <2>2. End \in Nat /\ P32 \in Words(End) /\ End \in P32
    BY Poly32
  <2> QED BY <1>2, <1>3, <1>4, <2>1, <2>2, BurstOfBits
<1>7. \A x, y, z : Xor(x, z) = Xor(y, z) => x = y
  <2> SUFFICES ASSUME NEW x, NEW y, NEW z, Xor(x, z) = Xor(y, z) PROVE x = y
    OBVIOUS
  <2>1. x = Xor(Xor(y, z), z) /\ y = Xor(Xor(y, z), z)
    BY XorLaws
  <2> QED BY <2>1
<1>8. BitwiseCrc(a) # BitwiseCrc(b)
  BY <1>3, <1>4, <1>5, <1>6, <1>7
<1>9. Cal(a) = BitwiseCrc(a) /\ Cal(b) = BitwiseCrc(b)
  BY TableRight
<1> QED BY <1>8, <1>9

-----------------------------------------------------------------------------
(***************************************************************************)
(* calculateCRC16 shifts up; seen in a mirror it shifts down.              *)
(***************************************************************************)
Back(N, c) == {N - k : k \in c}

\* the mirror, bit by bit
LEMMA BackBits ==
  ASSUME NEW N \in Nat, NEW c \in Words(N)
  PROVE  /\ Back(N, c) \in Words(N)
         /\ \A k \in 0 .. N : k \in Back(N, c) <=> N - k \in c
<1>1. \A k \in c : k \in 0 .. N
  BY DEF Words
<1>2. ASSUME NEW k \in 0 .. N, k \in Back(N, c) PROVE N - k \in c
  <2>1. PICK j \in c : k = N - j
    BY <1>2 DEF Back
  <2>2. N - k = j
    BY <1>1, <2>1
  <2> QED BY <2>2
<1>3. ASSUME NEW k \in 0 .. N, N - k \in c PROVE k \in Back(N, c)
  <2>1. k = N - (N - k)
    OBVIOUS
  <2> QED BY <1>3, <2>1 DEF Back
<1>4. Back(N, c) \in SUBSET (0 .. N)
  <2> SUFFICES ASSUME NEW k \in Back(N, c) PROVE k \in 0 .. N
    OBVIOUS
  <2>1. PICK j \in c : k = N - j
    BY DEF Back
  <2> QED BY <1>1, <2>1
<1> QED BY <1>2, <1>3, <1>4 DEF Words

\* words with the same bits are the same
LEMMA SameWord ==
  ASSUME NEW N \in Nat, NEW a \in Words(N), NEW b \in Words(N),
         \A k \in 0 .. N : k \in a <=> k \in b
  PROVE  a = b
<1> DEFINE W == 0 .. N
<1>1. a \in SUBSET W /\ b \in SUBSET W /\ \A k \in W : k \in a <=> k \in b
  BY DEF Words
<1> HIDE DEF W
<1> QED BY <1>1

\* the mirror of a sum
LEMMA BackXor ==
  ASSUME NEW N \in Nat, NEW a \in Words(N), NEW b \in Words(N)
  PROVE  Xor(a, b) \in Words(N) /\ Back(N, Xor(a, b)) = Xor(Back(N, a), Back(N, b))
<1>1. Xor(a, b) \in Words(N)
  BY XorWord DEF Words
<1> DEFINE x == Back(N, Xor(a, b))
           y == Xor(Back(N, a), Back(N, b))
<1>2. x \in Words(N) /\ \A k \in 0 .. N : k \in x <=> N - k \in Xor(a, b)
  BY <1>1, BackBits
<1>3. /\ Back(N, a) \in Words(N) /\ \A k \in 0 .. N : k \in Back(N, a) <=> N - k \in a
      /\ Back(N, b) \in Words(N) /\ \A k \in 0 .. N : k \in Back(N, b) <=> N - k \in b
  BY BackBits
<1>4. y \in Words(N)
  BY <1>3, XorWord DEF Words
<1>5. ASSUME NEW k \in 0 .. N PROVE k \in x <=> k \in y
  <2>1. k \in x <=> ((N - k \in a /\ N - k \notin b) \/ (N - k \in b /\ N - k \notin a))
    BY <1>2 DEF Xor
  <2>2. k \in y <=> \/ k \in Back(N, a) /\ k \notin Back(N, b)
                    \/ k \in Back(N, b) /\ k \notin Back(N, a)
    BY DEF Xor
  <2> HIDE DEF x, y
  <2> QED BY <1>3, <2>1, <2>2
<1> HIDE DEF x, y
<1>6. x = y
  BY <1>2, <1>4, <1>5, SameWord
<1> QED BY <1>1, <1>6 DEF x, y

\* the last bit of the CRC-16's register, and the polynomial in the mirror
End16 == 15
P16 == Back(End16, Poly16)

\* it has a 1 at the last bit, too; the register starts with ones only
LEMMA Poly16Word ==
  /\ End16 \in Nat /\ 7 <= End16 /\ Poly16 \in Words(End16)
  /\ P16 \in Words(End16) /\ End16 \in P16
  /\ 0 .. End16 \in Words(End16) /\ Back(End16, 0 .. End16) = 0 .. End16
<1>1. End16 \in Nat /\ 7 <= End16
  BY DEF End16
<1>2. Poly16 \in Words(End16)
  BY DEF Poly16, Words, End16
<1>3. P16 \in Words(End16) /\ \A k \in 0 .. End16 : k \in P16 <=> End16 - k \in Poly16
  BY <1>1, <1>2, BackBits DEF P16
<1>4. End16 - End16 \in Poly16 /\ End16 \in 0 .. End16
  BY <1>1 DEF Poly16
<1>5. 0 .. End16 \in Words(End16)
  BY DEF Words
<1>6. Back(End16, 0 .. End16) = 0 .. End16
  <2> DEFINE N == End16
             all == 0 .. N
  <2>1. all \in Words(N) /\ N \in Nat
    BY <1>1, <1>5
  <2>2. \A k \in 0 .. N : N - k \in all /\ k \in all
    BY <2>1
  <2> HIDE DEF all
  <2>3. Back(N, all) \in Words(N) /\ \A k \in 0 .. N : k \in Back(N, all) <=> N - k \in all
    BY <2>1, BackBits
  <2>4. \A k \in 0 .. N : k \in Back(N, all) <=> k \in all
    BY <2>2, <2>3
  <2>5. Back(N, all) = all
    BY <2>1, <2>3, <2>4, SameWord
  <2> QED BY <2>5 DEF all
<1> QED BY <1>1, <1>2, <1>3, <1>4, <1>5, <1>6

\* a step up is a step down in the mirror
LEMMA UpIsDown ==
  ASSUME NEW c \in Words(End16)
  PROVE  Double16(c) \in Words(End16) /\ Back(End16, Double16(c)) = Shifted(P16, Back(End16, c))
<1> DEFINE N == End16
           twice == ShiftLeft(c, 1, 16)
<1>0. N \in Nat /\ N + 1 = 16 /\ \A k \in c : k \in 0 .. N
  BY DEF End16, Words
<1>1. \A j : j \in twice <=> \E k \in c : k + 1 < 16 /\ j = k + 1
  BY DEF ShiftLeft
<1> HIDE DEF N, twice
<1>2. twice \in Words(N)
  <2> SUFFICES ASSUME NEW j \in twice PROVE j \in 0 .. N
    BY DEF Words
  <2>1. PICK k \in c : k + 1 < 16 /\ j = k + 1
    BY <1>1
  <2> QED BY <1>0, <2>1
<1>3. Back(N, c) \in Words(N) /\ \A k \in 0 .. N : k \in Back(N, c) <=> N - k \in c
  BY <1>0, BackBits DEF N
<1>4. Back(N, twice) \in Words(N) /\ \A k \in 0 .. N : k \in Back(N, twice) <=> N - k \in twice
  BY <1>0, <1>2, BackBits
<1>5. /\ Down(Back(N, c)) \in Words(N)
      /\ \A k \in 0 .. N : k \in Down(Back(N, c)) <=> k + 1 \in Back(N, c)
  BY <1>0, <1>3, DownBits DEF Words
<1>6. ASSUME NEW k \in 0 .. N PROVE k \in Back(N, twice) <=> k \in Down(Back(N, c))
  <2>1. N - k \in twice <=> N - (k + 1) \in c
    <3>1. ASSUME N - k \in twice PROVE N - (k + 1) \in c
      <4>1. PICK j \in c : j + 1 < 16 /\ N - k = j + 1
        BY <1>1, <3>1
      <4>2. j = N - (k + 1)
        BY <1>0, <4>1
      <4> QED BY <4>2
    <3>2. ASSUME N - (k + 1) \in c PROVE N - k \in twice
      <4>1. N - (k + 1) + 1 < 16 /\ N - k = N - (k + 1) + 1
        BY <1>0
      <4> QED BY <1>1, <3>2, <4>1
    <3> QED BY <3>1, <3>2
  <2>2. k + 1 \in Back(N, c) <=> N - (k + 1) \in c
    <3>1. CASE k + 1 \in 0 .. N
      BY <1>3, <3>1
    <3>2. CASE k + 1 \notin 0 .. N
      <4>1. k + 1 \notin Back(N, c)
        BY <1>3, <3>2 DEF Words
      <4>2. N - (k + 1) \notin 0 .. N
        BY <1>0, <3>2
      <4> QED BY <1>0, <4>1, <4>2
    <3> QED BY <3>1, <3>2
  <2> QED BY <1>4, <1>5, <2>1, <2>2
<1>7. Back(N, twice) = Down(Back(N, c))
  BY <1>0, <1>4, <1>5, <1>6, SameWord
<1>8. 15 \in c <=> 0 \in Back(N, c)
  <2>1. N - 0 = 15 /\ 0 \in 0 .. N
    BY <1>0
  <2> QED BY <1>3, <2>1
<1>9. Double16(c) = IF 15 \in c THEN Xor(twice, Poly16) ELSE twice
  BY DEF Double16, twice
<1>10. Xor(twice, Poly16) \in Words(N) /\ Back(N, Xor(twice, Poly16)) = Xor(Down(Back(N, c)), P16)
  <2>1. N \in Nat /\ Poly16 \in Words(N) /\ P16 = Back(N, Poly16)
    BY Poly16Word DEF P16, N
  <2>2. /\ Xor(twice, Poly16) \in Words(N)
        /\ Back(N, Xor(twice, Poly16)) = Xor(Back(N, twice), Back(N, Poly16))
    BY <1>2, <2>1, BackXor
  <2> QED BY <1>7, <2>1, <2>2
<1>11. Xor(Down(Back(N, c)), P16) = Xor(P16, Down(Back(N, c)))
  BY XorLaws
<1>12. Double16(c) \in Words(N) /\ Back(N, Double16(c)) = Shifted(P16, Back(N, c))
  BY <1>2, <1>7, <1>8, <1>9, <1>10, <1>11 DEF Shifted
<1> QED BY <1>12 DEF N

\* the mirrored byte is what the shifted byte is in the mirror
LEMMA MirroredByte ==
  ASSUME NEW byte \in Octets
  PROVE  /\ BitRev(byte, 8) \in Octets
         /\ ShiftLeft(byte, 8, 16) \in Words(End16)
         /\ Back(End16, ShiftLeft(byte, 8, 16)) = BitRev(byte, 8)
<1> DEFINE up == ShiftLeft(byte, 8, 16)
<1>1. \A k \in byte : k \in 0 .. 7
  BY DEF Octets
<1>2. BitRev(byte, 8) \in Octets
  <2> SUFFICES ASSUME NEW j \in BitRev(byte, 8) PROVE j \in 0 .. 7
    BY DEF Octets
  <2>1. PICK k \in byte : j = 8 - 1 - k
    BY DEF BitRev
  <2> QED BY <1>1, <2>1
<1>3. \A j : j \in up <=> \E k \in byte : j = k + 8
  <2>1. \A j : j \in up <=> \E k \in byte : k + 8 < 16 /\ j = k + 8
    BY DEF ShiftLeft
  <2>2. \A k \in byte : k + 8 < 16
    BY <1>1
  <2> HIDE DEF up
  <2> QED BY <2>1, <2>2
<1> HIDE DEF up
<1>4. up \in Words(End16)
  <2> SUFFICES ASSUME NEW j \in up PROVE j \in 0 .. End16
    BY DEF Words
  <2>1. PICK k \in byte : j = k + 8
    BY <1>3
  <2>2. k \in 0 .. 7
    BY <1>1, <2>1
  <2> QED BY <2>1, <2>2 DEF End16
<1>5. ASSUME NEW j \in Back(End16, up) PROVE j \in BitRev(byte, 8)
  <2>1. PICK i \in up : j = End16 - i
    BY DEF Back
  <2>2. PICK k \in byte : i = k + 8
    BY <1>3, <2>1
  <2>3. k \in 0 .. 7
    BY <1>1, <2>2
  <2>4. j = 8 - 1 - k
    BY <2>1, <2>2, <2>3 DEF End16
  <2> QED BY <2>2, <2>4 DEF BitRev
<1>6. ASSUME NEW j \in BitRev(byte, 8) PROVE j \in Back(End16, up)
  <2>1. PICK k \in byte : j = 8 - 1 - k
    BY DEF BitRev
  <2>2. k \in 0 .. 7 /\ k + 8 \in up
    BY <1>1, <1>3, <2>1
  <2>3. j = End16 - (k + 8)
    BY <2>1, <2>2 DEF End16
  <2> QED BY <2>2, <2>3 DEF Back
<1>7. Back(End16, up) = BitRev(byte, 8)
  BY <1>5, <1>6
<1> QED BY <1>2, <1>4, <1>7 DEF up

\* all bytes of a block
LEMMA MirroredBytes ==
  ASSUME NEW bytes \in Seq(Octets)
  PROVE  /\ Mirrored(bytes) \in Seq(Octets) /\ Len(Mirrored(bytes)) = Len(bytes)
         /\ \A j \in 1 .. Len(bytes) : Mirrored(bytes)[j] = BitRev(bytes[j], 8)
<1>1. DOMAIN bytes = 1 .. Len(bytes) /\ Len(bytes) \in Nat
  OBVIOUS
<1>2. \A j \in 1 .. Len(bytes) : BitRev(bytes[j], 8) \in Octets
  BY MirroredByte
<1>3. Mirrored(bytes) = [j \in 1 .. Len(bytes) |-> BitRev(bytes[j], 8)]
  BY <1>1 DEF Mirrored
<1> QED BY <1>1, <1>2, <1>3

\* eight steps of calculateCRC16's inner loop, in the mirror
LEMMA EightUp ==
  ASSUME NEW crc \in Words(End16)
  PROVE  /\ Shift8(crc) \in Words(End16)
         /\ \E h : /\ Register(h, 8, P16, End16, {})
                   /\ h[0] = Back(End16, crc) /\ h[8] = Back(End16, Shift8(crc))
<1> DEFINE n == 8
           T == Words(End16)
           step == [p \in (1 .. n) \X T |-> Double16(p[2])]
           Is(f) == f = [i \in 0 .. n |-> IF i = 0 THEN crc ELSE Double16(f[i - 1])]
           kept == CHOOSE f : Is(f)
           base == crc
<1>1. Shift8(crc) = kept[n]
  BY ZenonT(40) DEF Shift8
<1>2. n \in Nat /\ base \in T
  OBVIOUS
<1>3. step \in [(1 .. n) \X T -> T]
  <2> SUFFICES ASSUME NEW p \in (1 .. n) \X T PROVE Double16(p[2]) \in T
    OBVIOUS
  <2>1. p[2] \in T
    OBVIOUS
  <2> QED BY <2>1, UpIsDown
<1> HIDE DEF n, T, step, kept, base
<1>4. PICK g \in [0 .. n -> T] : Recurs(g, n, base, step)
  BY <1>2, <1>3, Recursion
<1>5. ASSUME NEW i \in 1 .. n
      PROVE  g[i] = Double16(g[i - 1]) /\ g[i - 1] \in T
  <2>1. i - 1 \in 0 .. n
    BY <1>2
  <2>2. g[i - 1] \in T /\ g[i] = step[<<i, g[i - 1]>>]
    BY <1>4, <2>1 DEF Recurs
  <2> QED BY <2>2 DEF step
<1>6. Is(g)
  <2>1. \A i \in 0 .. n : i # 0 => i \in 1 .. n
    BY <1>2
  <2>2. g = [i \in 0 .. n |-> g[i]]
    BY <1>4
  <2>3. \A i \in 0 .. n : g[i] = IF i = 0 THEN crc ELSE Double16(g[i - 1])
    BY <1>4, <1>5, <2>1 DEF Recurs, base
  <2> QED BY <2>2, <2>3, ZenonT(40)
<1>7. Is(kept)
  <2> HIDE DEF Is
  <2> QED BY <1>6 DEF kept
<1>8. kept[0] = crc /\ \A i \in 1 .. n : kept[i] = Double16(kept[i - 1])
  <2>1. 0 \in 0 .. n /\ \A i \in 1 .. n : i \in 0 .. n /\ i # 0
    BY <1>2
  <2> QED BY <1>7, <2>1, ZenonT(40)
<1>9. Agree(n, kept, g)
  <2>1. kept[0] = g[0] /\ \A i \in 1 .. n : kept[i - 1] = g[i - 1] => kept[i] = g[i]
    BY <1>4, <1>5, <1>8 DEF Recurs, base
  <2>2. n \in Nat
    BY <1>2
  <2> HIDE DEF Is
  <2> QED BY <2>1, <2>2, Alike
<1>10. Shift8(crc) = g[n] /\ g[n] \in T /\ g[0] = crc
  BY <1>1, <1>2, <1>4, <1>9 DEF Recurs, base, Agree
<1> DEFINE h == [i \in 0 .. n |-> Back(End16, g[i])]
<1>11. h \in [0 .. n -> SUBSET (0 .. End16)]
  <2>1. \A i \in 0 .. n : Back(End16, g[i]) \in Words(End16)
    BY <1>4, Poly16Word, BackBits DEF T
  <2> QED BY <2>1 DEF Words
<1>12. ASSUME NEW i \in 1 .. n
       PROVE  h[i] = Shifted(P16, Input(h[i - 1], i \in {}))
  <2>1. i - 1 \in 0 .. n /\ i \in 0 .. n
    BY <1>2
  <2>2. h[i] = Back(End16, Double16(g[i - 1])) /\ h[i - 1] = Back(End16, g[i - 1])
    BY <1>5, <2>1
  <2>3. Back(End16, Double16(g[i - 1])) = Shifted(P16, Back(End16, g[i - 1]))
    BY <1>5, UpIsDown DEF T
  <2>4. Input(h[i - 1], i \in {}) = h[i - 1]
    BY DEF Input
  <2> HIDE DEF h
  <2> QED BY <2>2, <2>3, <2>4
<1>13. Register(h, n, P16, End16, {})
  BY <1>11, <1>12 DEF Register
<1>14. h[0] = Back(End16, crc) /\ h[n] = Back(End16, Shift8(crc))
  BY <1>2, <1>10
<1> HIDE DEF h
<1> QED BY <1>10, <1>13, <1>14 DEF n, T

\* calculateCRC16, byte by byte
LEMMA Crc16Steps ==
  ASSUME NEW bytes \in Seq(Octets)
  PROVE  /\ CalculateCRC16(bytes) \in Words(End16)
         /\ \E f : /\ Back(End16, CalculateCRC16(bytes)) = f[Len(bytes)]
                   /\ f[0] = 0 .. End16
                   /\ \A j \in 1 .. Len(bytes) :
                        \E h : /\ Register(h, 8, P16, End16, {})
                               /\ h[0] = Xor(f[j - 1], Mirrored(bytes)[j]) /\ h[8] = f[j]
<1> DEFINE M == Len(bytes)
           T == Words(End16)
           base == 0 .. End16
           added(crc, i) == Xor(crc, ShiftLeft(bytes[i], 8, 16))
           step == [p \in (1 .. M) \X T |-> Shift8(added(p[2], p[1]))]
           Is(f) == f = [i \in 0 .. M |-> IF i = 0 THEN base ELSE Shift8(added(f[i - 1], i))]
           kept == CHOOSE f : Is(f)
<1>1. CalculateCRC16(bytes) = kept[M]
  BY ZenonT(40) DEF CalculateCRC16, End16
<1>2. M \in Nat /\ base \in T /\ \A i \in 1 .. M : bytes[i] \in Octets
  BY Poly16Word
<1>3. ASSUME NEW crc \in T, NEW i \in 1 .. M
      PROVE  /\ added(crc, i) \in T
             /\ Back(End16, added(crc, i)) = Xor(Back(End16, crc), BitRev(bytes[i], 8))
  <2> DEFINE up == ShiftLeft(bytes[i], 8, 16)
  <2>1. up \in Words(End16) /\ Back(End16, up) = BitRev(bytes[i], 8)
    BY <1>2, MirroredByte
  <2>2. added(crc, i) = Xor(crc, up)
    OBVIOUS
  <2> HIDE DEF up, added
  <2>3. End16 \in Nat
    BY Poly16Word
  <2>4. /\ Xor(crc, up) \in Words(End16)
        /\ Back(End16, Xor(crc, up)) = Xor(Back(End16, crc), Back(End16, up))
    BY <2>1, <2>3, BackXor
  <2> QED BY <2>1, <2>2, <2>4
<1> HIDE DEF M, base, kept, added
<1>4. step \in [(1 .. M) \X T -> T]
  <2> SUFFICES ASSUME NEW p \in (1 .. M) \X T PROVE Shift8(added(p[2], p[1])) \in T
    OBVIOUS
  <2>1. p[1] \in 1 .. M /\ p[2] \in T
    OBVIOUS
  <2>2. added(p[2], p[1]) \in T
    BY <1>3, <2>1
  <2> QED BY <2>2, EightUp
<1> HIDE DEF T, step
<1>5. PICK g \in [0 .. M -> T] : Recurs(g, M, base, step)
  BY <1>2, <1>4, Recursion
<1>6. ASSUME NEW i \in 1 .. M
      PROVE  g[i] = Shift8(added(g[i - 1], i)) /\ g[i - 1] \in T
  <2>1. i - 1 \in 0 .. M
    BY <1>2
  <2>2. g[i - 1] \in T /\ g[i] = step[<<i, g[i - 1]>>]
    BY <1>5, <2>1 DEF Recurs
  <2> QED BY <2>2 DEF step
<1>7. Is(g)
  <2>1. \A i \in 0 .. M : i # 0 => i \in 1 .. M
    BY <1>2
  <2>2. g = [i \in 0 .. M |-> g[i]]
    BY <1>5
  <2>3. \A i \in 0 .. M : g[i] = IF i = 0 THEN base ELSE Shift8(added(g[i - 1], i))
    BY <1>5, <1>6, <2>1 DEF Recurs
  <2> QED BY <2>2, <2>3, ZenonT(40)
<1>8. Is(kept)
  <2> HIDE DEF Is
  <2> QED BY <1>7 DEF kept
<1>9. kept[0] = base /\ \A i \in 1 .. M : kept[i] = Shift8(added(kept[i - 1], i))
  <2>1. 0 \in 0 .. M /\ \A i \in 1 .. M : i \in 0 .. M /\ i # 0
    BY <1>2
  <2> QED BY <1>8, <2>1, ZenonT(40)
<1>10. Agree(M, kept, g)
  <2>1. kept[0] = g[0] /\ \A i \in 1 .. M : kept[i - 1] = g[i - 1] => kept[i] = g[i]
    BY <1>5, <1>6, <1>9 DEF Recurs
  <2> HIDE DEF Is
  <2> QED BY <1>2, <2>1, Alike
<1>11. CalculateCRC16(bytes) = g[M] /\ g[M] \in T /\ g[0] = base
  BY <1>1, <1>2, <1>5, <1>10 DEF Recurs, Agree
<1> DEFINE f == [j \in 0 .. M |-> Back(End16, g[j])]
<1>12. f[M] = Back(End16, CalculateCRC16(bytes)) /\ f[0] = 0 .. End16
  <2>1. f[M] = Back(End16, g[M]) /\ f[0] = Back(End16, g[0])
    BY <1>2
  <2> QED BY <1>11, <2>1, Poly16Word DEF base
<1>13. ASSUME NEW j \in 1 .. M
       PROVE  \E h : /\ Register(h, 8, P16, End16, {})
                     /\ h[0] = Xor(f[j - 1], Mirrored(bytes)[j]) /\ h[8] = f[j]
  <2> DEFINE x == added(g[j - 1], j)
  <2>1. f[j - 1] = Back(End16, g[j - 1]) /\ f[j] = Back(End16, g[j])
    BY <1>2
  <2>2. x \in T /\ Back(End16, x) = Xor(Back(End16, g[j - 1]), BitRev(bytes[j], 8))
    BY <1>3, <1>6
  <2>3. g[j] = Shift8(x) /\ Mirrored(bytes)[j] = BitRev(bytes[j], 8)
    BY <1>6, MirroredBytes DEF M
  <2> HIDE DEF x, f
  <2>4. PICK h : /\ Register(h, 8, P16, End16, {})
                 /\ h[0] = Back(End16, x) /\ h[8] = Back(End16, Shift8(x))
    BY <2>2, EightUp DEF T
  <2> QED BY <2>1, <2>2, <2>3, <2>4
<1> HIDE DEF f
<1> QED BY <1>11, <1>12, <1>13 DEF M, T

\* calculateCRC16, bit by bit
LEMMA Crc16Bits ==
  ASSUME NEW bytes \in Seq(Octets)
  PROVE  \E x : /\ Back(End16, CalculateCRC16(bytes)) = x[8 * Len(Mirrored(bytes))]
                /\ x[0] = 0 .. End16
                /\ Register(x, 8 * Len(Mirrored(bytes)), P16, End16, Stream(Mirrored(bytes)))
<1> DEFINE p == Mirrored(bytes)
           L == 8 * Len(p)
           all == 0 .. End16
<1>1. p \in Seq(Octets) /\ Len(p) = Len(bytes)
  BY MirroredBytes
<1>2. PICK f : /\ Back(End16, CalculateCRC16(bytes)) = f[Len(bytes)]
               /\ f[0] = all
               /\ \A j \in 1 .. Len(bytes) :
                    \E h : /\ Register(h, 8, P16, End16, {})
                           /\ h[0] = Xor(f[j - 1], p[j]) /\ h[8] = f[j]
  BY Crc16Steps
<1> HIDE DEF p, all
<1>3. /\ Back(End16, CalculateCRC16(bytes)) = f[Len(p)]
      /\ \A j \in 1 .. Len(p) :
           \E h : /\ Register(h, 8, P16, End16, {})
                  /\ h[0] = Xor(f[j - 1], p[j]) /\ h[8] = f[j]
  BY <1>1, <1>2
<1>4. End16 \in Nat /\ 7 <= End16 /\ P16 \in Words(End16) /\ all \in Words(End16)
  BY Poly16Word DEF all
<1>5. PICK x : Register(x, L, P16, End16, Stream(p)) /\ x[0] = all
  <2> DEFINE ones == Stream(p)
  <2>1. L \in Nat /\ End16 \in Nat /\ P16 \in Words(End16) /\ all \in Words(End16)
        /\ ones \in Streams
    BY <1>1, <1>4, StreamOf
  <2> HIDE DEF L, ones
  <2>2. \E x : Register(x, L, P16, End16, ones) /\ x[0] = all
    BY <2>1, Registers
  <2> QED BY <2>2 DEF ones
<1>6. p \in Seq(Octets) /\ f[0] = x[0]
  BY <1>1, <1>2, <1>5
<1>7. f[Len(p)] = x[8 * Len(p)]
  <2>1. End16 \in Nat /\ 7 <= End16
    BY <1>4
  <2>2. Register(x, 8 * Len(p), P16, End16, Stream(p))
    BY <1>5
  <2>3. \A j \in 1 .. Len(p) :
          \E h : /\ Register(h, 8, P16, End16, {})
                 /\ h[0] = Xor(f[j - 1], p[j]) /\ h[8] = f[j]
    BY <1>3
  <2> QED BY <1>6, <2>1, <2>2, <2>3, BytesAsBits
<1> QED BY <1>3, <1>5, <1>7 DEF p, all

(***************************************************************************)
(* The CRC-16 sees every burst of up to 16 bits.                           *)
(***************************************************************************)
LEMMA BurstSeen16 ==
  ASSUME NEW a \in Seq(Octets), NEW b \in Seq(Octets), Len(a) = Len(b),
         Burst(Mirrored(a), Mirrored(b), 16)
  PROVE  CalculateCRC16(a) # CalculateCRC16(b)
<1> DEFINE p == Mirrored(a)
           q == Mirrored(b)
           all == 0 .. End16
<1>1. p \in Seq(Octets) /\ q \in Seq(Octets) /\ Len(p) = Len(q)
  <2>1. p \in Seq(Octets) /\ Len(p) = Len(a)
    BY MirroredBytes
  <2>2. q \in Seq(Octets) /\ Len(q) = Len(b)
    BY MirroredBytes
  <2> QED BY <2>1, <2>2
<1>2. Burst(p, q, End16 + 1)
  <2>1. End16 + 1 = 16
    BY DEF End16
  <2> QED BY <2>1
<1>3. PICK x : /\ Back(End16, CalculateCRC16(a)) = x[8 * Len(p)] /\ x[0] = all
               /\ Register(x, 8 * Len(p), P16, End16, Stream(p))
  BY Crc16Bits
<1>4. PICK y : /\ Back(End16, CalculateCRC16(b)) = y[8 * Len(q)] /\ y[0] = all
               /\ Register(y, 8 * Len(q), P16, End16, Stream(q))
  BY Crc16Bits
<1> HIDE DEF p, q, all
<1>5. x[8 * Len(p)] # y[8 * Len(p)]
  <2>1. Register(y, 8 * Len(p), P16, End16, Stream(q)) /\ x[0] = y[0]
    BY <1>1, <1>3, <1>4
  <2>2. End16 \in Nat /\ P16 \in Words(End16) /\ End16 \in P16
    BY Poly16Word
  <2> QED BY <1>1, <1>2, <1>3, <2>1, <2>2, BurstOfBits
<1> QED BY <1>1, <1>3, <1>4, <1>5

-----------------------------------------------------------------------------
\* bytes are closed under exclusive or
LEMMA OctetXor == /\ {} \in Octets /\ \A a, b \in Octets : Xor(a, b) \in Octets
BY DEF Octets, Xor

\* a number in a range
LEMMA InRange == ASSUME NEW k \in Nat, NEW n \in Nat, n <= k PROVE n \in 0 .. k
OBVIOUS

\* the sizes that are sent are bytes
LEMMA OctetByte == \A n \in Nat : n <= 255 => Byte[n] \in Octets
<1> SUFFICES ASSUME NEW n \in Nat, n <= 255 PROVE Byte[n] \in Octets
  OBVIOUS
<1>0. n \in 0 .. 255
  <2>1. 255 \in Nat
    OBVIOUS
  <2> QED BY <2>1, InRange, Zenon
<1>1. Byte[n] = Bits(n, 8)
  BY <1>0, ZenonT(40) DEF Byte
<1>2. Bits(n, 8) \subseteq 0 .. 7
  BY DEF Bits
<1> QED BY <1>1, <1>2 DEF Octets

\* XorOf, byte by byte
LEMMA XorSteps ==
  ASSUME NEW bytes \in Seq(Octets)
  PROVE  \E g : /\ XorOf(bytes) = g[Len(bytes)] /\ g[0] = {}
                /\ \A i \in 1 .. Len(bytes) : g[i] = Xor(g[i - 1], bytes[i])
                /\ XorOf(bytes) \in Octets
<1> DEFINE M == Len(bytes)
           T == Octets
           base == {}
           step == [p \in (1 .. M) \X T |-> Xor(p[2], bytes[p[1]])]
           Is(f) == f = [i \in 0 .. M |-> IF i = 0 THEN base ELSE Xor(f[i - 1], bytes[i])]
           kept == CHOOSE f : Is(f)
<1>1. XorOf(bytes) = kept[M]
  BY ZenonT(40) DEF XorOf
<1>2. M \in Nat /\ base \in T /\ \A i \in 1 .. M : bytes[i] \in T
  BY OctetXor
<1>3. step \in [(1 .. M) \X T -> T]
  <2> SUFFICES ASSUME NEW p \in (1 .. M) \X T PROVE Xor(p[2], bytes[p[1]]) \in T
    OBVIOUS
  <2>1. p[2] \in T /\ bytes[p[1]] \in T
    BY <1>2
  <2> QED BY <2>1, OctetXor
<1> HIDE DEF M, T, step, base, kept
<1>4. PICK g \in [0 .. M -> T] : Recurs(g, M, base, step)
  BY <1>2, <1>3, Recursion
<1>5. ASSUME NEW i \in 1 .. M
      PROVE  g[i] = Xor(g[i - 1], bytes[i])
  <2>1. i - 1 \in 0 .. M
    BY <1>2
  <2>2. g[i - 1] \in T /\ g[i] = step[<<i, g[i - 1]>>]
    BY <1>4, <2>1 DEF Recurs
  <2> QED BY <2>2 DEF step
<1>6. Is(g)
  <2>1. \A i \in 0 .. M : i # 0 => i \in 1 .. M
    BY <1>2
  <2>2. g = [i \in 0 .. M |-> g[i]]
    BY <1>4
  <2>3. \A i \in 0 .. M : g[i] = IF i = 0 THEN base ELSE Xor(g[i - 1], bytes[i])
    BY <1>4, <1>5, <2>1 DEF Recurs
  <2> QED BY <2>2, <2>3, ZenonT(40)
<1>7. Is(kept)
  <2> HIDE DEF Is
  <2> QED BY <1>6 DEF kept
<1>8. kept[0] = base /\ \A i \in 1 .. M : kept[i] = Xor(kept[i - 1], bytes[i])
  <2>1. 0 \in 0 .. M /\ \A i \in 1 .. M : i \in 0 .. M /\ i # 0
    BY <1>2
  <2> QED BY <1>7, <2>1, ZenonT(40)
<1>9. Agree(M, kept, g)
  <2>1. kept[0] = g[0] /\ \A i \in 1 .. M : kept[i - 1] = g[i - 1] => kept[i] = g[i]
    BY <1>4, <1>5, <1>8 DEF Recurs
  <2> HIDE DEF Is
  <2> QED BY <1>2, <2>1, Alike
<1>10. XorOf(bytes) = g[M] /\ g[M] \in T /\ g[0] = base
  BY <1>1, <1>2, <1>4, <1>9 DEF Recurs, Agree
<1> QED BY <1>5, <1>10 DEF M, T, base

\* what is appended is added
LEMMA XorAppended ==
  ASSUME NEW s \in Seq(Octets), NEW x \in Octets
  PROVE  XorOf(Append(s, x)) = Xor(XorOf(s), x)
<1> DEFINE a == Append(s, x)
           M == Len(s)
<1>1. a \in Seq(Octets) /\ Len(a) = M + 1 /\ a[M + 1] = x /\ \A i \in 1 .. M : a[i] = s[i]
  BY Appended
<1>2. M \in Nat
  OBVIOUS
<1>3. PICK f : /\ XorOf(s) = f[M] /\ f[0] = {}
               /\ \A i \in 1 .. M : f[i] = Xor(f[i - 1], s[i])
  BY XorSteps
<1> HIDE DEF a
<1>4. PICK g : /\ XorOf(a) = g[Len(a)] /\ g[0] = {}
               /\ \A i \in 1 .. Len(a) : g[i] = Xor(g[i - 1], a[i])
  BY <1>1, XorSteps
<1> HIDE DEF M
<1>5. Agree(M, f, g)
  <2>1. ASSUME NEW i \in 1 .. M, f[i - 1] = g[i - 1]
        PROVE  f[i] = g[i]
    <3>1. i \in 1 .. Len(a) /\ a[i] = s[i]
      BY <1>1, <1>2
    <3> QED BY <1>3, <1>4, <2>1, <3>1
  <2> QED BY <1>2, <1>3, <1>4, <2>1, Alike
<1>6. f[M] = g[M]
  BY <1>2, <1>5 DEF Agree
<1>7. g[M + 1] = Xor(g[M], x)
  <2>1. M + 1 \in 1 .. Len(a) /\ (M + 1) - 1 = M
    BY <1>1, <1>2
  <2>2. g[M + 1] = Xor(g[(M + 1) - 1], a[M + 1])
    BY <1>4, <2>1
  <2> QED BY <1>1, <2>1, <2>2
<1> QED BY <1>1, <1>3, <1>4, <1>6, <1>7 DEF a

\* two sequences, one after the other
LEMMA Joined ==
  ASSUME NEW T, NEW s \in Seq(T), NEW t \in Seq(T)
  PROVE  /\ s \o t \in Seq(T) /\ Len(s \o t) = Len(s) + Len(t)
         /\ \A i \in 1 .. Len(s) : (s \o t)[i] = s[i]
         /\ \A i \in 1 .. Len(t) : (s \o t)[Len(s) + i] = t[i]
OBVIOUS

\* and a part of one
LEMMA Cut ==
  ASSUME NEW T, NEW s \in Seq(T), NEW a \in Nat, NEW b \in Nat, 1 <= a, a <= b + 1, b <= Len(s)
  PROVE  /\ SubSeq(s, a, b) \in Seq(T) /\ Len(SubSeq(s, a, b)) = b - a + 1
         /\ \A i \in 1 .. b - a + 1 : SubSeq(s, a, b)[i] = s[a + i - 1]
OBVIOUS

\* the bytes before the checksum
Body(message) ==
  <<SyncByte, message.cmd>> \o
    (IF message.hasPayload THEN <<Byte[Len(message.payload) % 256]>> \o message.payload ELSE <<>>)

\* they are: two bytes, the size and the payload
LEMMA BodyBytes ==
  ASSUME NEW m \in [cmd : Octets, hasPayload : BOOLEAN, payload : Seq(Octets)]
  PROVE  /\ m.hasPayload => /\ Body(m) \in Seq(Octets)
                            /\ Len(Body(m)) = 3 + Len(m.payload)
                            /\ \A i \in 1 .. Len(m.payload) : Body(m)[3 + i] = m.payload[i]
         /\ ~m.hasPayload => Body(m) = <<SyncByte, m.cmd>>
<1> DEFINE n == Len(m.payload)
           head == <<SyncByte, m.cmd>>
           size == <<Byte[n % 256]>>
           tail == size \o m.payload
<1>1. n \in Nat /\ n % 256 \in Nat /\ n % 256 <= 255 /\ 165 \in Nat /\ 165 <= 255
  OBVIOUS
<1>2. SyncByte \in Octets /\ Byte[n % 256] \in Octets
  BY <1>1, OctetByte DEF SyncByte
<1>3. head \in Seq(Octets) /\ Len(head) = 2 /\ m.payload \in Seq(Octets)
  BY <1>2
<1>4. size \in Seq(Octets) /\ Len(size) = 1
  BY <1>2
<1> HIDE DEF head, size
<1>5. tail \in Seq(Octets) /\ Len(tail) = 1 + n /\ \A i \in 1 .. n : tail[1 + i] = m.payload[i]
  <2>1. /\ tail \in Seq(Octets) /\ Len(tail) = Len(size) + n
        /\ \A i \in 1 .. n : tail[Len(size) + i] = m.payload[i]
    <3>1. size \in Seq(Octets) /\ m.payload \in Seq(Octets)
      BY <1>3, <1>4
    <3> QED BY <3>1, Joined
  <2> HIDE DEF tail
  <2> QED BY <1>4, <2>1
<1> HIDE DEF tail
<1>6. /\ head \o tail \in Seq(Octets) /\ Len(head \o tail) = 3 + n
      /\ \A i \in 1 .. n : (head \o tail)[3 + i] = m.payload[i]
  <2> DEFINE both == head \o tail
  <2>1. /\ both \in Seq(Octets) /\ Len(both) = Len(head) + Len(tail)
        /\ \A i \in 1 .. Len(tail) : both[Len(head) + i] = tail[i]
    <3>1. head \in Seq(Octets) /\ tail \in Seq(Octets)
      BY <1>3, <1>5
    <3> QED BY <3>1, Joined
  <2> HIDE DEF both
  <2>2. both \in Seq(Octets) /\ Len(both) = 3 + n /\ \A i \in 1 .. 1 + n : both[2 + i] = tail[i]
    BY <1>1, <1>3, <1>5, <2>1
  <2>3. ASSUME NEW i \in 1 .. n PROVE both[3 + i] = m.payload[i]
    <3>1. 1 + i \in 1 .. 1 + n /\ 2 + (1 + i) = 3 + i
      BY <1>1
    <3> QED BY <1>5, <2>2, <3>1
  <2> QED BY <2>2, <2>3 DEF both
<1>7. head \o <<>> = head
  BY <1>3
<1>8. m.hasPayload => Body(m) = head \o tail
  BY DEF Body, head, tail, size
<1>9. ~m.hasPayload => Body(m) = head \o <<>>
  BY DEF Body, head
<1> QED BY <1>6, <1>7, <1>8, <1>9 DEF head

\* what onEncodeData sends: the size, the payload and the checksum, or a part of them
LEMMA Encoded ==
  ASSUME NEW m \in [cmd : Octets, hasPayload : BOOLEAN, payload : Seq(Octets)]
  PROVE  LET sent == EncodeData(m)
         IN IF ~m.hasPayload THEN sent = <<SyncByte, m.cmd>>
            ELSE /\ Len(sent) = 4 + (Len(m.payload) % 256)
                 /\ Len(m.payload) < 256 =>
                      /\ SubSeq(sent, 4, Len(sent) - 1) = m.payload
                      /\ XorOf(sent) = {}
                 /\ Len(m.payload) >= 256 =>
                      Last(sent) = m.payload[(Len(m.payload) % 256) + 1]
<1> DEFINE n == Len(m.payload)
           body == Body(m)
           whole == Append(body, XorOf(body))
           sent == EncodeData(m)
           size == n % 256
<1>1. sent = SubSeq(whole, 1, EstimateLength(m))
  BY DEF EncodeData, Body
<1>2. n \in Nat /\ size \in Nat /\ size < 256 /\ size <= n /\ (n < 256 => size = n)
  OBVIOUS
<1> HIDE DEF sent, body
<1>3. CASE ~m.hasPayload
  <2>1. EstimateLength(m) = 2
    BY <1>3 DEF EstimateLength
  <2>2. body = <<SyncByte, m.cmd>>
    BY <1>3, BodyBytes DEF body
  <2>3. SubSeq(Append(<<SyncByte, m.cmd>>, XorOf(body)), 1, 2) = <<SyncByte, m.cmd>>
    <3> DEFINE x == SyncByte
               y == m.cmd
               z == XorOf(body)
               T == {x, y, z}
    <3> HIDE DEF x, y, z
    <3>1. <<x, y>> \in Seq(T) /\ z \in T
      OBVIOUS
    <3> DEFINE h == <<x, y>>
               w == Append(h, z)
               p == SubSeq(w, 1, 2)
    <3>2. Len(h) = 2 /\ h[1] = x /\ h[2] = y
      OBVIOUS
    <3>3. h \in Seq(T)
      BY <3>1
    <3> HIDE DEF h, T
    <3>4. w \in Seq(T) /\ Len(w) = Len(h) + 1 /\ \A i \in 1 .. Len(h) : w[i] = h[i]
      BY <3>1, <3>3, Appended
    <3> HIDE DEF w
    <3>5. w[1] = x /\ w[2] = y /\ Len(w) = 3
      BY <3>2, <3>4
    <3>6. p \in Seq(T) /\ Len(p) = 2 - 1 + 1 /\ \A i \in 1 .. 2 - 1 + 1 : p[i] = w[1 + i - 1]
      <4>1. 1 \in Nat /\ 2 \in Nat /\ 1 <= 1 /\ 1 <= 2 + 1 /\ 2 <= Len(w)
        BY <3>5
      <4> QED BY <3>4, <4>1, Cut
    <3> HIDE DEF p
    <3>7. p \in Seq(T) /\ Len(p) = 2 /\ p[1] = x /\ p[2] = y
      BY <3>5, <3>6
    <3>8. p = h
      BY <3>2, <3>3, <3>7
    <3> QED BY <3>8 DEF x, y, z, p, w, h
  <2>4. sent = <<SyncByte, m.cmd>>
    BY <1>1, <2>1, <2>2, <2>3
  <2> QED BY <1>3, <2>4 DEF sent
<1>4. CASE m.hasPayload
  <2>1. EstimateLength(m) = 4 + size
    BY <1>2, <1>4 DEF EstimateLength
  <2>2. /\ body \in Seq(Octets) /\ Len(body) = 3 + n
        /\ \A i \in 1 .. n : body[3 + i] = m.payload[i]
    BY <1>4, BodyBytes DEF body
  <2>3. PICK g : XorOf(body) \in Octets
    BY <2>2, XorSteps
  <2>4. /\ whole \in Seq(Octets) /\ Len(whole) = 4 + n
        /\ \A i \in 1 .. n : whole[3 + i] = m.payload[i]
    <3>1. /\ whole \in Seq(Octets) /\ Len(whole) = Len(body) + 1
          /\ \A i \in 1 .. Len(body) : whole[i] = body[i]
      BY <2>2, <2>3, Appended
    <3> HIDE DEF whole
    <3>2. \A i \in 1 .. n : 3 + i \in 1 .. Len(body)
      BY <1>2, <2>2
    <3> QED BY <1>2, <2>2, <3>1, <3>2
  <2>5. XorOf(whole) = {}
    <3>1. XorOf(whole) = Xor(XorOf(body), XorOf(body))
      BY <2>2, <2>3, XorAppended
    <3> QED BY <3>1, XorLaws
  <2> HIDE DEF whole, n, size
  <2>6. /\ Len(sent) = 4 + size /\ sent \in Seq(Octets)
        /\ \A i \in 1 .. 4 + size : sent[i] = whole[i]
    <3>1. 4 + size \in Nat /\ 4 + size <= Len(whole) /\ 1 \in Nat /\ 1 <= (4 + size) + 1
      BY <1>2, <2>4
    <3>2. sent = SubSeq(whole, 1, 4 + size)
      BY <1>1, <2>1
    <3>3. /\ sent \in Seq(Octets) /\ Len(sent) = (4 + size) - 1 + 1
          /\ \A i \in 1 .. (4 + size) - 1 + 1 : sent[i] = whole[1 + i - 1]
      BY <2>4, <3>1, <3>2, Cut
    <3> QED BY <1>2, <3>3
  <2>7. ASSUME n < 256
        PROVE  SubSeq(sent, 4, Len(sent) - 1) = m.payload /\ XorOf(sent) = {}
    <3>1. sent = whole
      BY <1>2, <2>4, <2>6, <2>7
    <3>2. m.payload \in Seq(Octets) /\ Len(m.payload) = n
      BY DEF n
    <3> DEFINE part == SubSeq(whole, 4, 3 + n)
    <3>3. /\ part \in Seq(Octets) /\ Len(part) = n
          /\ \A i \in 1 .. n : part[i] = whole[3 + i]
      BY <1>2, <2>4
    <3> HIDE DEF part
    <3>4. part = m.payload
      BY <1>2, <2>4, <3>2, <3>3
    <3>5. Len(sent) - 1 = 3 + n
      BY <1>2, <2>6, <2>7
    <3> QED BY <2>5, <3>1, <3>4, <3>5 DEF part
  <2>8. ASSUME n >= 256
        PROVE  Last(sent) = m.payload[size + 1]
    <3>1. Last(sent) = sent[4 + size]
      BY <2>6 DEF Last
    <3>2. sent[4 + size] = whole[4 + size] /\ size + 1 \in 1 .. n /\ 3 + (size + 1) = 4 + size
      BY <1>2, <2>6, <2>8
    <3>3. whole[3 + (size + 1)] = m.payload[size + 1]
      BY <2>4, <3>2
    <3> QED BY <3>1, <3>2, <3>3
  <2> QED BY <1>4, <2>6, <2>7, <2>8 DEF sent, n, size
<1> QED BY <1>3, <1>4

-----------------------------------------------------------------------------
\* what the bytes' case says, from its inputs
LEMMA BytesHold == IInv => BytesAreChecked
<1> SUFFICES ASSUME IInv PROVE BytesAreChecked
  OBVIOUS
<1>1. ASSUME case.of = "encode"
      PROVE  case.message \in [cmd : Octets, hasPayload : BOOLEAN, payload : Seq(Octets)]
  BY <1>1, AlgorithmsAssumption DEF IInv, AlgorithmsAssumption
<1>2. ASSUME case.of = "crc"
      PROVE  /\ case.blocks[1] \in Seq(Octets) /\ case.blocks[2] \in Seq(Octets)
             /\ Len(case.blocks[1]) = Len(case.blocks[2])
  <2>1. case.blocks \in Blocks
    BY <1>2 DEF IInv
  <2> QED BY <2>1, AlgorithmsAssumption DEF AlgorithmsAssumption
<1>3. ASSUME case.of = "encode"
      PROVE  LET m == case.message
                 sent == EncodeData(m)
             IN IF ~m.hasPayload THEN sent = <<SyncByte, m.cmd>>
                ELSE /\ Len(sent) = 4 + (Len(m.payload) % 256)
                     /\ Len(m.payload) < 256 =>
                          /\ SubSeq(sent, 4, Len(sent) - 1) = m.payload
                          /\ XorOf(sent) = {}
                     /\ Len(m.payload) >= 256 =>
                          Last(sent) = m.payload[(Len(m.payload) % 256) + 1]
  <2> DEFINE m == case.message
  <2>1. m \in [cmd : Octets, hasPayload : BOOLEAN, payload : Seq(Octets)]
    BY <1>1, <1>3
  <2> HIDE DEF m
  <2>2. LET sent == EncodeData(m)
        IN IF ~m.hasPayload THEN sent = <<SyncByte, m.cmd>>
           ELSE /\ Len(sent) = 4 + (Len(m.payload) % 256)
                /\ Len(m.payload) < 256 =>
                     /\ SubSeq(sent, 4, Len(sent) - 1) = m.payload
                     /\ XorOf(sent) = {}
                /\ Len(m.payload) >= 256 =>
                     Last(sent) = m.payload[(Len(m.payload) % 256) + 1]
    BY <2>1, Encoded
  <2> QED BY <2>2, Zenon DEF m
<1>4. ASSUME case.of = "crc"
      PROVE  /\ Cal(case.blocks[1]) = BitwiseCrc(case.blocks[1])
             /\ Burst(case.blocks[1], case.blocks[2], 32) =>
                  Cal(case.blocks[1]) # Cal(case.blocks[2])
             /\ Burst(Mirrored(case.blocks[1]), Mirrored(case.blocks[2]), 16) =>
                  CalculateCRC16(case.blocks[1]) # CalculateCRC16(case.blocks[2])
  BY <1>2, <1>4, TableRight, BurstSeen32, BurstSeen16
<1> QED BY <1>3, <1>4, Zenon DEF BytesAreChecked

(***************************************************************************)
(* For requests of any size and blocks of any length: what onEncodeData    *)
(* sends is the request with its checksum (sl_lidarprotocol_codec.cpp:91), *)
(* the table of the CRC-32 (sl_crc.cpp) gives what shifting the block bit  *)
(* by bit gives, and neither it nor the CRC-16 of Protocol.h takes a block *)
(* for the same block with a burst of errors no longer than the register.  *)
(***************************************************************************)
THEOREM BytesChecked == Spec => []BytesAreChecked
BY BytesHold, Invariant, PTL

-----------------------------------------------------------------------------
(***************************************************************************)
(* How far the states of the steering law are, after n periods, from what  *)
(* a steady error asks for: the rate in mm/s, the raw steering that it     *)
(* turns, the filtered steering, with the slowest filter, and the last one *)
(* sent, in hundredths of a degree.                                        *)
(***************************************************************************)
Slower(rate) == (85 * rate + 99) \div 100
RawOff(rate) == (rate + 3) \div 4
Nearer(filtered, rate) == (88 * filtered + 12 * RawOff(rate) + 99) \div 100

RateDecay == [p \in (1 .. MaxPeriods) \X Nat |-> Slower(p[2])]
RateOff == CHOOSE g \in [0 .. MaxPeriods -> Nat] : Recurs(g, MaxPeriods, FastestRate, RateDecay)

Widest == 2 * Limit * 100
FilteredDecay == [p \in (1 .. MaxPeriods) \X Nat |-> Nearer(p[2], RateOff[p[1]])]
FilteredOff == CHOOSE g \in [0 .. MaxPeriods -> Nat] : Recurs(g, MaxPeriods, Widest, FilteredDecay)

\* 200: the least that the slew limit lets through in a period; 150: the dead zone
\* and the rounding; 44: from there on the dead zone is reached
LastOff(n) == IF n <= 44 THEN Widest + 150 - 200 * n ELSE 150 + FilteredOff[n]

\* the steering is watched long enough
LEMMA Periods == MaxPeriods \in Nat /\ MaxPeriods >= 60
BY AlgorithmsAssumption DEF AlgorithmsAssumption, SettlingPeriods

\* what a rate decays to
LEMMA Slowed == \A rate \in Nat : Slower(rate) \in Nat /\ Slower(rate) <= rate
BY DEF Slower

\* and the filtered steering
LEMMA Neared == \A filtered, rate \in Nat : Nearer(filtered, rate) \in Nat
BY DEF Nearer, RawOff

\* the bounds are what their recurrences say
LEMMA RateDecays ==
  /\ RateOff \in [0 .. MaxPeriods -> Nat]
  /\ RateOff[0] = 300
  /\ \A n \in 1 .. MaxPeriods : n - 1 \in 0 .. MaxPeriods /\ RateOff[n] = Slower(RateOff[n - 1])
<1>1. MaxPeriods \in Nat /\ FastestRate \in Nat
  BY Periods DEF FastestRate
<1>2. RateDecay \in [(1 .. MaxPeriods) \X Nat -> Nat]
  BY Slowed DEF RateDecay
<1>3. \E g \in [0 .. MaxPeriods -> Nat] : Recurs(g, MaxPeriods, FastestRate, RateDecay)
  BY <1>1, <1>2, Recursion
<1>4. RateOff \in [0 .. MaxPeriods -> Nat] /\ Recurs(RateOff, MaxPeriods, FastestRate, RateDecay)
  BY <1>3, Zenon DEF RateOff
<1>5. ASSUME NEW n \in 1 .. MaxPeriods
      PROVE  n - 1 \in 0 .. MaxPeriods /\ RateOff[n] = Slower(RateOff[n - 1])
  <2>1. n - 1 \in 0 .. MaxPeriods
    BY <1>1
  <2>2. RateOff[n - 1] \in Nat
    BY <1>4, <2>1
  <2>3. RateOff[n] = RateDecay[<<n, RateOff[n - 1]>>]
    BY <1>4 DEF Recurs
  <2> QED BY <2>1, <2>2, <2>3 DEF RateDecay
<1> QED BY <1>4, <1>5 DEF Recurs, FastestRate

\* the one of the filtered steering, with the rate's
LEMMA FilteredDecays ==
  /\ FilteredOff \in [0 .. MaxPeriods -> Nat]
  /\ FilteredOff[0] = 9000
  /\ \A n \in 1 .. MaxPeriods :
       n - 1 \in 0 .. MaxPeriods /\ FilteredOff[n] = Nearer(FilteredOff[n - 1], RateOff[n])
<1>1. MaxPeriods \in Nat /\ Widest \in Nat
  BY Periods DEF Widest, Limit
<1>0. \A n \in 1 .. MaxPeriods : RateOff[n] \in Nat
  BY <1>1, RateDecays
<1>2. FilteredDecay \in [(1 .. MaxPeriods) \X Nat -> Nat]
  BY <1>0, Neared DEF FilteredDecay
<1>3. \E g \in [0 .. MaxPeriods -> Nat] : Recurs(g, MaxPeriods, Widest, FilteredDecay)
  BY <1>1, <1>2, Recursion
<1>4. FilteredOff \in [0 .. MaxPeriods -> Nat] /\ Recurs(FilteredOff, MaxPeriods, Widest, FilteredDecay)
  BY <1>3, Zenon DEF FilteredOff
<1>5. ASSUME NEW n \in 1 .. MaxPeriods
      PROVE  n - 1 \in 0 .. MaxPeriods /\ FilteredOff[n] = Nearer(FilteredOff[n - 1], RateOff[n])
  <2>1. n - 1 \in 0 .. MaxPeriods
    BY <1>1
  <2>2. FilteredOff[n - 1] \in Nat
    BY <1>4, <2>1
  <2>3. FilteredOff[n] = FilteredDecay[<<n, FilteredOff[n - 1]>>]
    BY <1>4 DEF Recurs
  <2> QED BY <2>1, <2>2, <2>3 DEF FilteredDecay
<1> QED BY <1>4, <1>5 DEF Recurs, Widest, Limit

\* they are natural numbers
LEMMA OffNumbers ==
  \A n \in 0 .. MaxPeriods : RateOff[n] \in Nat /\ FilteredOff[n] \in Nat
<1>1. RateOff \in [0 .. MaxPeriods -> Nat]
  BY RateDecays
<1>2. FilteredOff \in [0 .. MaxPeriods -> Nat]
  BY FilteredDecays
<1> QED BY <1>1, <1>2

\* the rate falls, and what it turns of the raw steering is less than the filtered
\* steering is off
LEMMA FilteredOver ==
  \A n \in 1 .. MaxPeriods : RawOff(RateOff[n]) <= FilteredOff[n - 1]
<1> DEFINE S == {n \in 0 .. MaxPeriods : RawOff(RateOff[n]) <= FilteredOff[n]}
<1>1. MaxPeriods \in Nat
  BY Periods
<1>2. \A n \in 0 .. MaxPeriods : RateOff[n] \in Nat /\ FilteredOff[n] \in Nat
  BY OffNumbers
<1>3. 0 \in S
  BY <1>1, RateDecays, FilteredDecays DEF RawOff
<1>4. ASSUME NEW n \in 1 .. MaxPeriods, n - 1 \in S
      PROVE  n \in S /\ RawOff(RateOff[n]) <= FilteredOff[n - 1]
  <2> DEFINE a == RateOff[n - 1]  b == RateOff[n]  e == FilteredOff[n - 1]  f == FilteredOff[n]
  <2>1. n - 1 \in 0 .. MaxPeriods /\ n \in 0 .. MaxPeriods
    BY <1>1
  <2>2. a \in Nat /\ b \in Nat /\ e \in Nat /\ f \in Nat
    BY <1>2, <2>1
  <2>3. b = Slower(a) /\ f = Nearer(e, b) /\ RawOff(a) <= e
    BY <1>4, RateDecays, FilteredDecays
  <2> HIDE DEF a, b, e, f
  <2>4. b <= a
    BY <2>2, <2>3, Slowed
  <2>5. RawOff(b) <= RawOff(a)
    BY <2>2, <2>4 DEF RawOff
  <2>6. RawOff(b) <= e /\ RawOff(b) \in Nat
    BY <2>2, <2>3, <2>5 DEF RawOff
  <2>7. RawOff(b) <= f
    <3> DEFINE r == RawOff(b)
    <3>1. f = (88 * e + 12 * r + 99) \div 100
      BY <2>3 DEF Nearer
    <3> HIDE DEF r
    <3>2. r \in Nat /\ r <= e
      BY <2>6 DEF r
    <3>3. r <= f
      BY <2>2, <3>1, <3>2
    <3> QED BY <3>3 DEF r
  <2> QED BY <2>1, <2>6, <2>7 DEF b, e, f
<1>5. \A n \in 0 .. MaxPeriods : n \in S
  <2> HIDE DEF S
  <2> QED BY <1>1, <1>3, <1>4, Upwards
<1> QED
  <2>1. \A n \in 1 .. MaxPeriods : n - 1 \in S
    <3>1. \A n \in 1 .. MaxPeriods : n - 1 \in 0 .. MaxPeriods
      BY <1>1
    <3> HIDE DEF S
    <3> QED BY <1>5, <3>1
  <2> QED BY <1>4, <2>1

\* neither bound grows again
LEMMA OffFalls ==
  ASSUME NEW m \in 0 .. MaxPeriods, NEW n \in 0 .. MaxPeriods, m <= n
  PROVE  RateOff[n] <= RateOff[m] /\ FilteredOff[n] <= FilteredOff[m]
<1> DEFINE S == {k \in 0 .. MaxPeriods :
                   m <= k => RateOff[k] <= RateOff[m] /\ FilteredOff[k] <= FilteredOff[m]}
<1>1. MaxPeriods \in Nat
  BY Periods
<1>2. \A k \in 0 .. MaxPeriods : RateOff[k] \in Nat /\ FilteredOff[k] \in Nat
  BY OffNumbers
<1>3. 0 \in S
  <2>1. 0 \in 0 .. MaxPeriods /\ (m <= 0 => m = 0)
    BY <1>1
  <2> QED BY <1>2, <2>1
<1>4. ASSUME NEW k \in 1 .. MaxPeriods, k - 1 \in S
      PROVE  k \in S
  <2> DEFINE a == RateOff[k - 1]  b == RateOff[k]  e == FilteredOff[k - 1]  f == FilteredOff[k]
  <2>1. k - 1 \in 0 .. MaxPeriods /\ k \in 0 .. MaxPeriods
    BY <1>1
  <2>2. a \in Nat /\ b \in Nat /\ e \in Nat /\ f \in Nat
    BY <1>2, <2>1
  <2>3. b = Slower(a) /\ f = Nearer(e, b) /\ RawOff(b) <= e
    BY RateDecays, FilteredDecays, FilteredOver
  <2> HIDE DEF a, b, e, f
  <2>4. b <= a
    BY <2>2, <2>3, Slowed
  <2>5. f <= e
    <3> DEFINE r == RawOff(b)
    <3>1. f = (88 * e + 12 * r + 99) \div 100
      BY <2>3 DEF Nearer
    <3>2. r \in Nat /\ r <= e
      BY <2>2, <2>3 DEF RawOff
    <3> HIDE DEF r
    <3> QED BY <2>2, <3>1, <3>2
  <2>6. RateOff[k] <= RateOff[k - 1] /\ FilteredOff[k] <= FilteredOff[k - 1]
    BY <2>4, <2>5 DEF a, b, e, f
  <2>7. CASE m = k
    BY <1>2, <2>1, <2>7
  <2>8. CASE m # k
    <3>1. m <= k => m <= k - 1
      BY <2>1, <2>8
    <3>2. m <= k => RateOff[k - 1] <= RateOff[m] /\ FilteredOff[k - 1] <= FilteredOff[m]
      BY <1>4, <3>1
    <3>3. RateOff[m] \in Nat /\ FilteredOff[m] \in Nat
      BY <1>2
    <3>4. m <= k => b <= RateOff[m] /\ f <= FilteredOff[m]
      BY <2>2, <2>4, <2>5, <3>2, <3>3 DEF a, e
    <3> QED BY <2>1, <3>4 DEF b, f
  <2> QED BY <2>7, <2>8
<1>5. n \in S
  <2> HIDE DEF S
  <2> QED BY <1>1, <1>3, <1>4, Upwards
<1> QED BY <1>5

\* what the decay comes to, five periods at a time
LEMMA Settling ==
  /\ FilteredOff[1] <= 8000 /\ FilteredOff[5] <= 6000 /\ FilteredOff[10] <= 3000
  /\ FilteredOff[20] <= 1000 /\ FilteredOff[30] <= 500 /\ FilteredOff[40] <= 200
  /\ FilteredOff[60] <= 10
<1> DEFINE At(n, rate, filtered) == RateOff[n] = rate /\ FilteredOff[n] = filtered
<1>1. ASSUME NEW n \in Nat, 1 <= n, n <= 60, NEW rate \in Nat, NEW filtered \in Nat,
             At(n - 1, rate, filtered)
      PROVE  At(n, Slower(rate), Nearer(filtered, Slower(rate)))
  <2>1. n \in 1 .. MaxPeriods
    BY <1>1, Periods
  <2>2. RateOff[n] = Slower(RateOff[n - 1]) /\ FilteredOff[n] = Nearer(FilteredOff[n - 1], RateOff[n])
    BY <2>1, RateDecays, FilteredDecays
  <2> QED BY <1>1, <2>2
<1>2. At(0, 300, 9000)
  BY RateDecays, FilteredDecays
<1>3. At(5, 135, 4773) /\ FilteredOff[1] <= 8000
  <2>1. At(1, 255, 7928)
    BY <1>2, <1>1 DEF Slower, Nearer, RawOff
  <2>2. At(2, 217, 6984)
    BY <2>1, <1>1 DEF Slower, Nearer, RawOff
  <2>3. At(3, 185, 6152)
    BY <2>2, <1>1 DEF Slower, Nearer, RawOff
  <2>4. At(4, 158, 5419)
    BY <2>3, <1>1 DEF Slower, Nearer, RawOff
  <2>5. At(5, 135, 4773)
    BY <2>4, <1>1 DEF Slower, Nearer, RawOff
  <2> QED BY <2>1, <2>5
<1>4. At(10, 62, 2531)
  <2>1. At(6, 115, 4204)
    BY <1>3, <1>1 DEF Slower, Nearer, RawOff
  <2>2. At(7, 98, 3703)
    BY <2>1, <1>1 DEF Slower, Nearer, RawOff
  <2>3. At(8, 84, 3262)
    BY <2>2, <1>1 DEF Slower, Nearer, RawOff
  <2>4. At(9, 72, 2873)
    BY <2>3, <1>1 DEF Slower, Nearer, RawOff
  <2>5. At(10, 62, 2531)
    BY <2>4, <1>1 DEF Slower, Nearer, RawOff
  <2> QED BY <2>5
<1>5. At(15, 29, 1342)
  <2>1. At(11, 53, 2229)
    BY <1>4, <1>1 DEF Slower, Nearer, RawOff
  <2>2. At(12, 46, 1963)
    BY <2>1, <1>1 DEF Slower, Nearer, RawOff
  <2>3. At(13, 40, 1729)
    BY <2>2, <1>1 DEF Slower, Nearer, RawOff
  <2>4. At(14, 34, 1523)
    BY <2>3, <1>1 DEF Slower, Nearer, RawOff
  <2>5. At(15, 29, 1342)
    BY <2>4, <1>1 DEF Slower, Nearer, RawOff
  <2> QED BY <2>5
<1>6. At(20, 15, 712)
  <2>1. At(16, 25, 1182)
    BY <1>5, <1>1 DEF Slower, Nearer, RawOff
  <2>2. At(17, 22, 1041)
    BY <2>1, <1>1 DEF Slower, Nearer, RawOff
  <2>3. At(18, 19, 917)
    BY <2>2, <1>1 DEF Slower, Nearer, RawOff
  <2>4. At(19, 17, 808)
    BY <2>3, <1>1 DEF Slower, Nearer, RawOff
  <2>5. At(20, 15, 712)
    BY <2>4, <1>1 DEF Slower, Nearer, RawOff
  <2> QED BY <2>5
<1>7. At(25, 9, 378)
  <2>1. At(21, 13, 628)
    BY <1>6, <1>1 DEF Slower, Nearer, RawOff
  <2>2. At(22, 12, 553)
    BY <2>1, <1>1 DEF Slower, Nearer, RawOff
  <2>3. At(23, 11, 487)
    BY <2>2, <1>1 DEF Slower, Nearer, RawOff
  <2>4. At(24, 10, 429)
    BY <2>3, <1>1 DEF Slower, Nearer, RawOff
  <2>5. At(25, 9, 378)
    BY <2>4, <1>1 DEF Slower, Nearer, RawOff
  <2> QED BY <2>5
<1>8. At(30, 6, 202)
  <2>1. At(26, 8, 333)
    BY <1>7, <1>1 DEF Slower, Nearer, RawOff
  <2>2. At(27, 7, 294)
    BY <2>1, <1>1 DEF Slower, Nearer, RawOff
  <2>3. At(28, 6, 259)
    BY <2>2, <1>1 DEF Slower, Nearer, RawOff
  <2>4. At(29, 6, 229)
    BY <2>3, <1>1 DEF Slower, Nearer, RawOff
  <2>5. At(30, 6, 202)
    BY <2>4, <1>1 DEF Slower, Nearer, RawOff
  <2> QED BY <2>5
<1>9. At(35, 6, 109)
  <2>1. At(31, 6, 178)
    BY <1>8, <1>1 DEF Slower, Nearer, RawOff
  <2>2. At(32, 6, 157)
    BY <2>1, <1>1 DEF Slower, Nearer, RawOff
  <2>3. At(33, 6, 139)
    BY <2>2, <1>1 DEF Slower, Nearer, RawOff
  <2>4. At(34, 6, 123)
    BY <2>3, <1>1 DEF Slower, Nearer, RawOff
  <2>5. At(35, 6, 109)
    BY <2>4, <1>1 DEF Slower, Nearer, RawOff
  <2> QED BY <2>5
<1>10. At(40, 6, 61)
  <2>1. At(36, 6, 97)
    BY <1>9, <1>1 DEF Slower, Nearer, RawOff
  <2>2. At(37, 6, 86)
    BY <2>1, <1>1 DEF Slower, Nearer, RawOff
  <2>3. At(38, 6, 76)
    BY <2>2, <1>1 DEF Slower, Nearer, RawOff
  <2>4. At(39, 6, 68)
    BY <2>3, <1>1 DEF Slower, Nearer, RawOff
  <2>5. At(40, 6, 61)
    BY <2>4, <1>1 DEF Slower, Nearer, RawOff
  <2> QED BY <2>5
<1>11. At(45, 6, 35)
  <2>1. At(41, 6, 54)
    BY <1>10, <1>1 DEF Slower, Nearer, RawOff
  <2>2. At(42, 6, 48)
    BY <2>1, <1>1 DEF Slower, Nearer, RawOff
  <2>3. At(43, 6, 43)
    BY <2>2, <1>1 DEF Slower, Nearer, RawOff
  <2>4. At(44, 6, 39)
    BY <2>3, <1>1 DEF Slower, Nearer, RawOff
  <2>5. At(45, 6, 35)
    BY <2>4, <1>1 DEF Slower, Nearer, RawOff
  <2> QED BY <2>5
<1>12. At(50, 6, 22)
  <2>1. At(46, 6, 32)
    BY <1>11, <1>1 DEF Slower, Nearer, RawOff
  <2>2. At(47, 6, 29)
    BY <2>1, <1>1 DEF Slower, Nearer, RawOff
  <2>3. At(48, 6, 26)
    BY <2>2, <1>1 DEF Slower, Nearer, RawOff
  <2>4. At(49, 6, 24)
    BY <2>3, <1>1 DEF Slower, Nearer, RawOff
  <2>5. At(50, 6, 22)
    BY <2>4, <1>1 DEF Slower, Nearer, RawOff
  <2> QED BY <2>5
<1>13. At(55, 6, 15)
  <2>1. At(51, 6, 20)
    BY <1>12, <1>1 DEF Slower, Nearer, RawOff
  <2>2. At(52, 6, 18)
    BY <2>1, <1>1 DEF Slower, Nearer, RawOff
  <2>3. At(53, 6, 17)
    BY <2>2, <1>1 DEF Slower, Nearer, RawOff
  <2>4. At(54, 6, 16)
    BY <2>3, <1>1 DEF Slower, Nearer, RawOff
  <2>5. At(55, 6, 15)
    BY <2>4, <1>1 DEF Slower, Nearer, RawOff
  <2> QED BY <2>5
<1>14. At(60, 6, 10)
  <2>1. At(56, 6, 14)
    BY <1>13, <1>1 DEF Slower, Nearer, RawOff
  <2>2. At(57, 6, 13)
    BY <2>1, <1>1 DEF Slower, Nearer, RawOff
  <2>3. At(58, 6, 12)
    BY <2>2, <1>1 DEF Slower, Nearer, RawOff
  <2>4. At(59, 6, 11)
    BY <2>3, <1>1 DEF Slower, Nearer, RawOff
  <2>5. At(60, 6, 10)
    BY <2>4, <1>1 DEF Slower, Nearer, RawOff
  <2> QED BY <2>5
<1> QED BY <1>3, <1>4, <1>6, <1>8, <1>10, <1>14

\* the bound of the last steering falls no faster than the slew limit lets it
LEMMA LastOffFalls ==
  /\ LastOff(0) = 9150
  /\ \A n \in 1 .. MaxPeriods :
       /\ LastOff(n - 1) - 200 <= LastOff(n)
       /\ 150 + FilteredOff[n] <= LastOff(n)
  /\ LastOff(MaxPeriods) <= 160
<1>1. MaxPeriods \in Nat /\ MaxPeriods >= 60
  BY Periods
<1>2. \A n \in 0 .. MaxPeriods : FilteredOff[n] \in Nat
  BY OffNumbers
<1>3. ASSUME NEW m \in Nat, m <= 60, NEW n \in 0 .. MaxPeriods, m <= n
      PROVE  FilteredOff[n] <= FilteredOff[m] /\ FilteredOff[n] \in Nat /\ FilteredOff[m] \in Nat
  <2>1. m \in 0 .. MaxPeriods
    BY <1>1, <1>3
  <2> QED BY <1>2, <1>3, <2>1, OffFalls
<1>4. ASSUME NEW n \in 0 .. MaxPeriods, n <= 44
      PROVE  FilteredOff[n] <= 9000 - 200 * n
  <2> DEFINE f == FilteredOff[n]
  <2>1. f \in Nat
    BY <1>2
  <2>2. n \in Nat /\ n <= 44
    BY <1>1, <1>4
  <2>3. CASE n = 0
    BY <2>3, FilteredDecays
  <2>4. CASE 1 <= n /\ n <= 5
    <3>1. f <= FilteredOff[1] /\ FilteredOff[1] \in Nat
      BY <1>3, <2>4
    <3> HIDE DEF f
    <3>2. f <= 8000
      BY <2>1, <3>1, Settling
    <3> QED BY <2>1, <2>2, <2>4, <3>2 DEF f
  <2>5. CASE 6 <= n /\ n <= 10
    <3>1. f <= FilteredOff[5] /\ FilteredOff[5] \in Nat
      BY <1>3, <2>5
    <3> HIDE DEF f
    <3>2. f <= 6000
      BY <2>1, <3>1, Settling
    <3> QED BY <2>1, <2>2, <2>5, <3>2 DEF f
  <2>6. CASE 11 <= n /\ n <= 30
    <3>1. f <= FilteredOff[10] /\ FilteredOff[10] \in Nat
      BY <1>3, <2>6
    <3> HIDE DEF f
    <3>2. f <= 3000
      BY <2>1, <3>1, Settling
    <3> QED BY <2>1, <2>2, <2>6, <3>2 DEF f
  <2>7. CASE 31 <= n /\ n <= 40
    <3>1. f <= FilteredOff[20] /\ FilteredOff[20] \in Nat
      BY <1>3, <2>7
    <3> HIDE DEF f
    <3>2. f <= 1000
      BY <2>1, <3>1, Settling
    <3> QED BY <2>1, <2>2, <2>7, <3>2 DEF f
  <2>8. CASE 41 <= n /\ n <= 44
    <3>1. f <= FilteredOff[40] /\ FilteredOff[40] \in Nat
      BY <1>3, <2>8
    <3> HIDE DEF f
    <3>2. f <= 200
      BY <2>1, <3>1, Settling
    <3> QED BY <2>1, <2>2, <2>8, <3>2 DEF f
  <2> QED BY <2>2, <2>3, <2>4, <2>5, <2>6, <2>7, <2>8
<1>5. ASSUME NEW n \in 0 .. MaxPeriods, 44 <= n
      PROVE  FilteredOff[n] <= 200
  <2>1. FilteredOff[n] <= FilteredOff[40] /\ FilteredOff[40] \in Nat /\ FilteredOff[n] \in Nat
    BY <1>1, <1>3, <1>5
  <2> QED BY <2>1, Settling
<1>6. ASSUME NEW n \in 1 .. MaxPeriods
      PROVE  LastOff(n - 1) - 200 <= LastOff(n) /\ 150 + FilteredOff[n] <= LastOff(n)
  <2> DEFINE e == FilteredOff[n - 1]  f == FilteredOff[n]
  <2>1. n \in 0 .. MaxPeriods /\ n - 1 \in 0 .. MaxPeriods /\ n \in Nat
    BY <1>1
  <2>2. e \in Nat /\ f \in Nat
    BY <1>2, <2>1
  <2>3. n <= 44 => f <= 9000 - 200 * n
    BY <1>4, <2>1
  <2>4. 44 <= n - 1 => e <= 200
    BY <1>5, <2>1
  <2> HIDE DEF e, f
  <2>5. LastOff(n) = IF n <= 44 THEN 9150 - 200 * n ELSE 150 + f
    BY DEF LastOff, Widest, Limit, f
  <2>6. LastOff(n - 1) = IF n - 1 <= 44 THEN 9150 - 200 * (n - 1) ELSE 150 + e
    BY DEF LastOff, Widest, Limit, e
  <2>7. LastOff(n - 1) - 200 <= LastOff(n) /\ 150 + f <= LastOff(n)
    BY <2>1, <2>2, <2>3, <2>4, <2>5, <2>6
  <2> QED BY <2>7 DEF f
<1>7. LastOff(0) = 9150
  BY DEF LastOff, Widest, Limit
<1>8. LastOff(MaxPeriods) <= 160
  <2>1. FilteredOff[MaxPeriods] <= FilteredOff[60] /\ FilteredOff[60] \in Nat
        /\ FilteredOff[MaxPeriods] \in Nat
    BY <1>1, <1>3
  <2>2. LastOff(MaxPeriods) = 150 + FilteredOff[MaxPeriods]
    BY <1>1 DEF LastOff
  <2> QED BY <2>1, <2>2, Settling
<1> QED BY <1>6, <1>7, <1>8

\* and is one of the natural numbers
LEMMA LastOffNumber == \A n \in 0 .. MaxPeriods : LastOff(n) \in Nat
<1> SUFFICES ASSUME NEW n \in 0 .. MaxPeriods PROVE LastOff(n) \in Nat
  OBVIOUS
<1>1. n \in Nat /\ FilteredOff[n] \in Nat
  BY Periods, OffNumbers
<1>2. LastOff(n) = IF n <= 44 THEN 9150 - 200 * n ELSE 150 + FilteredOff[n]
  BY DEF LastOff, Widest, Limit
<1> DEFINE f == FilteredOff[n]
<1> HIDE DEF f
<1> QED BY <1>1, <1>2 DEF f

\* v is an integer of at most that size; v is that far from the goal
Bounded(v, limit) == v \in Int /\ -limit <= v /\ v <= limit
OffBy(v, goal, off) == v - goal <= off /\ goal - v <= off

\* the rate of a torpedo that stays where it is
LEMMA RateStep ==
  ASSUME NEW rate, NEW off \in Nat, Bounded(rate, off)
  PROVE  Bounded(Rate(rate, 0, 10), Slower(off))
<1>0. rate \in Int /\ -off <= rate /\ rate <= off
  BY DEF Bounded
<1>1. (0 * 1000) \div 10 = 0
  OBVIOUS
<1>2. Rate(rate, 0, 10) = (85 * rate) \div 100
  BY <1>0, <1>1 DEF Rate
<1>3. (85 * rate) \div 100 \in Int /\ (85 * rate) \div 100 <= (85 * off + 99) \div 100
  BY <1>0
<1>4. -((85 * off + 99) \div 100) <= (85 * rate) \div 100
  BY <1>0
<1> QED BY <1>2, <1>3, <1>4 DEF Slower, Bounded

\* the raw steering is off by what the rate turns it
LEMMA RawStep ==
  ASSUME NEW error \in Int, NEW yaw \in Int, NEW rate, NEW off \in Nat, Bounded(rate, off)
  PROVE  /\ Bounded(SteerRaw(error, rate, yaw), Limit * 100)
         /\ OffBy(SteerRaw(error, rate, yaw), SteerRaw(error, 0, yaw), RawOff(off))
<1>0. rate \in Int /\ -off <= rate /\ rate <= off
  BY DEF Bounded
<1>1. YawTerm(yaw) \in Int
  <2>1. YawError(yaw) \in Int
    BY DEF YawError
  <2>2. YawError(yaw) \div 2 \in Int
    BY <2>1
  <2> QED BY <2>2 DEF YawTerm, Clamp, MinOf, MaxOf
<1> DEFINE y == YawTerm(yaw)  p == (error * 65) \div 10  d == rate \div 4
<1>2. p \in Int /\ d \in Int /\ y \in Int /\ 0 \div 4 = 0
  BY <1>0, <1>1
<1>3. RawOff(off) \in Nat /\ d <= RawOff(off) /\ -d <= RawOff(off)
  BY <1>0 DEF RawOff
<1>4. SteerRaw(error, rate, yaw) = Clamp(-4500, 4500, p - d + y)
  BY DEF SteerRaw, Limit
<1>5. SteerRaw(error, 0, yaw) = Clamp(-4500, 4500, p + y)
  <2>1. p - 0 + y = p + y
    BY <1>2
  <2> QED BY <1>2, <2>1 DEF SteerRaw, Limit
<1> HIDE DEF y, p, d
<1> DEFINE r == RawOff(off)
<1>6. r \in Nat /\ d <= r /\ -d <= r
  BY <1>3
<1> HIDE DEF r
<1> DEFINE goal == Clamp(-4500, 4500, p + y)  raw == Clamp(-4500, 4500, p - d + y)
<1>7. /\ goal \in Int /\ -4500 <= goal /\ goal <= 4500
      /\ raw \in Int /\ -4500 <= raw /\ raw <= 4500
      /\ raw - goal <= r /\ goal - raw <= r
  BY <1>2, <1>6 DEF Clamp, MinOf, MaxOf
<1> HIDE DEF goal, raw
<1>8. SteerRaw(error, 0, yaw) = goal /\ SteerRaw(error, rate, yaw) = raw
  BY <1>4, <1>5 DEF goal, raw
<1> QED BY <1>6, <1>7, <1>8 DEF r, Bounded, OffBy, Limit

\* the filtered steering comes nearer to the goal, with every of its filters
LEMMA FilterStep ==
  ASSUME NEW error \in Int, NEW filtered, NEW raw, NEW goal \in Int,
         NEW e \in Nat, NEW rate \in Nat, RawOff(rate) <= e,
         Bounded(filtered, Limit * 100), Bounded(raw, Limit * 100),
         OffBy(raw, goal, RawOff(rate)), OffBy(filtered, goal, e)
  PROVE  /\ Bounded(Filtered(filtered, raw, error), Limit * 100)
         /\ OffBy(Filtered(filtered, raw, error), goal, Nearer(e, rate))
<1> DEFINE r == RawOff(rate)
<1>0. /\ filtered \in Int /\ -4500 <= filtered /\ filtered <= 4500
      /\ raw \in Int /\ -4500 <= raw /\ raw <= 4500
      /\ r \in Nat /\ r <= e /\ raw - goal <= r /\ goal - raw <= r
      /\ filtered - goal <= e /\ goal - filtered <= e
  <2>1. RawOff(rate) \in Nat
    BY DEF RawOff
  <2> HIDE DEF r
  <2> QED BY <2>1 DEF Bounded, OffBy, Limit, r
<1>1. Alpha(error) \in {30, 20, 12}
  BY DEF Alpha
<1> HIDE DEF r
<1> DEFINE near == (88 * e + 12 * r + 99) \div 100
           Good(n) == /\ n \in Int /\ -4500 <= n /\ n <= 4500
                      /\ near \in Nat /\ n - goal <= near /\ goal - n <= near
<1>2. Good((70 * filtered + 30 * raw) \div 100)
  BY <1>0
<1>3. Good((80 * filtered + 20 * raw) \div 100)
  BY <1>0
<1>4. Good((88 * filtered + 12 * raw) \div 100)
  BY <1>0
<1>5. Good(Filtered(filtered, raw, error))
  <2> HIDE DEF Good
  <2>1. CASE Alpha(error) = 30
    BY <1>2, <2>1 DEF Filtered
  <2>2. CASE Alpha(error) = 20
    BY <1>3, <2>2 DEF Filtered
  <2>3. CASE Alpha(error) = 12
    BY <1>4, <2>3 DEF Filtered
  <2> QED BY <1>1, <2>1, <2>2, <2>3
<1> QED BY <1>5 DEF Nearer, r, Bounded, OffBy, Limit

\* and what is sent follows it, two degrees in a period at least, to the dead zone
LEMMA SentStep ==
  ASSUME NEW error \in Int, NEW last, NEW filtered, NEW goal \in Int,
         NEW e \in Nat, NEW v \in Nat, NEW w \in Nat, v - 200 <= w, 150 + e <= w,
         Bounded(last, Limit), Bounded(filtered, Limit * 100),
         OffBy(filtered, goal, e), OffBy(100 * last, goal, v)
  PROVE  /\ Bounded(Steer(Rounded(filtered), last, error), Limit)
         /\ OffBy(100 * Steer(Rounded(filtered), last, error), goal, w)
<1>0. /\ last \in Int /\ -45 <= last /\ last <= 45
      /\ filtered \in Int /\ -4500 <= filtered /\ filtered <= 4500
      /\ filtered - goal <= e /\ goal - filtered <= e
      /\ 100 * last - goal <= v /\ goal - 100 * last <= v
  BY DEF Bounded, OffBy, Limit
<1> DEFINE steer == Rounded(filtered)  slew == DynamicSlew(error)
<1>1. /\ steer \in Int /\ -45 <= steer /\ steer <= 45
      /\ 100 * steer - filtered <= 50 /\ filtered - 100 * steer <= 50
  BY <1>0 DEF Rounded
<1>2. slew \in Int /\ 2 <= slew
  <2> DEFINE m == MinOf(600, Distance(error, 0))
  <2>1. m \in Nat
    BY DEF MinOf, Distance
  <2> HIDE DEF m
  <2>2. (m * 12) \div 10 \in Nat
    BY <2>1
  <2> DEFINE q == (m * 12) \div 10
  <2>3. slew = (250 + q) \div 100
    BY DEF DynamicSlew, m
  <2> HIDE DEF q
  <2>4. q \in Nat
    BY <2>2 DEF q
  <2> QED BY <2>3, <2>4
<1> HIDE DEF steer, slew
<1>3. Steer(steer, last, error) =
        IF Distance(steer, last) < 2 THEN last
        ELSE Clamp(-45, 45, last + Clamp(-slew, slew, steer - last))
  BY DEF Steer, Quiet, DeadZone, Limit, slew
<1> DEFINE next == Steer(steer, last, error)
<1>4. \/ next = last /\ last - steer <= 1 /\ steer - last <= 1
      \/ next = steer
      \/ next = last + slew /\ last + slew < steer
      \/ next = last - slew /\ last - slew > steer
  BY <1>0, <1>1, <1>2, <1>3 DEF Distance, Clamp, MinOf, MaxOf
<1> HIDE DEF next
<1>5. /\ next \in Int /\ -45 <= next /\ next <= 45
      /\ 100 * next - goal <= w /\ goal - 100 * next <= w
  BY <1>0, <1>1, <1>2, <1>4
<1> QED BY <1>5 DEF next, steer, Bounded, OffBy, Limit

\* what the states of the steering law are n periods after it was given a steady error
Steadying(control, error, yaw, n) ==
  LET goal == SteerRaw(error, 0, yaw)
  IN /\ Bounded(control.rate, RateOff[n])
     /\ Bounded(control.filtered, Limit * 100)
     /\ Bounded(control.last, Limit)
     /\ OffBy(control.filtered, goal, FilteredOff[n])
     /\ OffBy(100 * control.last, goal, LastOff(n))

SteeringInv ==
  case.of = "steer" =>
    /\ Has({"of", "error", "yaw", "control", "periods"})
    /\ case.error \in Int /\ case.yaw \in Int /\ case.periods \in 0 .. MaxPeriods
    /\ Steadying(case.control, case.error, case.yaw, case.periods)

\* in whatever state it was left
LEMMA InitSteering == Init => SteeringInv
<1> SUFFICES ASSUME Init, case.of = "steer" PROVE SteeringInv
  BY DEF SteeringInv
<1>1. case \in SteeringCases
  BY DEF Init, Turning, Watching
<1>2. /\ Has({"of", "error", "yaw", "control", "periods"})
      /\ case.error \in Errors /\ case.yaw \in Yaws /\ case.control \in Controls
      /\ case.periods = 0
  BY <1>1 DEF SteeringCases, Has
<1>3. case.error \in Int /\ case.yaw \in Int
  BY <1>2, AlgorithmsAssumption DEF AlgorithmsAssumption
<1> DEFINE control == case.control  goal == SteerRaw(case.error, 0, case.yaw)
<1>4. /\ control.rate \in -FastestRate .. FastestRate
      /\ control.filtered \in -Limit * 100 .. Limit * 100
      /\ control.last \in -Limit .. Limit
  <2> DEFINE rates == -FastestRate .. FastestRate  filters == -Limit * 100 .. Limit * 100
             lasts == -Limit .. Limit
  <2>1. Controls \subseteq [rate : rates, filtered : filters, last : lasts]
    BY AlgorithmsAssumption, Zenon DEF AlgorithmsAssumption
  <2> HIDE DEF rates, filters, lasts
  <2>2. control \in [rate : rates, filtered : filters, last : lasts]
    BY <1>2, <2>1
  <2>3. control.rate \in rates /\ control.filtered \in filters /\ control.last \in lasts
    BY <2>2
  <2> QED BY <2>3 DEF rates, filters, lasts
<1>5. /\ Bounded(control.rate, FastestRate)
      /\ Bounded(control.filtered, Limit * 100)
      /\ Bounded(control.last, Limit)
  <2>1. \A l \in Int : \A v \in -l .. l : Bounded(v, l)
    BY DEF Bounded
  <2>2. FastestRate \in Int /\ Limit \in Int /\ Limit * 100 \in Int /\ -Limit * 100 = -(Limit * 100)
    BY DEF FastestRate, Limit
  <2> HIDE DEF control
  <2> QED BY <1>4, <2>1, <2>2
<1>6. Bounded(goal, Limit * 100)
  <2>1. Bounded(0, 0) /\ 0 \in Nat
    BY DEF Bounded
  <2> QED BY <1>3, <2>1, RawStep
<1>7. RateOff[0] = FastestRate /\ FilteredOff[0] = 9000 /\ LastOff(0) = 9150
  BY RateDecays, FilteredDecays, LastOffFalls DEF FastestRate
<1>8. Steadying(control, case.error, case.yaw, 0)
  <2> DEFINE f == control.filtered  l == control.last
  <2> HIDE DEF goal, f, l
  <2>1. OffBy(f, goal, 9000) /\ OffBy(100 * l, goal, 9150)
    BY <1>5, <1>6 DEF OffBy, Bounded, Limit, f, l
  <2> HIDE DEF control
  <2> QED BY <1>5, <1>7, <2>1 DEF Steadying, goal, f, l
<1>9. 0 \in 0 .. MaxPeriods
  BY Periods
<1> QED BY <1>2, <1>3, <1>8, <1>9 DEF SteeringInv

\* a period with a steady error, in terms of the bounds
LEMMA PeriodStep ==
  ASSUME NEW control, NEW error \in Int, NEW yaw \in Int, NEW n \in 1 .. MaxPeriods,
         Steadying(control, error, yaw, n - 1)
  PROVE  Steadying(Compute(control, error, 0, 10, yaw), error, yaw, n)
<1> DEFINE e == FilteredOff[n - 1]  v == LastOff(n - 1)  w == LastOff(n)
           goal == SteerRaw(error, 0, yaw)
           rate == Rate(control.rate, 0, 10)
           raw == SteerRaw(error, rate, yaw)
           filtered == Filtered(control.filtered, raw, error)
           last == Steer(Rounded(filtered), control.last, error)
<1>1. n - 1 \in 0 .. MaxPeriods /\ n \in 0 .. MaxPeriods
  BY Periods
<1>2. RateOff[n - 1] \in Nat /\ RateOff[n] \in Nat /\ e \in Nat /\ FilteredOff[n] \in Nat
  BY <1>1, OffNumbers
<1>3. /\ RateOff[n] = Slower(RateOff[n - 1]) /\ FilteredOff[n] = Nearer(e, RateOff[n])
      /\ RawOff(RateOff[n]) <= e
  BY RateDecays, FilteredDecays, FilteredOver
<1>4. v - 200 <= w /\ 150 + FilteredOff[n] <= w
  BY LastOffFalls
<1>5. v \in Nat /\ w \in Nat
  BY <1>1, LastOffNumber
<1>6. /\ Bounded(control.rate, RateOff[n - 1])
      /\ Bounded(control.filtered, Limit * 100) /\ OffBy(control.filtered, goal, e)
      /\ Bounded(control.last, Limit) /\ OffBy(100 * control.last, goal, v)
  BY DEF Steadying
<1> HIDE DEF e, v, w
<1>7. Bounded(rate, RateOff[n])
  BY <1>2, <1>3, <1>6, RateStep, Zenon
<1> HIDE DEF rate
<1>8. /\ goal \in Int
      /\ Bounded(raw, Limit * 100)
      /\ OffBy(raw, goal, RawOff(RateOff[n]))
  <2>1. Bounded(raw, Limit * 100) /\ OffBy(raw, goal, RawOff(RateOff[n]))
    BY <1>2, <1>7, RawStep, Zenon
  <2>2. Bounded(0, 0) /\ 0 \in Nat
    BY DEF Bounded
  <2>3. Bounded(goal, Limit * 100)
    BY <2>2, RawStep, Zenon
  <2> QED BY <2>1, <2>3 DEF Bounded
<1> HIDE DEF goal, raw
<1>9. Bounded(filtered, Limit * 100) /\ OffBy(filtered, goal, FilteredOff[n])
  BY <1>2, <1>3, <1>6, <1>8, FilterStep, Zenon
<1> HIDE DEF filtered
<1>10. Bounded(last, Limit) /\ OffBy(100 * last, goal, w)
  BY <1>2, <1>4, <1>5, <1>6, <1>8, <1>9, SentStep, Zenon
<1> HIDE DEF last
<1>11. Compute(control, error, 0, 10, yaw) = [rate |-> rate, filtered |-> filtered, last |-> last]
  BY DEF Compute, rate, raw, filtered, last
<1> DEFINE next == Compute(control, error, 0, 10, yaw)
<1>12. next.rate = rate /\ next.filtered = filtered /\ next.last = last
  BY <1>11
<1> HIDE DEF next
<1>13. Steadying(next, error, yaw, n)
  BY <1>7, <1>9, <1>10, <1>12 DEF Steadying, w, goal
<1> QED BY <1>13 DEF next

\* every step keeps the bounds
LEMMA StepSteering == IInv /\ SteeringInv /\ [Next]_case => SteeringInv'
<1> SUFFICES ASSUME IInv, SteeringInv, [Next]_case PROVE SteeringInv'
  OBVIOUS
<1>1. Has({"of"})
  BY DEF IInv
<1>2. ASSUME NEW advance, NextCapsule(advance) PROVE SteeringInv'
  <2>1. case'.of = "turn"
    BY <1>1, <1>2 DEF NextCapsule, Has
  <2> QED BY <2>1 DEF SteeringInv
<1>3. ASSUME NEW scan, CalibrateScan(scan) PROVE SteeringInv'
  <2>1. case'.of = "watch"
    BY <1>1, <1>3 DEF CalibrateScan, Calibrated, Has
  <2> QED BY <2>1 DEF SteeringInv
<1>4. ASSUME NEW visit, Watch(visit) PROVE SteeringInv'
  <2>1. case'.of = "watch"
    BY <1>1, <1>4 DEF Watch, Watched, Has
  <2> QED BY <2>1 DEF SteeringInv
<1>5. ASSUME SteerPeriod PROVE SteeringInv'
  <2> DEFINE n == case.periods + 1
  <2>1. /\ case.of = "steer" /\ case.periods < MaxPeriods
        /\ Has({"of", "error", "yaw", "control", "periods"})
        /\ case.error \in Int /\ case.yaw \in Int /\ case.periods \in 0 .. MaxPeriods
        /\ Steadying(case.control, case.error, case.yaw, case.periods)
    BY <1>5 DEF SteeringInv, SteerPeriod
  <2>2. n \in 1 .. MaxPeriods /\ n \in 0 .. MaxPeriods /\ n - 1 = case.periods
    BY <2>1, Periods
  <2>3. /\ case'.of = "steer" /\ DOMAIN case' = DOMAIN case
        /\ case'.error = case.error /\ case'.yaw = case.yaw /\ case'.periods = n
        /\ case'.control = Compute(case.control, case.error, 0, 10, case.yaw)
    BY <1>5, <2>1 DEF SteerPeriod, Has
  <2> HIDE DEF n
  <2>4. Steadying(Compute(case.control, case.error, 0, 10, case.yaw), case.error, case.yaw, n)
    BY <2>1, <2>2, PeriodStep
  <2>5. Has({"of", "error", "yaw", "control", "periods"})'
    BY <2>1, <2>3 DEF Has
  <2>6. Steadying(case'.control, case'.error, case'.yaw, case'.periods)
    BY <2>3, <2>4
  <2> HIDE DEF Steadying
  <2> QED BY <2>1, <2>2, <2>3, <2>5, <2>6 DEF SteeringInv
<1>6. CASE UNCHANGED case
  BY <1>6 DEF SteeringInv, Has, Steadying
<1> QED BY <1>2, <1>3, <1>4, <1>5, <1>6 DEF Next

(***************************************************************************)
(* With any steady error and yaw, in whatever state the law was left: the  *)
(* steering stays within 45 degrees and is, MaxPeriods periods later, what *)
(* the law asks for but for the dead zone and the rounding                 *)
(* (LatencyAwareCtrl.h:83-97).                                             *)
(***************************************************************************)
THEOREM SteeringSettled == Spec => []SteeringSettles
<1>1. SteeringInv => SteeringSettles
  <2> SUFFICES ASSUME SteeringInv, case.of = "steer" PROVE SteeringSettles
    BY DEF SteeringSettles
  <2> DEFINE last == case.control.last  goal == SteerRaw(case.error, 0, case.yaw)
             n == case.periods
  <2>1. /\ case.error \in Int /\ case.yaw \in Int
        /\ last \in Int /\ -45 <= last /\ last <= 45
        /\ 100 * last - goal <= LastOff(n) /\ goal - 100 * last <= LastOff(n)
    BY DEF SteeringInv, Steadying, Bounded, OffBy, Limit
  <2>2. goal \in Int
    <3>1. Bounded(0, 0) /\ 0 \in Nat
      BY DEF Bounded
    <3>2. Bounded(goal, Limit * 100)
      BY <2>1, <3>1, RawStep, Zenon
    <3> QED BY <3>2 DEF Bounded
  <2>3. n = MaxPeriods => LastOff(n) <= 160
    BY LastOffFalls
  <2>4. n = MaxPeriods => 100 * last - goal <= 160 /\ goal - 100 * last <= 160
    <3> SUFFICES ASSUME n = MaxPeriods
                 PROVE  100 * last - goal <= 160 /\ goal - 100 * last <= 160
      OBVIOUS
    <3>1. LastOff(n) \in Nat
      BY LastOffNumber, Periods
    <3> DEFINE w == LastOff(n)
    <3>2. w \in Int /\ w <= 160 /\ 100 * last - goal <= w /\ goal - 100 * last <= w
      BY <2>1, <2>3, <3>1
    <3> HIDE DEF w, last, goal, n
    <3> QED BY <2>1, <2>2, <3>2
  <2> HIDE DEF last, goal, n
  <2>5. last \in -Limit .. Limit
    BY <2>1 DEF Limit
  <2>6. n = MaxPeriods => Distance(100 * last, goal) <= 160
    BY <2>1, <2>2, <2>4 DEF Distance
  <2> QED BY <2>5, <2>6 DEF SteeringSettles, last, goal, n
<1>2. IInv /\ SteeringInv /\ [Next]_case => SteeringInv'
  BY StepSteering
<1>3. Spec => []SteeringInv
  BY <1>2, InitSteering, Invariant, PTL DEF Spec
<1> QED BY <1>1, <1>3, PTL
=============================================================================
