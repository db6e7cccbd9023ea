--------------------------- MODULE LidarTracking ---------------------------
(***************************************************************************)
(* From a grabbed scan to the torpedo's position: ascendScanData of the    *)
(* driver, then LidarNode's preprocessing, calibration, background removal *)
(* and clustering.                                                         *)
(*                                                                         *)
(* A reading is [angle, dist, quality]: its angle in 1/65536 turn, as      *)
(* angle_z_q14 has it, and its distance in millimetres; dist = 0 is a      *)
(* reading without an echo.  Points are in millimetres.                    *)
(***************************************************************************)
EXTENDS Integers, Sequences, FiniteSets, SequencesExt

CONSTANTS
  Sine, Cosine,    \* of all angles, in thousandths
  MinCluster,      \* min_cluster_size, 3 in the code
  MaxCluster       \* max_cluster_size, 100 in the code

Full == 65536

\* setAngle: the conversion to 16 bits
Stored(angle) == angle % Full

-----------------------------------------------------------------------------
(***************************************************************************)
(* ascendScanData_.  The angles of readings without an echo are made up:   *)
(* before the first echo downwards from it, then all others from the       *)
(* angle of the first reading, one step each.                              *)
(***************************************************************************)
Step(scan) == Full \div Len(scan)

Echoes(scan) == {i \in DOMAIN scan : scan[i].dist # 0}

Least(S) == CHOOSE i \in S : \A j \in S : i <= j
Greatest(S) == CHOOSE i \in S : \A j \in S : j <= i

TuneHead(scan) ==
  LET first == Least(Echoes(scan))
      down(i) == scan[first].angle - (first - i) * Step(scan)
  IN [i \in DOMAIN scan |->
        IF i < first THEN [scan[i] EXCEPT !.angle = IF down(i) < 0 THEN 0 ELSE down(i)]
                     ELSE scan[i]]

TuneTail(scan) ==
  LET last == Greatest(Echoes(scan))
      angle[i \in last .. Len(scan)] ==
        IF i = last THEN scan[last].angle
        ELSE LET up == angle[i - 1] + Step(scan)
             IN Stored(IF up > Full THEN up - Full ELSE up)
  IN [i \in DOMAIN scan |->
        IF i > last THEN [scan[i] EXCEPT !.angle = angle[i]] ELSE scan[i]]

\* mutated: the readings with an echo are evened out, too
FillInvalid_All(scan) ==
  [i \in DOMAIN scan |->
     IF i > 1
     THEN LET up == scan[1].angle + (i - 1) * Step(scan)
          IN [scan[i] EXCEPT !.angle = Stored(IF up > Full THEN up - Full ELSE up)]
     ELSE scan[i]]

FillInvalid(scan) ==
  [i \in DOMAIN scan |->
     IF i > 1 /\ scan[i].dist = 0
     THEN LET up == scan[1].angle + (i - 1) * Step(scan)
          IN [scan[i] EXCEPT !.angle = Stored(IF up > Full THEN up - Full ELSE up)]
     ELSE scan[i]]

AngleLessThan(a, b) == a.angle < b.angle

\* the readings up to the i-th one in the order of the angles; which of two with
\* the same angle comes first std::sort leaves open, here the one that did
UpTo(scan, i) ==
  {j \in DOMAIN scan : \/ AngleLessThan(scan[j], scan[i])
                       \/ ~AngleLessThan(scan[i], scan[j]) /\ j <= i}

Sorted(scan) ==
  LET place == [i \in DOMAIN scan |-> Cardinality(UpTo(scan, i))]
  IN [k \in DOMAIN scan |-> scan[CHOOSE i \in DOMAIN scan : place[i] = k]]

Ascend(scan) ==
  IF Echoes(scan) = {} THEN [ok |-> FALSE, nodes |-> scan]
  ELSE [ok |-> TRUE,
        nodes |-> Sorted(FillInvalid(TuneTail(TuneHead(scan))))]

-----------------------------------------------------------------------------
\* 40 and 320 degrees
Ahead(angle) == angle * 9 <= Full \/ angle * 9 >= 8 * Full

\* those of a sequence at the places given: a push_back under a condition
Those(seq, places) ==
  LET kept[i \in 0 .. Len(seq)] ==
        IF i = 0 THEN <<>>
        ELSE LET before == kept[i - 1]
             IN IF i \in places THEN Append(before, seq[i]) ELSE before
  IN kept[Len(seq)]

\* preprocessData: quality is the reading's, without its two flag bits
PreprocessData(nodes) ==
  Those(nodes, {i \in DOMAIN nodes : nodes[i].quality > 0 /\ Ahead(nodes[i].angle)})

TransformCoordinates(nodes) ==
  [i \in DOMAIN nodes |-> [x |-> (nodes[i].dist * Sine[nodes[i].angle]) \div 1000,
                           y |-> (nodes[i].dist * Cosine[nodes[i].angle]) \div 1000]]

\* std::hypot(p - q) < distance
Within(p, q, distance) ==
  (p.x - q.x) * (p.x - q.x) + (p.y - q.y) * (p.y - q.y) < distance * distance

\* the scan's points, whether ascendScanData succeeded or not
Points(scan) == TransformCoordinates(PreprocessData(Ascend(scan).nodes))

(***************************************************************************)
(* startCalibration: of the points of a scan, those that are not close to  *)
(* one already kept.                                                       *)
(***************************************************************************)
Calibrate(background, points) ==
  LET kept[i \in 0 .. Len(points)] ==
        IF i = 0 THEN background
        ELSE LET before == kept[i - 1]
             IN IF \E b \in before : Within(points[i], b, 50) THEN before
                ELSE before \cup {points[i]}
  IN kept[Len(points)]

\* with an empty background every point is kept
FilterBackground(background, points) ==
  Those(points, {i \in DOMAIN points : \A b \in background : ~Within(points[i], b, 300)})

(***************************************************************************)
(* doClustering: runs of points each close to the one before; those too    *)
(* short and too long are left out.                                        *)
(***************************************************************************)
\* mutated: a point is compared with the first one of its run
Joins_First(run, p) == Within(Head(run), p, 350)

Joins(run, p) == Within(Last(run), p, 350)

Runs(points) ==
  LET runs[i \in 0 .. Len(points)] ==
        IF i = 0 THEN <<>>
        ELSE LET before == runs[i - 1]
             IN IF before # <<>> /\ Joins(Last(before), points[i])
                THEN Append(Front(before), Append(Last(before), points[i]))
                ELSE Append(before, <<points[i]>>)
  IN runs[Len(points)]

DoClustering(points) ==
  LET runs == Runs(points)
  IN Those(runs, {i \in DOMAIN runs : Len(runs[i]) \in MinCluster .. MaxCluster})

(***************************************************************************)
(* processLidarFrame: the grid is made of the whole scan, the torpedo is   *)
(* the centre of the first cluster that is not background.                 *)
(***************************************************************************)
Centre(cluster) ==
  LET sum(coordinate(_)) == FoldLeft(LAMBDA s, p : s + coordinate(p), 0, cluster)
  IN [x |-> sum(LAMBDA p : p.x) \div Len(cluster), y |-> sum(LAMBDA p : p.y) \div Len(cluster)]

\* a point equal to the one before it is left out
GridClusters(points) ==
  LET once(cluster) ==
        FoldLeft(LAMBDA grid, p : IF grid # <<>> /\ Last(grid) = p THEN grid ELSE Append(grid, p),
                 <<>>, cluster)
      clusters == DoClustering(points)
  IN [i \in DOMAIN clusters |-> once(clusters[i])]

ProcessLidarFrame(background, points) ==
  LET control == DoClustering(FilterBackground(background, points))
      found == control # <<>> /\ Len(Head(control)) > 2
  IN [found |-> found,
      grid |-> GridClusters(points),
      car |-> IF found THEN Centre(Head(control)) ELSE [x |-> 0, y |-> 0]]
=============================================================================
