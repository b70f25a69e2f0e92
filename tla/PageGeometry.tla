---------------------------- MODULE PageGeometry ----------------------------
(* The geometry of a page: the detector plugin's post-processing, the        *)
(* Region it builds, the reading order of a page, the crop the recognizer     *)
(* gets and the size it is read at.  Pure operators.                          *)
(*   packages/scanlation-comic-text-and-bubble-detector/.../postprocess.py    *)
(*   packages/scanlation-sdk/scanlation_sdk/contracts.py, local_engine.py     *)
(*   packages/scanlation-server/app/geometry.py, pipeline.py                  *)
(* Detector coordinates are integers in units of 1/Sub pixel; a bbox and a    *)
(* crop are in whole pixels.  Thresholds are percentages.                     *)
EXTENDS StableLists, SequencesExt

CONSTANTS Sub, ImageW, ImageH,
          KeepLabels,              \* ComicTextAndBubbleDetector.KEEP_LABELS
          NmsIou, ContainThresh, MinArea, MinSide,
          MinCrop,                 \* _MIN_CROP_SIZE
          MaxPixels                \* the recognizer's max_pixels option

ASSUME GeometryAssumption ==
  /\ {Sub, ImageW, ImageH, MinCrop} \subseteq Nat \ {0}
  /\ {NmsIou, ContainThresh, MinArea, MinSide, MaxPixels} \subseteq Nat

Least(a, b) == IF a <= b THEN a ELSE b
Greatest(a, b) == IF a >= b THEN a ELSE b
Gap(a, b) == IF a <= b THEN b - a ELSE a - b
CeilDiv(a, b) == -((-a) \div b)

----------------------------------------------------------------------------
(* Post-processing of raw detections [x0, y0, x1, y1, label, score].          *)
Area(d) == (d.x1 - d.x0) * (d.y1 - d.y0)
Shared(a, b) ==
  LET w == Least(a.x1, b.x1) - Greatest(a.x0, b.x0)
      h == Least(a.y1, b.y1) - Greatest(a.y0, b.y0)
  IN IF w > 0 /\ h > 0 THEN w * h ELSE 0
Reaches(part, whole, percent) == 100 * part >= percent * whole /\ (whole > 0 \/ percent = 0)
Iou(a, b, percent) == Reaches(Shared(a, b), Area(a) + Area(b) - Shared(a, b), percent)
Ios(a, b, percent) == Reaches(Shared(a, b), Least(Area(a), Area(b)), percent)

IsText(d) == d.label \in KeepLabels
IsLargeEnough(d) ==
  /\ MinArea = 0 \/ Area(d) >= MinArea * Sub * Sub
  /\ MinSide = 0 \/ Least(d.x1 - d.x0, d.y1 - d.y0) >= MinSide * Sub
Duplicates(a, b) == Iou(a, b, NmsIou) \/ Ios(a, b, ContainThresh)

\* Greedy, the highest score first: a detection is kept that duplicates none
\* of those kept before it.
Kept(s) ==
  CHOOSE kept \in SUBSET DOMAIN s :
    \A i \in DOMAIN s : i \in kept <=> \A j \in kept : j < i => ~Duplicates(s[i], s[j])
Dedup(dets) ==
  LET s == StableSort(dets, LAMBDA a, b : a.score > b.score) IN Pick(s, Kept(s))

\* A plausible slip: the size floor applied to what dedup left.
PostprocessDedupFirst(dets) ==
  Where(Dedup(Where(dets, IsText)), IsLargeEnough)
Postprocess(dets) == Dedup(Where(Where(dets, IsText), IsLargeEnough))

----------------------------------------------------------------------------
(* A Region: a quad of four <<x, y>> points, its bbox <<l, t, r, b>>.         *)
Xs(quad) == {quad[i][1] : i \in 1 .. 4}
Ys(quad) == {quad[i][2] : i \in 1 .. 4}
BboxFromPoly(quad) == << Min(Xs(quad)) \div Sub, Min(Ys(quad)) \div Sub,
                         CeilDiv(Max(Xs(quad)), Sub), CeilDiv(Max(Ys(quad)), Sub) >>
FromQuad(quad) == [quad |-> quad, bbox |-> BboxFromPoly(quad)]
FromBbox(d) == FromQuad(<< <<d.x0, d.y0>>, <<d.x1, d.y0>>, <<d.x1, d.y1>>, <<d.x0, d.y1>> >>)
ToRegions(dets) == [i \in DOMAIN dets |-> FromBbox(dets[i])]

----------------------------------------------------------------------------
(* Reading order.  Twice the centre, so that halves stay integers.            *)
BoxWidth(r) == r.bbox[3] - r.bbox[1]
BoxHeight(r) == r.bbox[4] - r.bbox[2]
MidX2(r) == r.bbox[1] + r.bbox[3]
MidY2(r) == r.bbox[2] + r.bbox[4]

Band(regions) ==
  LET heights == StableSort([i \in DOMAIN regions |-> BoxHeight(regions[i])],
                            LAMBDA a, b : a < b)
  IN Greatest(1, heights[Len(heights) \div 2 + 1])

\* A plausible slip: banded by the top edge.
RowByTop(r, band) == r.bbox[2] \div band
Row(r, band) == MidY2(r) \div (2 * band)

AssignReadingOrder(regions, rtl) ==
  LET band == Band(regions)
      Before(a, b) == \/ Row(a, band) < Row(b, band)
                      \/ /\ Row(a, band) = Row(b, band)
                         /\ IF rtl THEN MidX2(a) > MidX2(b) ELSE MidX2(a) < MidX2(b)
  IN IF regions = <<>> THEN regions ELSE StableSort(regions, Before)

----------------------------------------------------------------------------
(* Deskew: the size of the crop the recognizer gets for a region.             *)
FirstLeast(quad, F(_)) ==
  quad[CHOOSE i \in 1 .. 4 : \A j \in 1 .. 4 :
         F(quad[i]) < F(quad[j]) \/ (F(quad[i]) = F(quad[j]) /\ i <= j)]
OrderQuad(quad) ==
  [tl |-> FirstLeast(quad, LAMBDA p : p[1] + p[2]),
   tr |-> FirstLeast(quad, LAMBDA p : p[2] - p[1]),
   br |-> FirstLeast(quad, LAMBDA p : -(p[1] + p[2])),
   bl |-> FirstLeast(quad, LAMBDA p : p[1] - p[2])]

\* The distance of two points in whole pixels, rounded half to even.
PixelNorm(p, q) ==
  LET n == 4 * ((p[1] - q[1]) * (p[1] - q[1]) + (p[2] - q[2]) * (p[2] - q[2]))
      Edge(r) == (2 * r - 1) * (2 * r - 1) * Sub * Sub
  IN CHOOSE r \in 0 .. (Gap(p[1], q[1]) + Gap(p[2], q[2])) :
       /\ n < Edge(r + 1) \/ (n = Edge(r + 1) /\ r % 2 = 0)
       /\ r = 0 \/ n > Edge(r) \/ (n = Edge(r) /\ r % 2 = 0)
TargetSize(o) == << Greatest(PixelNorm(o.tr, o.tl), PixelNorm(o.br, o.bl)),
                    Greatest(PixelNorm(o.bl, o.tl), PixelNorm(o.br, o.tr)) >>
IsAxisAligned(o) ==
  /\ Gap(o.tl[2], o.tr[2]) <= Sub /\ Gap(o.bl[2], o.br[2]) <= Sub
  /\ Gap(o.tl[1], o.bl[1]) <= Sub /\ Gap(o.tr[1], o.br[1]) <= Sub

CutOut(bbox) == << Least(ImageW, bbox[3]) - Greatest(0, bbox[1]),
                   Least(ImageH, bbox[4]) - Greatest(0, bbox[2]) >>
\* A plausible slip: padded only when both sides are short.
PaddedWhenTiny(w, h) ==
  IF w < MinCrop /\ h < MinCrop THEN << MinCrop, MinCrop >> ELSE << w, h >>
Padded(w, h) == << Greatest(w, MinCrop), Greatest(h, MinCrop) >>

IsDegenerate(r) == LET t == TargetSize(OrderQuad(r.quad)) IN t[1] < 1 \/ t[2] < 1
DeskewCrop(r) ==
  LET o == OrderQuad(r.quad)
      t == TargetSize(o)
      c == CutOut(r.bbox)
  IN IF IsDegenerate(r) THEN << Greatest(t[1], 1), Greatest(t[2], 1) >>
     ELSE IF ~IsAxisAligned(o) THEN Padded(t[1], t[2])
     ELSE IF c[1] < 1 \/ c[2] < 1 THEN << MinCrop, MinCrop >>
     ELSE Padded(c[1], c[2])

(* downscale_to_cap: mode "box" lands on the cap, anything else halves.        *)
Shrunk(w, h) ==
  LET halved[s \in (1 .. w) \X (1 .. h)] ==
        IF s[1] * s[2] <= MaxPixels \/ s[1] < 2 \/ s[2] < 2 THEN s
        ELSE halved[<< CeilDiv(s[1], 2), CeilDiv(s[2], 2) >>]
  IN halved[<< w, h >>]

\* int(a * sqrt(cap / area)), at least 1.
Scaled(a, b) == CHOOSE s \in 1 .. a : /\ s = 1 \/ s * s * b <= MaxPixels * a
                                     /\ (s + 1) * (s + 1) * b > MaxPixels * a

Downscale(size, mode) ==
  LET w == size[1]
      h == size[2]
  IN IF MaxPixels = 0 \/ w * h <= MaxPixels THEN size
     ELSE IF mode = "box" THEN << Scaled(w, h), Scaled(h, w) >>
     ELSE Shrunk(w, h)
=============================================================================
