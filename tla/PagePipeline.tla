---------------------------- MODULE PagePipeline ----------------------------
(* One page through the pipeline: detect, reading order, deskew, recognize    *)
(* (crop by crop in the process, or all crops on the worker pool), translate  *)
(* (one batch call with a per-text fallback, or text by text), the wire       *)
(* result and the statistics rows.                                            *)
(*   packages/scanlation-server/app/pipeline.py, orchestrator.py              *)
(*   packages/scanlation-sdk/scanlation_sdk/http_translator.py                *)
(* A text is [of |-> index of its region, len |-> its length], a translation  *)
(* [of |-> the text it translates, len |-> its length]; length 0 is blank.    *)
EXTENDS PageGeometry

CONSTANTS Detections,   \* what the shipped detector's model may output
          Quads,        \* what another detector plugin may return
          MaxDets,      \* bound: detections on a page
          Lengths,      \* bound: lengths of recognized and translated texts
          Requests      \* bound: the combinations of request, plan and engines tried

ASSUME PipelineAssumption ==
  /\ MaxDets \in Nat /\ Lengths \subseteq Nat /\ 0 \in Lengths
  /\ \A d \in Detections : {d.x0, d.y0, d.x1, d.y1, d.score} \subseteq Int
  /\ Quads \subseteq [1 .. 4 -> Int \X Int]
  /\ Requests \subseteq [rtl : BOOLEAN,       \* the source language reads right to left
                         skip : BOOLEAN,      \* skip_translate
                         shipped : BOOLEAN,   \* the shipped detector, or another plugin
                         pool : BOOLEAN,      \* recognize on the worker pool
                         mode : {"box", "pow2"},
                         batch : BOOLEAN,     \* the translator is a BatchTranslator
                         model : BOOLEAN]     \* a model is chosen for it

VARIABLES page,         \* the request
          stage,
          raw,          \* what the detector's model output
          regions,      \* in reading order
          sizes,        \* the size each crop was read at
          texts,        \* recognized so far, one per region
          translated,   \* translations so far, one per non-blank text
          result,       \* the wire items
          rows          \* region_stats rows

vars == << page, stage, raw, regions, sizes, texts, translated, result, rows >>

Init ==
  /\ page \in Requests
  /\ stage = "detect"
  /\ raw = <<>> /\ regions = <<>> /\ sizes = <<>> /\ texts = <<>>
  /\ translated = <<>> /\ result = <<>> /\ rows = <<>>

Fails ==
  /\ stage' = "failed"
  /\ UNCHANGED << page, raw, regions, sizes, texts, translated, result, rows >>

----------------------------------------------------------------------------
(* detect_regions, on the engine or on its pool.                              *)
Detects ==
  /\ stage = "detect"
  /\ \/ /\ page.shipped
        /\ \E dets \in BoundedSeq(Detections, MaxDets) :
             /\ raw' = dets
             /\ regions' = AssignReadingOrder(ToRegions(Postprocess(dets)), page.rtl)
     \/ /\ ~page.shipped
        /\ \E quads \in BoundedSeq(Quads, MaxDets) :
             /\ raw' = quads
             /\ regions' = AssignReadingOrder([i \in DOMAIN quads |-> FromQuad(quads[i])],
                                              page.rtl)
  /\ stage' = "recognize"
  /\ UNCHANGED << page, sizes, texts, translated, result, rows >>

Reading(k, n) == [of |-> k, len |-> n]
ReadAt(k) == Downscale(DeskewCrop(regions[k]), page.mode)

(* _recognize_per_crop: one crop at a time.                                   *)
RecognizesCrop ==
  /\ stage = "recognize" /\ ~page.pool
  /\ Len(texts) < Len(regions)
  /\ LET k == Len(texts) + 1
     IN /\ \E n \in Lengths : texts' = Append(texts, Reading(k, n))
        /\ sizes' = Append(sizes, ReadAt(k))
  /\ UNCHANGED << page, stage, raw, regions, translated, result, rows >>

(* _recognize_via_pool: the pool hands the texts back in the crops' order.    *)
RecognizesOnPool ==
  /\ stage = "recognize" /\ page.pool
  /\ Len(texts) < Len(regions)
  /\ \E lens \in [DOMAIN regions -> Lengths] :
       texts' = [k \in DOMAIN regions |-> Reading(k, lens[k])]
  /\ sizes' = [k \in DOMAIN regions |-> ReadAt(k)]
  /\ UNCHANGED << page, stage, raw, regions, translated, result, rows >>

EngineFails == stage \in {"detect", "recognize"} /\ Fails

Recognized == Where(texts, LAMBDA t : t.len > 0)

(* Statistics rows: each detected region with the length of its translation,  *)
(* taken in turn from the result for the regions whose text is not blank.     *)
\* A plausible slip: the k-th row takes the k-th item.
RegionRowsByPosition(items) ==
  [k \in DOMAIN regions |->
     [w |-> BoxWidth(regions[k]), h |-> BoxHeight(regions[k]), source_len |-> texts[k].len,
      dest_len |-> IF k \in DOMAIN items THEN items[k].destination.len ELSE 0]]
BuildRegionRows(items) ==
  [k \in DOMAIN regions |->
     [w |-> BoxWidth(regions[k]), h |-> BoxHeight(regions[k]), source_len |-> texts[k].len,
      dest_len |-> IF texts[k].len = 0 THEN 0
                   ELSE items[Cardinality({j \in 1 .. k : texts[j].len > 0})].destination.len]]

Item(text, destination) ==
  [bounds |-> regions[text.of].bbox, source |-> text, destination |-> destination]
Untranslated == [of |-> Reading(0, 0), len |-> 0]

Ends(items) ==
  /\ stage' = "done"
  /\ result' = items
  /\ rows' = BuildRegionRows(items)
  /\ UNCHANGED << page, raw, regions, sizes, texts >>

----------------------------------------------------------------------------
AllRead == stage = "recognize" /\ Len(texts) = Len(regions)

(* recognized_to_result: a recognize-only run.                                *)
SkipsTranslation ==
  /\ AllRead /\ page.skip
  /\ Ends([k \in DOMAIN Recognized |-> Item(Recognized[k], Untranslated)])
  /\ UNCHANGED translated

TranslatesNothing ==
  /\ AllRead /\ ~page.skip /\ Recognized = <<>>
  /\ Ends(<<>>) /\ UNCHANGED translated

StartsTranslating ==
  /\ AllRead /\ ~page.skip /\ Recognized # <<>>
  /\ stage' = IF ~page.model THEN "failed" ELSE IF page.batch THEN "batch" ELSE "texts"
  /\ UNCHANGED << page, raw, regions, sizes, texts, translated, result, rows >>

(* The backend's answer to a batch: an object with some of the keys t0..tn.   *)
Answers(n) == UNION {[keys -> Lengths] : keys \in SUBSET (0 .. n)}
\* The text the model renders under key "t<i>" is the i-th one listed.
Rendered(answer, i) ==
  [of |-> IF i < Len(Recognized) THEN Recognized[i + 1] ELSE Reading(0, 0),
   len |-> answer[i]]

\* A plausible slip: any n values, in the order of the object's keys.
AlignedByOrder(answer, n) ==
  LET keys == SetToSortSeq(DOMAIN answer, LAMBDA a, b : a < b)
  IN IF Len(keys) >= n THEN {[i \in 1 .. n |-> Rendered(answer, keys[i])]} ELSE {}

\* The translation an answer gives: none when one of t0..t<n-1> is missing.
Aligned(answer, n) ==
  IF 0 .. (n - 1) \subseteq DOMAIN answer
    THEN {[i \in 1 .. n |-> Rendered(answer, i - 1)]} ELSE {}

(* translate_batch: a complete answer is the translation; any other outcome   *)
(* (a failed call, truncated JSON, a missing key) is the per-text loop.       *)
BatchAnswers ==
  /\ stage = "batch"
  /\ LET n == Len(Recognized)
     IN \E answer \in Answers(n) : translated' \in Aligned(answer, n)
  /\ stage' = "translated"
  /\ UNCHANGED << page, raw, regions, sizes, texts, result, rows >>

BatchFallsBack ==
  /\ stage = "batch"
  /\ stage' = "texts"
  /\ UNCHANGED << page, raw, regions, sizes, texts, translated, result, rows >>

TranslatesText ==
  /\ stage = "texts"
  /\ LET k == Len(translated) + 1
     IN /\ \E n \in Lengths :
             translated' = Append(translated, [of |-> Recognized[k], len |-> n])
        /\ stage' = IF k = Len(Recognized) THEN "translated" ELSE "texts"
  /\ UNCHANGED << page, raw, regions, sizes, texts, result, rows >>

TextFails == stage = "texts" /\ Fails

(* translate_regions zips the recognized pairs with their translations.       *)
Returns ==
  /\ stage = "translated"
  /\ Ends([k \in 1 .. Least(Len(Recognized), Len(translated)) |->
             Item(Recognized[k], translated[k])])
  /\ UNCHANGED translated

Next ==
  \/ EngineFails \/ Detects \/ RecognizesCrop \/ RecognizesOnPool
  \/ SkipsTranslation \/ TranslatesNothing \/ StartsTranslating
  \/ BatchFallsBack \/ BatchAnswers \/ TextFails \/ TranslatesText \/ Returns

Spec == Init /\ [][Next]_vars

----------------------------------------------------------------------------
Texts == {Reading(k, n) : k \in 1 .. MaxDets, n \in Lengths}

(* Every variable has its type: each stage is one of the code's, texts and    *)
(* sizes grow together, and a translation names a text of this page.          *)
PipeTypeOK ==
  /\ page \in Requests
  /\ stage \in {"detect", "recognize", "batch", "texts", "translated", "done", "failed"}
  /\ Len(regions) <= Len(raw) /\ Len(raw) <= MaxDets
  /\ Len(texts) = Len(sizes) /\ Len(texts) <= Len(regions)
  /\ texts \in Seq(Texts)
  /\ translated \in Seq([of : Texts, len : Lengths])
  /\ Len(result) <= Len(regions)
  /\ rows \in Seq([w : Nat, h : Nat, source_len : Lengths, dest_len : Lengths])

(* No text is lost in post-processing: a detection of a kept class, above the *)
(* size floor, becomes a region, or one that scored at least as high, itself  *)
(* kept, overlaps it past a threshold (a speck never suppresses a real box).   *)
RealTextSurvives ==
  stage = "recognize" /\ page.shipped =>
    \A i \in DOMAIN raw : IsText(raw[i]) /\ IsLargeEnough(raw[i]) =>
      \E j \in DOMAIN raw :
        /\ FromBbox(raw[j]) \in ToSet(regions)
        /\ raw[j].score >= raw[i].score
        /\ i = j \/ Duplicates(raw[i], raw[j])

(* Rows top to bottom, across a row in the language's direction: a region     *)
(* whose centre is a band or more above another's is read before it, and of   *)
(* two whose centres are level the one further along is read after.           *)
ReadsInOrder ==
  stage = "recognize" =>
    \A i, j \in DOMAIN regions :
      LET a == regions[i]
          b == regions[j]
      IN /\ MidY2(b) - MidY2(a) >= 2 * Band(regions) => i < j
         /\ MidY2(a) = MidY2(b) /\ MidX2(a) < MidX2(b) =>
              IF page.rtl THEN j < i ELSE i < j

(* What the recognizer reads has at least the minimum sides (the quad of zero *)
(* area excepted) unless it was shrunk, which leaves it a pixel each way, and *)
(* no more pixels than the cap, but for a crop longer than the cap allows.    *)
CropsAreReadable ==
  \A k \in DOMAIN sizes :
    LET crop == DeskewCrop(regions[k])
        size == sizes[k]
    IN /\ ~IsDegenerate(regions[k]) => crop[1] >= MinCrop /\ crop[2] >= MinCrop
       /\ size[1] \in 1 .. crop[1] /\ size[2] \in 1 .. crop[2]
       /\ MaxPixels > 0 /\ crop[1] <= MaxPixels /\ crop[2] <= MaxPixels
            => size[1] * size[2] <= MaxPixels
       /\ size = crop \/ crop[1] * crop[2] > MaxPixels

(* The regions of a page: no text is lost, they are read in order, and each   *)
(* one is cut so that it can be read.                                         *)
RegionsAreRead == RealTextSurvives /\ ReadsInOrder /\ CropsAreReadable

(* The wire result holds each recognized text once, in reading order, in the  *)
(* box it was read from and with its own translation, whichever of the batch  *)
(* answer, the fallback and the per-text loop produced it.                    *)
OwnTranslation ==
  stage = "done" =>
    /\ [k \in DOMAIN result |-> result[k].source] = Recognized
    /\ \A k \in DOMAIN result :
         /\ result[k].bounds = regions[result[k].source.of].bbox
         /\ IF page.skip THEN result[k].destination = Untranslated
            ELSE result[k].destination.of = result[k].source

(* From the crop to the answer and to the statistics a text stays with its    *)
(* region: besides OwnTranslation there is one row per detected region, with  *)
(* the length of the translation of that region's own text.                   *)
TextsKeepTheirRegion ==
  /\ PipeTypeOK /\ OwnTranslation
  /\ stage = "done" =>
       /\ Len(rows) = Len(regions)
       /\ \A k \in DOMAIN rows :
            LET own == {i \in DOMAIN result : result[i].source.of = k}
            IN \/ own = {} /\ rows[k].dest_len = 0
               \/ \E i \in own : own = {i} /\ rows[k].dest_len = result[i].destination.len
=============================================================================
