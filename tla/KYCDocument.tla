----------------------------- MODULE KYCDocument -----------------------------
(***************************************************************************)
(* What the verification page computes in the browser                      *)
(* (frontend/src/lib/kyc-local.ts and the loop of startLivenessCheck): the *)
(* image it prepares, the text it keeps of three readings, the fields it   *)
(* finds, the match of two faces and the blink.  A behaviour is about one  *)
(* part of this, named by doc.part.  Ratios count thousandths.             *)
(***************************************************************************)
EXTENDS Integers, SequencesExt

CONSTANTS Lines,      \* lines of a document: records of the features looked at
          MaxLines,   \* bound: lines of a text
          Grays,      \* luminances, 0..255
          MaxPixels,  \* bound: pixels of an image
          Edges,      \* widths and heights of an image
          Distances,  \* of two face descriptors
          Ears,       \* eye aspect ratios
          MaxFrames,  \* bound: looks of the liveness loop
          StableFrames \* frames from which fifteen seconds suffice

ASSUME KYCDocumentAssumption ==
    /\ Grays \subseteq 0..255 /\ Edges \subseteq Nat \ {0} /\ Distances \subseteq Nat /\ Ears \subseteq Nat
    /\ {MaxLines, MaxPixels, MaxFrames, StableFrames} \subseteq Nat
    /\ \A l \in Lines : /\ {l.words, l.letters, l.digits, l.chars} \subseteq Nat
                       /\ l.length \in Nat \ {0} /\ l.text # ""

VARIABLES doc,    \* part, image prepared and its original, readings, text kept and fields
          loop    \* the liveness loop: match, frames, time, outcome

docVars == <<doc, loop>>

Texts == BoundedSeq(Lines, MaxLines)
Failed == [ok |-> FALSE, text |-> << >>]
NoText == << >>
NoImage == [pixels |-> << >>, width |-> 1, height |-> 1]
NoFields == [name |-> "", nameScore |-> 0, dob |-> "", id |-> "", country |-> ""]

DocumentInit ==
    /\ \E part \in {"image", "text", "liveness"} :
         doc = [part |-> part, original |-> NoImage, prepared |-> NoImage,
                readings |-> << >>, best |-> NoText, fields |-> NoFields]
    /\ loop = [match |-> 0, frames |-> << >>, elapsed |-> "", pc |-> "selfie"]

-----------------------------------------------------------------------------
(* Pixels.                                                                 *)

Clamp(v, low, high) == IF v < low THEN low ELSE IF v > high THEN high ELSE v

(* A contrast of 1.6 around the mean luminance, rounded.                   *)
Stretch(pixels, g) ==
    LET n == Len(pixels)
        sum[k \in 0..n] == IF k = 0 THEN 0 ELSE sum[k - 1] + pixels[k]
    IN Clamp(((g * n - sum[n]) * 16 + sum[n] * 10 + 5 * n) \div (10 * n), 0, 255)

Upscaled(edge, long) == IF long < 1600 THEN (2 * edge * 1600 + long) \div (2 * long) ELSE edge

PreprocessImage ==
    /\ doc.part = "image" /\ doc.original = NoImage
    /\ \E w \in Edges, h \in Edges, pixels \in BoundedSeq(Grays, MaxPixels) \ {<< >>} :
         LET long == IF w > h THEN w ELSE h
         IN doc' = [doc EXCEPT
              !.original = [pixels |-> pixels, width |-> w, height |-> h],
              !.prepared = [pixels |-> [k \in DOMAIN pixels |-> Stretch(pixels, pixels[k])],
                            width |-> Upscaled(w, long), height |-> Upscaled(h, long)]]
    /\ UNCHANGED loop

-----------------------------------------------------------------------------
(* Text.                                                                   *)

\* PSM 6, 11 and 4.
PsmModes == 3

TextLength(text) ==
    LET length[k \in 0..Len(text)] == IF k = 0 THEN 0 ELSE length[k - 1] + text[k].length + 1
    IN length[Len(text)]

TextScore(text) ==
    IF text = NoText THEN 0
    ELSE Cardinality({k \in DOMAIN text : text[k].length >= 3}) * 10 + TextLength(text) - 1

\* Mutant: the last of equal readings.
BetterOrEqual(text, best) == IF TextScore(text) >= TextScore(best) THEN text ELSE best

Better(text, best) == IF TextScore(text) > TextScore(best) THEN text ELSE best

(* One round of extractDocumentText.                                       *)
Recognize ==
    /\ doc.part = "text" /\ Len(doc.readings) < PsmModes
    /\ \E reading \in [ok : {TRUE}, text : Texts] \cup {Failed} :
         doc' = [doc EXCEPT !.readings = Append(@, reading),
                            !.best = IF reading.ok THEN Better(reading.text, @) ELSE @]
    /\ UNCHANGED loop

FirstMatch(matches) ==
    IF \E k \in DOMAIN matches : matches[k] # ""
    THEN matches[SelectInSeq(matches, LAMBDA m : m # "")] ELSE ""

IsNameLine(l) ==
    /\ l.words \in 2..5 /\ l.chars \in 6..60
    /\ 10 * l.letters > 6 * l.chars /\ l.digits <= 2

(* letterRatio * 100 + words * 5 and the bonuses, times 100.               *)
NameScore(l) ==
    (10000 * l.letters) \div l.chars + 500 * l.words + (IF l.capital THEN 2000 ELSE 0)
      + (IF l.upper THEN 3000 ELSE 0) - (IF l.label THEN 5000 ELSE 0)

(* The candidates are sorted by score and the sort is stable.              *)
Improves(f, l) == IsNameLine(l) /\ (f.name = "" \/ NameScore(l) > f.nameScore)

(* A round of the loop of parseDocumentFields.                             *)
ParseLine(f, l) ==
       [name |-> IF Improves(f, l) THEN l.text ELSE f.name,
        nameScore |-> IF Improves(f, l) THEN NameScore(l) ELSE f.nameScore,
        dob |-> IF f.dob = "" THEN FirstMatch(l.dob) ELSE f.dob,
        id |-> IF f.id = "" THEN FirstMatch(l.id) ELSE f.id,
        country |-> IF f.country = "" THEN FirstMatch(l.country) ELSE f.country]

ParseDocumentFields(text) ==
    LET found[k \in 0..Len(text)] == IF k = 0 THEN NoFields ELSE ParseLine(found[k - 1], text[k])
    IN found[Len(text)]

Parsed ==
    /\ doc.part = "text" /\ Len(doc.readings) = PsmModes
    /\ doc' = [doc EXCEPT !.part = "parsed", !.fields = ParseDocumentFields(doc.best)]
    /\ UNCHANGED loop

(* hashExtractedData: the fields, not the text they were found in.         *)
DataHash(f) == <<f.name, f.dob, f.id, f.country>>

-----------------------------------------------------------------------------
(* Faces and blinks.                                                       *)

MatchFaces(distance) ==
    [matched |-> distance < 600, confidence |-> Clamp(1000 - distance, 0, 1000)]

CaptureSelfie ==
    /\ doc.part = "liveness" /\ loop.pc = "selfie"
    /\ \E d \in Distances :
         loop' = [loop EXCEPT !.match = MatchFaces(d).confidence,
                              !.pc = IF MatchFaces(d).matched THEN "liveness" ELSE "selfie"]
    /\ UNCHANGED doc

(* The median of the top 60 % of the frames: the greatest ratio that more   *)
(* than half of their number reach.                                        *)
Reaching(frames, ear) == {k \in DOMAIN frames : frames[k] >= ear}

Baseline(frames) ==
    LET share == (Len(frames) * 6) \div 10
        openCount == IF share < 3 THEN 3 ELSE share
        reached == {ear \in ToSet(frames) : Cardinality(Reaching(frames, ear)) > openCount \div 2}
    IN CHOOSE ear \in reached : \A other \in reached : other <= ear

BlinkThreshold(frames) ==
    LET drop == Baseline(frames) * 88 IN IF drop < 18000 THEN 18000 ELSE drop

DetectBlink(frames) ==
    /\ Len(frames) >= 5
    /\ \E k \in DOMAIN frames : frames[k] * 100 < BlinkThreshold(frames) \/ frames[k] < 240

(* The rounds of startLivenessCheck: the time that has passed, then a      *)
(* frame; one without a face changes nothing.                              *)
TimeRuns ==
    /\ loop.pc = "liveness" /\ loop.elapsed # "over 45 s"
    /\ loop' = [loop EXCEPT !.elapsed = IF @ = "" THEN "over 15 s" ELSE "over 45 s"]
    /\ UNCHANGED doc

Accepted == loop.elapsed = "over 15 s" /\ Len(loop.frames) > StableFrames

LivenessEnds ==
    /\ loop.pc = "liveness"
    /\ \/ loop.elapsed = "over 45 s" /\ loop' = [loop EXCEPT !.pc = "timeout"]
       \/ Accepted /\ loop' = [loop EXCEPT !.pc = "accepted"]
    /\ UNCHANGED doc

FrameSeen ==
    /\ loop.pc = "liveness" /\ ~Accepted /\ loop.elapsed # "over 45 s" /\ Len(loop.frames) < MaxFrames
    /\ \E ear \in Ears :
         LET frames == Append(loop.frames, ear)
         IN loop' = [loop EXCEPT !.frames = frames, !.pc = IF DetectBlink(frames) THEN "blinked" ELSE @]
    /\ UNCHANGED doc

DocumentNext == PreprocessImage \/ Recognize \/ Parsed \/ CaptureSelfie
    \/ TimeRuns \/ LivenessEnds \/ FrameSeen

DocumentSpec == DocumentInit /\ [][DocumentNext]_docVars

-----------------------------------------------------------------------------
(* preprocessImage keeps the order of the pixels and brings the long edge  *)
(* to at least 1600.                                                       *)
PixelsKeepOrder ==
    LET from == doc.original.pixels
        to == doc.prepared.pixels
    IN /\ \A i \in DOMAIN from, j \in DOMAIN from : from[i] <= from[j] => to[i] <= to[j]
       /\ doc.original # NoImage => (doc.prepared.width >= 1600 \/ doc.prepared.height >= 1600)

(* extractDocumentText keeps the first of the readings with the highest    *)
(* score, whichever of the three fail.                                     *)
BestReadingKept ==
    LET read == {k \in DOMAIN doc.readings : doc.readings[k].ok}
        score(k) == TextScore(doc.readings[k].text)
        top == {k \in read : \A j \in read : score(j) <= score(k)}
        first == CHOOSE k \in top : \A j \in top : k <= j
    IN doc.best = IF read = {} THEN NoText ELSE doc.readings[first].text

(* The name is that of the first of the lines which look most like one;    *)
(* the other fields are those of the first line that has one, and the same *)
(* fields are the same data wherever the text came from.                   *)
FieldsOfText ==
    doc.part = "parsed" =>
        LET text == doc.best
            named == {k \in DOMAIN text : IsNameLine(text[k])}
            top == {k \in named : \A j \in named : NameScore(text[j]) <= NameScore(text[k])}
            first(S) == CHOOSE k \in S : \A j \in S : k <= j
        IN DataHash(doc.fields) =
               <<IF named = {} THEN "" ELSE text[first(top)].text,
                 FirstMatch([k \in DOMAIN text |-> FirstMatch(text[k].dob)]),
                 FirstMatch([k \in DOMAIN text |-> FirstMatch(text[k].id)]),
                 FirstMatch([k \in DOMAIN text |-> FirstMatch(text[k].country)])>>

(* kyc-local.ts:319: with the eyes open in three of five frames a drop by  *)
(* 20 % is a blink, and so is a ratio below 0.22, whatever the other       *)
(* frames are.                                                             *)
DropIsBlink ==
    \A e \in Ears :
        LET n == Len(loop.frames)
            open == {k \in 1..n : loop.frames[k] >= e}
        IN (n >= 5 /\ 10 * Cardinality(open) >= 6 * n
              /\ \E k \in 1..n : loop.frames[k] * 10 < e * 8 \/ loop.frames[k] < 220) => loop.pc = "blinked"

(* A face whose ratios stay within 12 % of the highest, none below 0.24,   *)
(* does not blink.                                                         *)
SteadyIsNoBlink ==
    loop.pc = "blinked" =>
        \E i \in DOMAIN loop.frames, j \in DOMAIN loop.frames :
            loop.frames[i] * 100 < loop.frames[j] * 88 \/ loop.frames[i] < 240

(* What the local checks make of a document and of a face.                 *)
DocumentInv == PixelsKeepOrder /\ BestReadingKept /\ FieldsOfText /\ DropIsBlink /\ SteadyIsNoBlink
=============================================================================
