------------------------------- MODULE Policy -------------------------------
(***************************************************************************)
(* The decision table of policy.rs: what is to be done with a file, from   *)
(* what is known of it and the limits of the run, and which verdicts a run *)
(* reconsiders.  A verdict is the name of a recipe or of a reason to skip. *)
(*                                                                         *)
(* A file is what the decision tells apart of it: its size, the kind its   *)
(* extension claims, and - once its bytes are local - the kind they show,  *)
(* whether they are lossless, and what ffprobe reports.  Kinds that the    *)
(* table never distinguishes are one: PNG, GIF, BMP and TIFF are "raster", *)
(* WAV and AIFF are "pcm", MP4, MOV, MKV and the legacy containers are     *)
(* "video".                                                                *)
(***************************************************************************)
EXTENDS Integers

CONSTANTS
  MinUsefulBytes,   \* MIN_USEFUL_BYTES, in the unit of sizes
  NoDuration        \* ffprobe reports no duration

ASSUME PolicyAssumption == MinUsefulBytes \in Nat

Images == {"jpeg", "raster", "efficient", "webp"}
Videos == {"video", "mpegts"}
Kinds  == Images \cup Videos \cup {"pcm", "flac", "m4a", "lossy_audio", "other"}

JxlRecipes == {"jxl_from_jpeg", "jxl_from_raster", "jxl_from_webp"}
Recipes    == JxlRecipes \cup {"flac", "flac_recompress", "ts_remux", "ffv1", "av1"}

TierReasons == {"video_tier_disabled", "av1_tier_disabled"}
SkipReasons ==
  TierReasons \cup
  {"already_optimal", "no_gain", "lossy_no_gain", "too_large_for_budget", "too_small",
   "video_hdr", "video_already_av1", "video_low_bitrate", "video_too_short",
   "video_complex_structure", "needs_probe", "unsupported"}

Codecs == {"lossless", "av1", "lossy"}

(* What the rules test of a file, and the settings they test it against.  *)
File ==
  [ size : Nat, named : Kinds, holds : Kinds \cup {"unknown"}, lossless : BOOLEAN,
    streams : Nat, codec : Codecs, hdr : BOOLEAN, lean : BOOLEAN,
    secs : Nat \cup {NoDuration} ]

Limit ==
  [ video : BOOLEAN, av1 : BOOLEAN, minSecs : Nat, maxSize : Nat, budget : Nat,
    keepSource : BOOLEAN ]

(* At plan time nothing of a file's content is known.                      *)
Unseen == [head |-> FALSE, probe |-> FALSE]

-----------------------------------------------------------------------------
(* The first rule that applies gives the verdict.                          *)
Rule(applies, verdict) == [applies |-> applies, verdict |-> verdict]

FirstOf(rules) ==
  LET i == CHOOSE n \in DOMAIN rules :
             rules[n].applies /\ \A m \in 1 .. n - 1 : ~rules[m].applies
  IN  rules[i].verdict

(* Bytes that name an image format win over the extension, and a `.ts`     *)
(* that is no transport stream is no video.                                *)
KindOf(file, seen) ==
  FirstOf(<< Rule(~seen.head, file.named),
             Rule(file.named = "mpegts" /\ file.holds # "mpegts", "other"),
             Rule(file.named \in Images /\ file.holds \in Images, file.holds),
             Rule(TRUE, file.named) >>)

TooShort(file, limits) == file.secs # NoDuration /\ file.secs < limits.minSecs

(* A transport stream that AV1 declines is remuxed instead.                *)
Declined(kind, reason) == IF kind = "mpegts" THEN "ts_remux" ELSE reason

(* mutant: nothing tells an AV1 stream from any other                      *)
DecideVideoAgain(kind, file, seen, limits) ==
  FirstOf(<< Rule(~limits.video, "video_tier_disabled"),
             Rule(~seen.probe, "needs_probe"),
             Rule(limits.av1, "av1"),
             Rule(TRUE, "av1_tier_disabled") >>)

DecideVideo(kind, file, seen, limits) ==
  FirstOf(<< Rule(~limits.video, "video_tier_disabled"),
             Rule(~seen.probe, "needs_probe"),
             Rule(file.streams = 0, "unsupported"),
             Rule(file.streams > 1, "video_complex_structure"),
             Rule(file.codec = "lossless", "ffv1"),
             Rule(file.hdr, Declined(kind, "video_hdr")),
             Rule(file.codec = "av1", Declined(kind, "video_already_av1")),
             Rule(TooShort(file, limits), Declined(kind, "video_too_short")),
             Rule(file.lean, Declined(kind, "video_low_bitrate")),
             Rule(~limits.av1, Declined(kind, "av1_tier_disabled")),
             Rule(TRUE, "av1") >>)

Decide(file, seen, limits) ==
  LET kind == KindOf(file, seen) IN
  FirstOf(<< Rule(file.size < MinUsefulBytes, "too_small"),
             Rule(file.size > limits.maxSize, "too_large_for_budget"),
             Rule(kind = "jpeg", "jxl_from_jpeg"),
             Rule(kind = "webp" /\ ~seen.head, "needs_probe"),
             Rule(kind = "webp" /\ file.lossless, "jxl_from_webp"),
             Rule(kind = "webp", "lossy_no_gain"),
             Rule(kind = "raster", "jxl_from_raster"),
             Rule(kind = "efficient", "already_optimal"),
             Rule(kind = "pcm", "flac"),
             Rule(kind = "flac", "flac_recompress"),
             Rule(kind = "m4a" /\ ~seen.probe, "needs_probe"),
             Rule(kind = "m4a" /\ file.lossless, "flac_recompress"),
             Rule(kind \in {"m4a", "lossy_audio"}, "lossy_no_gain"),
             Rule(kind \in Videos, DecideVideo(kind, file, seen, limits)),
             Rule(TRUE, "unsupported") >>)

-----------------------------------------------------------------------------
(* Which skips a run takes up again.                                       *)

DependsOnSettings == TierReasons \cup {"too_large_for_budget", "video_too_short"}

(* mutant: the duration floor is taken for a property of the file          *)
ReopenedWithoutFloor(limits) ==
  {"too_large_for_budget"}
    \cup (IF limits.video THEN {"video_tier_disabled"} ELSE {})
    \cup (IF limits.av1 THEN {"av1_tier_disabled"} ELSE {})

ReopenedBy(limits) ==
  {r \in DependsOnSettings : /\ r = "video_tier_disabled" => limits.video
                             /\ r = "av1_tier_disabled" => limits.av1}

-----------------------------------------------------------------------------
(* Peak local disk of a job, in hundredths of its input (governor.rs).      *)

HoldsSource(recipe) == recipe \in {"av1", "ffv1"}

PeakHundredths(recipe, keepSource) ==
  LET base == FirstOf(<< Rule(recipe \in JxlRecipes, 180),
                         Rule(recipe \in {"flac", "flac_recompress"}, 150),
                         Rule(recipe = "ts_remux", 195),
                         Rule(recipe = "ffv1", 250),
                         Rule(TRUE, 165) >>)
  IN  IF keepSource /\ ~HoldsSource(recipe) THEN base + 100 ELSE base

Reservation(recipe, size, keepSource) == size * PeakHundredths(recipe, keepSource)
=============================================================================
