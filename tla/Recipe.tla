------------------------------- MODULE Recipe -------------------------------
(***************************************************************************)
(* One file through a lossless recipe: its digests are taken, an encoder   *)
(* runs, the result is verified against the digests, and what was promised *)
(* of it is recorded (convert/, hash.rs).  Later `restore` and `verify`    *)
(* rebuild the original from the result (restore.rs).                      *)
(*                                                                         *)
(* A file on disk is known by its parts: the bytes of the original it can  *)
(* be rebuilt into ("file"), the upper eight bits of its first picture     *)
(* ("coarse"), the bits below ("fine"), the pictures after the first       *)
(* ("later"), the upper sixteen bits of its samples ("sound") and the bits *)
(* below ("faint").  Each is the source's "own", something "other", or     *)
(* there is "none".  Nothing is assumed of an encoder but that it makes    *)
(* nothing out of nothing: whether a recipe keeps its promise is up to the *)
(* verification.  Decoders show what is there, and any call may fail.      *)
(***************************************************************************)
EXTENDS FiniteSets

CONSTANTS
  Sources,      \* the files to be converted, see Source
  None

Pictures == {"coarse", "fine", "later"}
Samples  == {"sound", "faint"}
Parts    == Pictures \cup Samples \cup {"file"}
Forms    == [Parts -> {"own", "other", "none"}]

Streams    == {"video", "audio"}
PartsOf(s) == IF s = "audio" THEN Samples ELSE Pictures

ToJxl   == {"jxl_from_jpeg", "jxl_from_raster", "jxl_from_webp"}
ToFlac  == {"flac", "flac_recompress"}
Lossless == ToJxl \cup ToFlac \cup {"ts_remux", "ffv1"}
Formats == {"jpeg", "png", "gif", "webp", "bmp", "tiff", "pcm", "flac", "mpegts", "intra"}

(* Extensions; "jfif" is also .jpe, JPEGs to kind_from_extension but names *)
(* djxl does not know.                                                     *)
Names == {"jpg", "jfif", "png", "gif", "webp", "bmp", "tif", "wav", "flac", "ts", "mkv"}

(* What a source is, whatever its name claims; deep is that the name of    *)
(* its pixel format holds a number neutral_pix_fmt looks for, and opaque   *)
(* are the streams the local ffmpeg has no decoder for.                    *)
Source ==
  [ recipe : Lossless, holds : Formats, named : Names, deep : BOOLEAN,
    form   : Forms, opaque : SUBSET Streams ]

(* A still has no sound, a sound file no pictures (a cover is metadata),   *)
(* WebP has eight bits, and only a JPEG by its bytes takes the recipe for  *)
(* JPEGs.                                                                  *)
ASSUME RecipeAssumption ==
  /\ Sources \subseteq Source
  /\ \A s \in Sources :
        /\ s.recipe = "jxl_from_jpeg" => s.holds = "jpeg"
        /\ s.recipe = "jxl_from_webp" => s.form["fine"] = "none"
        /\ s.recipe \in ToJxl => \A p \in Samples : s.form[p] = "none"
        /\ s.recipe \in ToFlac => \A p \in Pictures : s.form[p] = "none"

VARIABLES
  src,        \* the file
  at,         \* how far its conversion, and later its restore, got
  print,      \* Fingerprint.content: a digest per stream, or None
  frames,     \* StreamDigest.frames
  mid,        \* raster-decoded.png
  out,        \* the converted file
  fidelity,   \* what the ledger records
  rebuilt,    \* what restore rebuilt
  said        \* what restore, or verify, said of the record

recipeVars == <<src, at, print, frames, mid, out, fidelity, rebuilt, said>>

Converting == {"fetched", "printed", "refused", "expanded", "encoded"}
Stages     == Converting \cup {"failed", "recorded", "rebuilding", "confirming"}

RecipeInit ==
  /\ src \in Sources
  /\ at = "fetched"
  /\ print = [s \in Streams |-> None] /\ frames = {}
  /\ mid = None /\ out = None /\ rebuilt = None
  /\ fidelity = "none" /\ said = "nothing"

-----------------------------------------------------------------------------
(* Digests.                                                                *)

(* mutant: everything is compared at eight bits                            *)
VisibleAtEight(s) == IF s = "audio" THEN {"sound"} ELSE {"coarse", "later"}

(* Sound is compared at sixteen bits, what the hash of ffmpeg converts     *)
(* samples to unless told otherwise; a still at sixteen when its pixel     *)
(* format says that it has them, and at eight when not.                    *)
Visible(s) ==
  IF s = "audio" THEN {"sound"}
  ELSE IF src.recipe \in ToJxl /\ ~(src.recipe = "jxl_from_raster" /\ src.deep)
       THEN {"coarse", "later"}
  ELSE Pictures

Decodes(f, s) == s \notin src.opaque /\ \E p \in PartsOf(s) : f[p] # "none"

Hash(f, s) == [p \in Visible(s) |-> f[p]]

(* mutant: a remux is proven by its pictures alone                         *)
DigestedPictures == IF src.recipe \in ToFlac THEN {"audio"} ELSE {"video"}

(* The streams a recipe's verification looks at.                           *)
Digested ==
  CASE src.recipe = "jxl_from_jpeg" -> {}
    [] src.recipe \in ToFlac        -> {"audio"}
    [] src.recipe = "ts_remux"      -> Streams
    [] OTHER                        -> {"video"}

(* frame_hash and pcm_md5; lost are the calls that fail.                   *)
Digest(f, lost) ==
  [s \in Streams |->
     IF s \in Digested \ lost /\ Decodes(f, s) THEN Hash(f, s) ELSE None]

(* mutant: any recipe goes on without its digest                           *)
TakenAnyhow(d) == TRUE

(* A remux turns a digest it could not take into no digest; for the other  *)
(* recipes it is an error.                                                 *)
Taken(d) == src.recipe # "ts_remux" => \A s \in Digested : d[s] # None

(* video_frame_count; it fails without a video stream, and says zero of    *)
(* one without packets.                                                    *)
FrameCount(f) == {p \in {"coarse", "later"} : f[p] # "none"}

Fingerprint ==
  /\ at = "fetched"
  /\ \E lost \in SUBSET Streams :
       /\ Taken(Digest(src.form, lost))
       /\ print' = Digest(src.form, lost)
  /\ frames' = FrameCount(src.form)
  /\ at' = "printed"
  /\ UNCHANGED <<src, mid, out, fidelity, rebuilt, said>>

-----------------------------------------------------------------------------
(* Encoders.                                                               *)
Damaged(f) == {g \in Forms : \A p \in Parts : f[p] = "none" => g[p] = "none"}

Without(f, parts) == [p \in Parts |-> IF p \in parts THEN "none" ELSE f[p]]

Encoded(from) ==
  /\ out' \in Damaged(from)
  /\ mid' = None
  /\ at' = "encoded"
  /\ UNCHANGED <<src, print, frames, fidelity, rebuilt, said>>

Expanded(from) ==
  /\ mid' \in Damaged(from)
  /\ at' = "expanded"
  /\ UNCHANGED <<src, print, frames, out, fidelity, rebuilt, said>>

EncodeFromJpeg ==
  /\ at = "printed" /\ src.recipe = "jxl_from_jpeg"
  /\ Encoded(src.form)

Raster == src.recipe \in {"jxl_from_raster", "jxl_from_webp"}

(* decode_webp                                                             *)
DecodeWebp ==
  /\ at = "printed" /\ Raster /\ src.holds = "webp"
  /\ Expanded(Without(src.form, {"file"}))

(* cjxl_raster on the input itself, and its refusal                        *)
EncodeDirectly ==
  /\ at = "printed" /\ Raster /\ src.holds \in {"png", "gif"}
  /\ \/ Encoded(Without(src.form, {"file"}))
     \/ at' = "refused" /\ UNCHANGED <<src, print, frames, mid, out, fidelity, rebuilt, said>>

(* decode_with_ffmpeg: the first picture only                              *)
DecodeFirst ==
  /\ \/ at = "refused"
     \/ at = "printed" /\ Raster /\ src.holds \notin {"webp", "png", "gif"}
  /\ Expanded(Without(src.form, {"file", "later"}))

EncodeExpanded ==
  /\ at = "expanded"
  /\ Encoded(mid)

(* encode_flac, with the container's own chunks or without them            *)
EncodeFlac ==
  /\ at = "printed" /\ src.recipe \in ToFlac
  /\ \/ Encoded(src.form)
     \/ Encoded(Without(src.form, {"file"}))

(* remux_to_mp4, encode_ffv1                                               *)
EncodeVideo ==
  /\ at = "printed" /\ src.recipe \in {"ts_remux", "ffv1"}
  /\ Encoded(Without(src.form, {"file"}))

-----------------------------------------------------------------------------
(* Verification.                                                           *)
Proven(as) ==
  /\ fidelity' = as
  /\ at' = "recorded"
  /\ UNCHANGED <<src, print, frames, mid, out, rebuilt, said>>

(* djxl -J goes by the name of its target: it rebuilds a JPEG when asked   *)
(* for one, or fails; under a name it does not know it writes nothing, and *)
(* under that of another format another file or nothing.                   *)
Djxl(f, name) ==
  CASE name = "jpg"  -> {f["file"]}
    [] name = "jfif" -> {"none"}
    [] OTHER         -> {"other", "none"}

(* flac -d --keep-foreign-metadata rebuilds a file or fails.               *)
FlacDecode(f) == {f["file"]}

(* mutant: a JXL is proven by its pixels                                   *)
VerifyJpegPixels ==
  /\ at = "encoded" /\ src.recipe = "jxl_from_jpeg"
  /\ Hash(out, "video") = Hash(src.form, "video")
  /\ Proven("byte_exact")

(* The rebuild is asked for as roundtrip.jpg.                              *)
VerifyJpeg ==
  /\ at = "encoded" /\ src.recipe = "jxl_from_jpeg"
  /\ "own" \in Djxl(out, "jpg")
  /\ Proven("byte_exact")

(* verify_raster, verify_frames                                            *)
VerifyPictures ==
  /\ at = "encoded" /\ (Raster \/ src.recipe = "ffv1")
  /\ Taken(Digest(out, {}))
  /\ Digest(out, {}) = print
  /\ Proven("content_exact")

(* mutant: a FLAC that rebuilds something counts as byte-exact             *)
VerifyFlacLoosely ==
  /\ at = "encoded" /\ src.recipe \in ToFlac
  /\ \/ out["file"] # "none" /\ Proven("byte_exact")
     \/ Taken(Digest(out, {})) /\ Digest(out, {}) = print /\ Proven("content_exact")

(* A rebuild that fails, or gives another file, leaves the samples.        *)
VerifyFlac ==
  /\ at = "encoded" /\ src.recipe \in ToFlac
  /\ \/ "own" \in FlacDecode(out) /\ Proven("byte_exact")
     \/ Taken(Digest(out, {})) /\ Digest(out, {}) = print /\ Proven("content_exact")

VerifyRemux ==
  /\ at = "encoded" /\ src.recipe = "ts_remux"
  /\ FrameCount(out) = frames
  /\ \E lost \in SUBSET Streams : Digest(out, lost) = print
  /\ Proven("content_exact")

(* A call fails or is killed, or a comparison fails: nothing is recorded.  *)
ConversionFails ==
  /\ at \in Converting
  /\ at' = "failed"
  /\ mid' = None
  /\ UNCHANGED <<src, print, frames, out, fidelity, rebuilt, said>>

(* A later run tries a failed file again, in a directory of its own.       *)
Retry ==
  /\ at = "failed"
  /\ at' = "fetched"
  /\ print' = [s \in Streams |-> None] /\ frames' = {}
  /\ out' = None
  /\ UNCHANGED <<src, mid, fidelity, rebuilt, said>>

-----------------------------------------------------------------------------
(* restore, and verify of a record.                                        *)
Restorable == fidelity = "byte_exact"

Refuse ==
  /\ at = "recorded" /\ ~Restorable
  /\ said' = "refused"
  /\ UNCHANGED <<src, at, print, frames, mid, out, fidelity, rebuilt>>

Download ==
  /\ at = "recorded" /\ Restorable
  /\ at' = "rebuilding"
  /\ rebuilt' = None /\ said' = "nothing"
  /\ UNCHANGED <<src, print, frames, mid, out, fidelity>>

Answer(what) ==
  /\ at' = "recorded"
  /\ said' = what
  /\ UNCHANGED <<src, print, frames, mid, out, fidelity, rebuilt>>

(* mutant: only what came from WAV is known to restore                     *)
RebuildsFromWav(f) ==
  CASE src.recipe = "jxl_from_jpeg" -> Djxl(f, src.named)
    [] OTHER                        -> {"none"}

(* The target is named as the original was.                                *)
Rebuilds(f) ==
  CASE src.recipe = "jxl_from_jpeg" -> Djxl(f, src.named)
    [] src.recipe \in ToFlac        -> FlacDecode(f)
    [] OTHER                        -> {"none"}

(* mutant: the exit status of the rebuild is not looked at                 *)
RebuildBlindly ==
  /\ at = "rebuilding"
  /\ rebuilt' \in Rebuilds(out)
  /\ at' = "confirming"
  /\ UNCHANGED <<src, print, frames, mid, out, fidelity, said>>

Rebuild ==
  /\ at = "rebuilding"
  /\ \E f \in Rebuilds(out) :
       IF f = "none" THEN Answer("broken")
       ELSE /\ rebuilt' = f
            /\ at' = "confirming"
            /\ UNCHANGED <<src, print, frames, mid, out, fidelity, said>>

Confirm ==
  /\ at = "confirming"
  /\ Answer(IF rebuilt = "own" THEN "restored" ELSE "broken")

(* The remote cannot be reached, or a tool is killed.                      *)
RestoreFails ==
  /\ at \in {"rebuilding", "confirming"}
  /\ Answer("unreachable")

RecipeNext ==
  \/ Fingerprint \/ ConversionFails \/ Retry
  \/ EncodeFromJpeg \/ DecodeWebp \/ EncodeDirectly \/ DecodeFirst \/ EncodeExpanded
  \/ EncodeFlac \/ EncodeVideo
  \/ VerifyJpeg \/ VerifyPictures \/ VerifyFlac \/ VerifyRemux
  \/ Refuse \/ Download \/ Rebuild \/ Confirm \/ RestoreFails

RecipeSpec == RecipeInit /\ [][RecipeNext]_recipeVars

-----------------------------------------------------------------------------
RecipeTypeOK ==
  /\ src \in Sources
  /\ at \in Stages
  /\ print \in [Streams -> {None} \cup UNION {[v -> {"own", "other", "none"}] : v \in SUBSET Parts}]
  /\ frames \subseteq Pictures
  /\ mid \in Forms \cup {None} /\ out \in Forms \cup {None}
  /\ fidelity \in {"none", "byte_exact", "content_exact"}
  /\ rebuilt \in {"own", "other", None}
  /\ said \in {"nothing", "refused", "restored", "broken", "unreachable"}

(* What no digest compared looks at: the sample bits below the sixteenth,  *)
(* the sound of an FFV1 conversion, the lower bits of a still whose pixel  *)
(* format does not say that it has them, and of a transport stream what    *)
(* could not be decoded when its digests were taken.                       *)
NotCompared ==
  {"file", "faint"} \cup
  CASE src.recipe = "ffv1"            -> {"sound"}
    [] src.recipe = "jxl_from_raster" -> IF src.deep THEN {} ELSE {"fine"}
    [] src.recipe = "ts_remux"        -> UNION {PartsOf(s) : s \in {t \in Digested : print[t] = None}}
    [] OTHER                          -> {}

(* What is recorded of a conversion is true of its bytes, whatever the     *)
(* encoder did and whichever calls failed: a byte-exact one rebuilds the   *)
(* original, a content-exact one has every part of the content that was    *)
(* compared at all, and a remux, compared or not, has every frame.         *)
PromiseProven ==
  /\ fidelity = "byte_exact" => out["file"] = "own"
  /\ fidelity = "content_exact" =>
       /\ \A p \in Parts \ NotCompared : out[p] = src.form[p]
       /\ src.recipe = "ts_remux" => FrameCount(out) = FrameCount(src.form)

(* The same without the exceptions: content-exact means the content.       *)
ContentExact ==
  fidelity = "content_exact" => \A p \in Parts \ {"file"} : out[p] = src.form[p]

(* What verification found byte-exact, under a name of its own choosing,   *)
(* restore and verify find so again under the name of the original, unless *)
(* djxl does not take that name for a JPEG's.                              *)
ExactStaysExact ==
  said = "broken" => src.recipe = "jxl_from_jpeg" /\ src.named # "jpg"

(* The same whatever the file was called.                                  *)
ByteExactRestores == said # "broken"
=============================================================================
