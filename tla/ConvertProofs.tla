---------------------------- MODULE ConvertProofs ----------------------------
(***************************************************************************)
(* What leaves a conversion, by the lossless recipes (module Recipe) or    *)
(* the lossy one (module Av1Gate), and what is converted at all (Verdict). *)
(*                                                                         *)
(* First, for any sources, whatever encoders write and whichever calls     *)
(* fail: what is recorded of a conversion is true of its bytes.  Then, for *)
(* any contents, settings, gates, search error and any number of attempts: *)
(* what the AV1 gate lets through, and what a CRF hint is worth.  Last,    *)
(* for any file, any sequence of runs and any settings: what the decision  *)
(* table makes of a file that was judged, or converted, before.            *)
(***************************************************************************)
EXTENDS Recipe, Av1Gate, Verdict, WellFoundedInduction, TLAPS

(* What the source does not have, an encoder or decoder does not add.      *)
Inherits(f) == f \in Forms /\ \A p \in Parts : src.form[p] = "none" => f[p] = "none"

HasResult == {"encoded", "recorded", "rebuilding", "confirming"}

(* PromiseProven is not inductive: it takes that the digests compared are  *)
(* those of the source, that nothing is made out of nothing, and that      *)
(* nothing is touched once it is recorded.                                 *)
RecipeInv ==
  /\ RecipeTypeOK
  /\ \A s \in Streams : print[s] \in {None, Hash(src.form, s)}
  /\ at = "expanded" => Inherits(mid)
  /\ at \in HasResult => Inherits(out)
  /\ at \in {"printed", "refused", "expanded"} \cup HasResult => frames = FrameCount(src.form)
  /\ fidelity # "none" <=> at \in {"recorded", "rebuilding", "confirming"}
  /\ Restorable => src.recipe \in {"jxl_from_jpeg"} \cup ToFlac
  /\ at \in {"rebuilding", "confirming"} => Restorable
  /\ at = "confirming" => rebuilt \in Rebuilds(out)
  /\ PromiseProven
  /\ ExactStaysExact

LEMMA SourceFacts ==
  ASSUME src \in Sources
  PROVE  /\ src.recipe \in Lossless /\ src.form \in Forms /\ src.deep \in BOOLEAN
         /\ src.recipe = "jxl_from_jpeg" => src.holds = "jpeg"
         /\ src.recipe = "jxl_from_webp" => src.form["fine"] = "none"
         /\ src.recipe \in ToJxl => \A p \in Samples : src.form[p] = "none"
         /\ src.recipe \in ToFlac => \A p \in Pictures : src.form[p] = "none"
  BY RecipeAssumption DEF Source

(* Equal digests show equal parts, as far as a digest looks.               *)
LEMMA HashShows ==
  ASSUME NEW f, NEW g, NEW s, Hash(f, s) = Hash(g, s)
  PROVE  \A p \in Visible(s) : f[p] = g[p]
  <1>1. \A p \in Visible(s) : Hash(f, s)[p] = f[p] /\ Hash(g, s)[p] = g[p]
    BY DEF Hash
  <1> QED
    BY <1>1

(* A digest that was taken and is the one on record shows the stream to be *)
(* the same, as far as it is compared; of a still of eight bits there is   *)
(* nothing below.                                                          *)
LEMMA DigestShows ==
  ASSUME src \in Sources, Inherits(out), NEW s \in Digested,
         print[s] \in {None, Hash(src.form, s)}, print[s] # None,
         NEW lost, Digest(out, lost) = print
  PROVE  \A p \in PartsOf(s) \ NotCompared : out[p] = src.form[p]
  <1>1. s \in Streams
    BY SourceFacts DEF Digested, Streams
  <1>2. Digest(out, lost)[s] = Hash(out, s)
    BY <1>1 DEF Digest
  <1>3. \A p \in Visible(s) : out[p] = src.form[p]
    BY <1>2, HashShows
  <1>4. ASSUME NEW p \in PartsOf(s), p \notin Visible(s), p \notin NotCompared
        PROVE  src.form[p] = "none" /\ p \in Parts
    <2>1. s # "audio"
      BY <1>4 DEF PartsOf, Visible, Samples, NotCompared
    <2>2. /\ p = "fine" /\ src.recipe \in ToJxl
          /\ ~(src.recipe = "jxl_from_raster" /\ src.deep)
      BY <1>4, <2>1 DEF PartsOf, Visible, Pictures
    <2>3. src.recipe # "jxl_from_jpeg"
      <3>1. src.recipe = "jxl_from_jpeg" => Digested = {}
        BY DEF Digested, ToFlac
      <3> QED
        BY <3>1
    <2>4. src.recipe # "jxl_from_raster"
      BY <1>4, <2>2 DEF NotCompared
    <2>5. src.recipe = "jxl_from_webp"
      BY <2>2, <2>3, <2>4 DEF ToJxl
    <2> QED
      BY <2>2, <2>5, SourceFacts DEF Parts, Pictures
  <1>5. \A p \in PartsOf(s) : p \notin Visible(s) /\ p \notin NotCompared => out[p] = src.form[p]
    BY <1>4 DEF Inherits
  <1> QED
    BY <1>3, <1>5

(* What a digest is.                                                       *)
LEMMA DigestType ==
  ASSUME src \in Sources, NEW f \in Forms, NEW lost
  PROVE  /\ Digest(f, lost) \in
              [Streams -> {None} \cup UNION {[v -> {"own", "other", "none"}] : v \in SUBSET Parts}]
         /\ \A s \in Streams : Digest(f, lost)[s] \in {None, Hash(f, s)}
  <1>1. ASSUME NEW s \in Streams
        PROVE  Hash(f, s) \in UNION {[v -> {"own", "other", "none"}] : v \in SUBSET Parts}
    <2>1. Visible(s) \in SUBSET Parts
      BY DEF Visible, Pictures, Samples, Parts
    <2>2. Hash(f, s) \in [Visible(s) -> {"own", "other", "none"}]
      BY <2>1 DEF Hash, Forms
    <2> QED
      BY <2>1, <2>2
  <1>2. \A s \in Streams : Digest(f, lost)[s] \in {None, Hash(f, s)}
    BY DEF Digest
  <1> QED
    BY <1>1, <1>2 DEF Digest

LEMMA InitRecipe == RecipeInit => RecipeInv
  BY DEF RecipeInit, RecipeInv, RecipeTypeOK, Stages, Converting, HasResult, Restorable,
         PromiseProven, ExactStaysExact

(* The source stays what it is, and so does what is said of it.            *)
LEMMA SourceStays ==
  ASSUME src' = src
  PROVE  /\ \A f : Inherits(f)' <=> Inherits(f)
         /\ \A s : Hash(src.form, s)' = Hash(src.form, s)
         /\ Digested' = Digested
         /\ FrameCount(src.form)' = FrameCount(src.form)
  BY DEF Inherits, Hash, Visible, Digested, FrameCount

(* The steps of a conversion, up to where it is verified.                  *)
LEMMA ConvertingKeeps ==
  ASSUME RecipeInv,
         \/ Fingerprint \/ ConversionFails \/ Retry
         \/ EncodeFromJpeg \/ DecodeWebp \/ EncodeDirectly \/ DecodeFirst
         \/ EncodeExpanded \/ EncodeFlac \/ EncodeVideo
  PROVE  RecipeInv'
  <1>1. /\ src \in Sources /\ at \in Stages /\ src.form \in Forms /\ at \notin {"recorded", "rebuilding", "confirming"}
        /\ fidelity = "none" /\ UNCHANGED <<src, fidelity, rebuilt, said>>
        /\ at' \in {"fetched", "printed", "refused", "expanded", "encoded", "failed"}
    BY SourceFacts
       DEF RecipeInv, RecipeTypeOK, Fingerprint, ConversionFails, Retry, EncodeFromJpeg,
           DecodeWebp, EncodeDirectly, DecodeFirst, EncodeExpanded, EncodeFlac, EncodeVideo,
           Encoded, Expanded, Converting
  <1>2. /\ fidelity' = "none" /\ ~Restorable' /\ ~Restorable
        /\ PromiseProven' /\ ExactStaysExact'
    BY <1>1 DEF Restorable, PromiseProven, ExactStaysExact, RecipeInv
  <1>3. /\ print' \in [Streams -> {None} \cup UNION {[v -> {"own", "other", "none"}] : v \in SUBSET Parts}]
        /\ \A s \in Streams : print'[s] \in {None, Hash(src.form, s)}
    <2>1. CASE Fingerprint
      <3>1. PICK lost \in SUBSET Streams : print' = Digest(src.form, lost)
        BY <2>1 DEF Fingerprint
      <3> QED
        BY <1>1, <3>1, DigestType
    <2>2. CASE Retry
      BY <2>2 DEF Retry
    <2>3. CASE ~Fingerprint /\ ~Retry
      <3>1. print' = print
        BY <2>3 DEF ConversionFails, EncodeFromJpeg, DecodeWebp, EncodeDirectly, DecodeFirst,
                    EncodeExpanded, EncodeFlac, EncodeVideo, Encoded, Expanded
      <3> QED
        BY <3>1 DEF RecipeInv, RecipeTypeOK
    <2> QED
      BY <2>1, <2>2, <2>3
  <1>4. /\ frames' \subseteq Pictures
        /\ at' \in {"printed", "refused", "expanded", "encoded"} => frames' = FrameCount(src.form)
    <2>1. CASE Fingerprint \/ Retry \/ ConversionFails
      BY <2>1 DEF Fingerprint, FrameCount, Pictures, Retry, ConversionFails, RecipeInv, RecipeTypeOK
    <2>2. CASE ~(Fingerprint \/ Retry \/ ConversionFails)
      <3>1. frames' = frames /\ at \in {"printed", "refused", "expanded"}
        BY <2>2 DEF EncodeFromJpeg, DecodeWebp, EncodeDirectly, DecodeFirst, EncodeExpanded,
                    EncodeFlac, EncodeVideo, Encoded, Expanded
      <3> QED
        BY <3>1 DEF RecipeInv, RecipeTypeOK
    <2> QED
      BY <2>1, <2>2
  <1>5. /\ Inherits(src.form)
        /\ \A f, g : Inherits(f) /\ g \in Damaged(f) => Inherits(g)
        /\ \A parts : Inherits(Without(src.form, parts))
    BY <1>1 DEF Inherits, Damaged, Without, Forms
  <1>6. /\ mid' \in Forms \cup {None} /\ out' \in Forms \cup {None}
        /\ at' = "expanded" => Inherits(mid')
        /\ at' = "encoded" => Inherits(out')
    <2>1. CASE at' \notin {"expanded", "encoded"}
      <3>1. mid' \in {mid, None} /\ out' \in {out, None}
        BY <2>1 DEF Fingerprint, ConversionFails, Retry, EncodeFromJpeg, DecodeWebp,
                    EncodeDirectly, DecodeFirst, EncodeExpanded, EncodeFlac, EncodeVideo,
                    Encoded, Expanded
      <3> QED
        BY <2>1, <3>1 DEF RecipeInv, RecipeTypeOK
    <2>2. CASE at' \in {"expanded", "encoded"}
      <3>1. \E f : Inherits(f) /\ (Encoded(f) \/ Expanded(f))
        BY <1>5, <2>2
           DEF Fingerprint, ConversionFails, Retry, EncodeFromJpeg, DecodeWebp, EncodeDirectly,
               DecodeFirst, EncodeExpanded, EncodeFlac, EncodeVideo, RecipeInv
      <3>2. PICK f : Inherits(f) /\ (Encoded(f) \/ Expanded(f))
        BY <3>1
      <3>3. CASE Encoded(f)
        <4>1. out' \in Damaged(f) /\ mid' = None /\ at' = "encoded"
          BY <3>3 DEF Encoded
        <4> QED
          BY <1>5, <3>2, <4>1 DEF Inherits
      <3>4. CASE Expanded(f)
        <4>1. mid' \in Damaged(f) /\ out' = out /\ at' = "expanded"
          BY <3>4 DEF Expanded
        <4> QED
          BY <1>5, <3>2, <4>1 DEF Inherits, RecipeInv, RecipeTypeOK
      <3> QED
        BY <3>2, <3>3, <3>4
    <2> QED
      BY <2>1, <2>2
  <1>7. RecipeTypeOK'
    BY <1>1, <1>3, <1>4, <1>6 DEF RecipeInv, RecipeTypeOK, Stages, Converting
  <1> QED
    BY <1>1, <1>2, <1>3, <1>4, <1>6, <1>7, SourceStays DEF RecipeInv, HasResult

(* What the verification lets through is what it says.                     *)
LEMMA VerifyKeeps ==
  ASSUME RecipeInv, VerifyJpeg \/ VerifyPictures \/ VerifyFlac \/ VerifyRemux
  PROVE  RecipeInv'
  <1>1. /\ at = "encoded" /\ at' = "recorded" /\ fidelity' \in {"byte_exact", "content_exact"}
        /\ UNCHANGED <<src, print, frames, mid, out, rebuilt, said>>
    BY DEF VerifyJpeg, VerifyPictures, VerifyFlac, VerifyRemux, Proven
  <1>2. src \in Sources /\ Inherits(out)
    BY <1>1 DEF RecipeInv, RecipeTypeOK, HasResult
  <1>3. fidelity' = "byte_exact" =>
          out["file"] = "own" /\ src.recipe \in {"jxl_from_jpeg"} \cup ToFlac
    BY DEF VerifyJpeg, VerifyPictures, VerifyFlac, VerifyRemux, Proven, Djxl, FlacDecode
  <1>4. ASSUME fidelity' = "content_exact"
        PROVE  \A p \in Parts \ NotCompared : out[p] = src.form[p]
    <2>0. \/ VerifyPictures
          \/ src.recipe \in ToFlac /\ Taken(Digest(out, {})) /\ Digest(out, {}) = print
          \/ VerifyRemux
      BY <1>4 DEF VerifyJpeg, VerifyFlac, Proven
    <2>1. /\ src.recipe # "jxl_from_jpeg"
          /\ \E lost : Digest(out, lost) = print
      BY <2>0 DEF VerifyPictures, VerifyRemux, Raster, ToFlac
    <2>2. src.recipe # "ts_remux" => \A s \in Digested : print[s] # None
      BY <2>0 DEF VerifyPictures, VerifyRemux, Taken
    <2>3. ASSUME NEW s \in Digested, NEW p \in PartsOf(s), p \notin NotCompared
          PROVE  out[p] = src.form[p]
      <3>1. s \in Streams
        BY <1>2, SourceFacts DEF Digested, Streams
      <3>2. print[s] # None
        BY <2>2, <2>3, <3>1 DEF NotCompared
      <3>3. print[s] \in {None, Hash(src.form, s)}
        BY <3>1 DEF RecipeInv
      <3> QED
        BY <1>2, <2>1, <2>3, <3>2, <3>3, DigestShows
    <2>4. ASSUME NEW p \in Parts, p \notin NotCompared,
                 \A s \in Digested : p \notin PartsOf(s)
          PROVE  src.form[p] = "none"
      <3>1. p \in Pictures \/ p \in Samples
        BY <2>4 DEF Parts, NotCompared
      <3>2. CASE src.recipe = "ffv1"
        <4>1. Digested = {"video"} /\ NotCompared = {"file", "faint", "sound"}
          BY <3>2 DEF Digested, NotCompared, ToFlac
        <4> QED
          BY <2>4, <3>1, <4>1 DEF PartsOf, Samples
      <3>3. CASE src.recipe \in {"jxl_from_raster", "jxl_from_webp"}
        <4>1. Digested = {"video"}
          BY <3>3 DEF Digested, ToFlac
        <4>2. p \in Samples
          BY <2>4, <3>1, <4>1 DEF PartsOf
        <4> QED
          BY <1>2, <3>3, <4>2, SourceFacts DEF ToJxl
      <3>4. CASE src.recipe \in ToFlac
        <4>1. Digested = {"audio"}
          BY <3>4 DEF Digested, ToFlac
        <4>2. p \in Pictures
          BY <2>4, <3>1, <4>1 DEF PartsOf
        <4> QED
          BY <1>2, <3>4, <4>2, SourceFacts
      <3>5. CASE src.recipe = "ts_remux"
        <4>1. Digested = {"video", "audio"}
          BY <3>5 DEF Digested, ToFlac, Streams
        <4> QED
          BY <2>4, <3>1, <4>1 DEF PartsOf
      <3> QED
        BY <1>2, <2>1, <3>2, <3>3, <3>4, <3>5, SourceFacts DEF Lossless, ToJxl
    <2>5. ASSUME NEW p \in Parts, p \notin NotCompared PROVE out[p] = src.form[p]
      <3>1. src.form[p] = "none" => out[p] = src.form[p]
        BY <1>2 DEF Inherits
      <3> QED
        BY <2>3, <2>4, <2>5, <3>1
    <2> QED
      BY <2>5
  <1>5. PromiseProven'
    <2>1. NotCompared' = NotCompared
      BY <1>1 DEF NotCompared, Digested
    <2>2. fidelity' = "content_exact" /\ src.recipe = "ts_remux" =>
            FrameCount(out) = FrameCount(src.form)
      <3>1. fidelity' = "content_exact" /\ src.recipe = "ts_remux" =>
              FrameCount(out) = frames
        BY DEF VerifyJpeg, VerifyPictures, VerifyFlac, VerifyRemux, Raster, ToFlac
      <3> QED
        BY <1>1, <3>1 DEF RecipeInv, HasResult
    <2> QED
      BY <1>1, <1>3, <1>4, <2>1, <2>2 DEF PromiseProven, FrameCount
  <1>6. RecipeTypeOK' /\ ExactStaysExact'
    BY <1>1 DEF RecipeInv, RecipeTypeOK, Stages, ExactStaysExact
  <1>7. Restorable' => src.recipe \in {"jxl_from_jpeg"} \cup ToFlac
    BY <1>3 DEF Restorable
  <1> QED
    BY <1>1, <1>2, <1>5, <1>6, <1>7, SourceStays DEF RecipeInv, HasResult

(* What was verified is rebuilt from the same bytes.                       *)
LEMMA RestoreKeeps ==
  ASSUME RecipeInv, Refuse \/ Download \/ Rebuild \/ Confirm \/ RestoreFails
  PROVE  RecipeInv'
  <1>1. /\ at \in {"recorded", "rebuilding", "confirming"}
        /\ at' \in {"recorded", "rebuilding", "confirming"}
        /\ UNCHANGED <<src, print, frames, mid, out, fidelity>>
    BY DEF Refuse, Download, Rebuild, Confirm, RestoreFails, Answer
  <1>2. src \in Sources /\ Inherits(out)
    BY <1>1 DEF RecipeInv, RecipeTypeOK, HasResult
  <1>3. /\ NotCompared' = NotCompared /\ (Restorable' <=> Restorable)
        /\ Rebuilds(out)' = Rebuilds(out)
    BY <1>1 DEF NotCompared, Digested, Restorable, Rebuilds, Djxl, FlacDecode
  <1>4. PromiseProven'
    BY <1>1, <1>3 DEF RecipeInv, PromiseProven, FrameCount
  <1>5. ASSUME Restorable
        PROVE  \A f \in Rebuilds(out) :
                 f # "own" => src.recipe = "jxl_from_jpeg" /\ src.named # "jpg"
    <2>1. out["file"] = "own" /\ src.recipe \in {"jxl_from_jpeg"} \cup ToFlac
      BY <1>5 DEF RecipeInv, PromiseProven, Restorable
    <2>2. CASE src.recipe = "jxl_from_jpeg"
      BY <2>1, <2>2 DEF Rebuilds, Djxl, ToFlac
    <2>3. CASE src.recipe \in ToFlac
      BY <2>1, <2>3 DEF Rebuilds, FlacDecode, ToFlac
    <2> QED
      BY <2>1, <2>2, <2>3
  <1>6. \A f \in Rebuilds(out) : f \in {"own", "other", "none"}
    BY <1>2 DEF Rebuilds, Djxl, FlacDecode, Inherits, Forms, Parts
  <1>7. /\ rebuilt' \in {"own", "other", None}
        /\ said' \in {"nothing", "refused", "restored", "broken", "unreachable"}
        /\ at' \in {"rebuilding", "confirming"} => Restorable
        /\ at' = "confirming" => rebuilt' \in Rebuilds(out)
        /\ ExactStaysExact'
    <2>1. CASE Refuse \/ Download \/ RestoreFails
      BY <1>1, <2>1 DEF Refuse, Download, RestoreFails, Answer, RecipeInv, RecipeTypeOK, ExactStaysExact
    <2>2. CASE Rebuild
      <3>1. Restorable
        BY <2>2 DEF Rebuild, RecipeInv
      <3> QED
        BY <1>1, <1>5, <1>6, <2>2, <3>1
           DEF Rebuild, Answer, RecipeInv, RecipeTypeOK, ExactStaysExact
    <2>3. CASE Confirm
      <3>1. Restorable /\ rebuilt \in Rebuilds(out)
        BY <2>3 DEF Confirm, RecipeInv
      <3> QED
        BY <1>1, <1>5, <2>3, <3>1
           DEF Confirm, Answer, RecipeInv, RecipeTypeOK, ExactStaysExact
    <2> QED
      BY <2>1, <2>2, <2>3
  <1>8. RecipeTypeOK'
    BY <1>1, <1>7 DEF RecipeInv, RecipeTypeOK, Stages
  <1> QED
    BY <1>1, <1>2, <1>3, <1>4, <1>7, <1>8, SourceStays DEF RecipeInv, HasResult

LEMMA NextRecipe == RecipeInv /\ [RecipeNext]_recipeVars => RecipeInv'
  <1> SUFFICES ASSUME RecipeInv, [RecipeNext]_recipeVars PROVE RecipeInv'
    OBVIOUS
  <1>1. CASE UNCHANGED recipeVars
    <2>1. UNCHANGED <<src, at, print, frames, mid, out, fidelity, rebuilt, said>>
      BY <1>1 DEF recipeVars
    <2>2. /\ NotCompared' = NotCompared /\ (Restorable' <=> Restorable)
          /\ Rebuilds(out)' = Rebuilds(out)
      BY <2>1 DEF NotCompared, Digested, Restorable, Rebuilds, Djxl, FlacDecode
    <2>3. PromiseProven' /\ ExactStaysExact' /\ RecipeTypeOK'
      BY <2>1, <2>2 DEF RecipeInv, PromiseProven, FrameCount, ExactStaysExact, RecipeTypeOK
    <2> QED
      BY <2>1, <2>2, <2>3, SourceStays DEF RecipeInv
  <1> QED
    BY <1>1, ConvertingKeeps, VerifyKeeps, RestoreKeeps DEF RecipeNext

LEMMA RecipeInvariance == RecipeSpec => []RecipeInv
  BY InitRecipe, NextRecipe, PTL DEF RecipeSpec

(* A conversion keeps its types: what restore rebuilds is a file, or the   *)
(* answer says that there is none (restore.rs, lines 63-91).               *)
THEOREM RecipeTypes == RecipeSpec => []RecipeTypeOK
  <1>1. RecipeInv => RecipeTypeOK
    BY DEF RecipeInv
  <1> QED
    BY <1>1, RecipeInvariance, PTL

(* What is recorded of a conversion is true of its bytes, for any source,  *)
(* whatever the encoders wrote and whichever calls failed (convert/mod.rs, *)
(* lines 26-42).                                                           *)
THEOREM Proves == RecipeSpec => []PromiseProven
  <1>1. RecipeInv => PromiseProven
    BY DEF RecipeInv
  <1> QED
    BY <1>1, RecipeInvariance, PTL

(* What verification found byte-exact, restore and verify find so again,   *)
(* if the file is what its name says (restore.rs, lines 50-115).           *)
THEOREM StaysExact == RecipeSpec => []ExactStaysExact
  <1>1. RecipeInv => ExactStaysExact
    BY DEF RecipeInv
  <1> QED
    BY <1>1, RecipeInvariance, PTL

-----------------------------------------------------------------------------
(* The lossy tier.                                                         *)

(* A hint belongs to the preset it was proven at.                          *)
HintAtPreset == hint # NoHint => proof.at.preset = hint.preset

(* A job that began with the hint runs at its preset, and is still at its  *)
(* first attempt if nothing changed since the hint was proven.             *)
Began ==
  origin = "hint" =>
    /\ hint # NoHint
    /\ phase # "recorded" =>
         /\ hint.preset = used.preset
         /\ proof.of = content /\ proof.at.tf = used.tf =>
              attempt = 1 /\ crf = hint.crf /\ phase \in {"encoding", "passed"}

GInv ==
  /\ TypeOK
  /\ hint # NoHint => hint.crf >= 0
  /\ phase \in {"idle", "searching"} => origin = "none"
  /\ phase \in {"encoding", "passed", "recorded", "exhausted"} => attempt >= 1
  /\ AcceptedAtGate
  /\ HintIsProven
  /\ HintAtPreset
  /\ Began

(* The hint was proven on what is encoded now.                             *)
LEMMA SameProof ==
  ASSUME GInv, hint # NoHint, hint.preset = used.preset,
         proof.of = content, proof.at.tf = used.tf
  PROVE  proof = [of |-> content, at |-> used]
  <1>1. proof.at.preset = used.preset
    BY DEF GInv, HintAtPreset
  <1>2. /\ proof.at \in [preset : Nat, tf : BOOLEAN]
        /\ used \in [preset : Nat, tf : BOOLEAN]
    BY GateAssumption DEF GInv, TypeOK
  <1>3. proof.at = used
    BY <1>1, <1>2
  <1> QED
    BY <1>3 DEF GInv, TypeOK

LEMMA HintedIsReal ==
  ASSUME TypeOK, HintApplies(used)
  PROVE  hint # NoHint
  BY GateAssumption DEF TypeOK, HintApplies, NoHint

LEMMA InitGInv == Init => GInv
  BY GateAssumption
     DEF Init, GInv, TypeOK, Phases, NoHint, AcceptedAtGate, HintIsProven, HintAtPreset, Began

LEMMA NextGInv ==
  ASSUME GInv, [Next]_vars
  PROVE  GInv'
  <1> USE GateAssumption
  <1> USE DEF GInv, Phases, Clears
  <1>1. CASE Edit
    BY <1>1 DEF Edit, job, TypeOK, AcceptedAtGate, HintIsProven, HintAtPreset, Began
  <1>2. CASE Configure
    BY <1>2 DEF Configure, job, TypeOK, AcceptedAtGate, HintIsProven, HintAtPreset, Began
  <1>3. CASE StartHinted
    <2>1. hint # NoHint
      BY <1>3, HintedIsReal DEF StartHinted
    <2>2. hint.crf \in 0 .. MaxCrf
      <3>1. hint.crf \in -1 .. MaxCrf /\ hint.crf >= 0
        BY <2>1 DEF TypeOK
      <3> QED
        BY <3>1
    <2> QED
      BY <1>3, <2>1, <2>2
         DEF StartHinted, Encode, HintApplies, TypeOK, AcceptedAtGate, HintIsProven,
             HintAtPreset, Began
  <1>4. CASE StartSearch
    BY <1>4 DEF StartSearch, TypeOK, AcceptedAtGate, HintIsProven, HintAtPreset, Began
  <1>5. CASE Search
    <2>1. PICK q \in 0 .. MaxCrf, from \in {"search", "fallback"} : Encode(q, from)
      BY <1>5 DEF Search, Answers
    <2> QED
      BY <1>5, <2>1
         DEF Search, Encode, TypeOK, AcceptedAtGate, HintIsProven, HintAtPreset, Began
  <1>6. CASE Score
    BY <1>6 DEF Score, Passes, TypeOK, AcceptedAtGate, HintIsProven, HintAtPreset, Began
  <1>7. CASE Tighten
    <2>1. Tightened \in 0 .. MaxCrf
      BY DEF Tightened, TypeOK
    <2>2. CASE Spent
      BY <1>7, <2>2, SameProof
         DEF Tighten, Passes, TypeOK, AcceptedAtGate, HintIsProven, HintAtPreset, Began
    <2>3. CASE ~Spent
      BY <1>7, <2>1, <2>3, SameProof
         DEF Tighten, Passes, Spent, TypeOK, AcceptedAtGate, HintIsProven, HintAtPreset, Began
    <2> QED
      BY <2>2, <2>3
  <1>8. CASE Record
    BY <1>8 DEF Record, RecordHint, NoHint, TypeOK, AcceptedAtGate, HintIsProven, HintAtPreset, Began
  <1>9. CASE Finish \/ GiveUp \/ Break
    <2>1. PICK s \in {"done", "skipped", "failed", "pending"} : End(s)
      BY <1>9 DEF Finish, GiveUp, Break
    <2> QED
      BY <2>1 DEF End, TypeOK, AcceptedAtGate, HintIsProven, HintAtPreset, Began
  <1>10. CASE UNCHANGED vars
    BY <1>10 DEF vars, TypeOK, AcceptedAtGate, HintIsProven, HintAtPreset, Began
  <1> QED
    BY <1>1, <1>2, <1>3, <1>4, <1>5, <1>6, <1>7, <1>8, <1>9, <1>10 DEF Next

LEMMA GateInvariance == Spec => []GInv
  <1> QED
    BY InitGInv, NextGInv, PTL DEF Spec

(* The job keeps its types: the CRF it tightens stays on the scale.        *)
THEOREM GateTypes == Spec => []TypeOK
  <1>1. GInv => TypeOK
    BY DEF GInv
  <1> QED
    BY <1>1, GateInvariance, PTL

(* Nothing is accepted on the strength of a CRF number: what leaves the    *)
(* gate clears it as the file and the settings are now (video_av1.rs,      *)
(* lines 4-6 and 227-229).                                                 *)
THEOREM Accepted == Spec => []AcceptedAtGate
  <1>1. GInv => AcceptedAtGate
    BY DEF GInv
  <1> QED
    BY <1>1, GateInvariance, PTL

(* A hint is a CRF that was proven on what it was recorded for             *)
(* (pipeline.rs, lines 467-475).                                           *)
THEOREM HintProven == Spec => []HintIsProven
  <1>1. GInv => HintIsProven
    BY DEF GInv
  <1> QED
    BY <1>1, GateInvariance, PTL

(* A job that begins with a hint proven on the same content and filtering  *)
(* clears the gate with its first encode (pipeline.rs, lines 449-453).     *)
THEOREM PaysOff == Spec => []HintPaysOff
  <1>1. GInv => HintPaysOff
    BY DEF GInv, Began, HintPaysOff
  <1> QED
    BY <1>1, GateInvariance, PTL

-----------------------------------------------------------------------------
(* What a search that answered leads to.                                   *)

(* What the samples overrated is taken back attempt by attempt.            *)
TakenBack == SearchError <= (MaxAttempts - 1) * CrfStep

Closing ==
  origin = "search" /\ phase \in {"encoding", "exhausted"} =>
    crf + (attempt - 1) * CrfStep <= ceiling[content][used] + SearchError

RInv == Closing /\ ReachesTheGate

LEMMA NextRInv ==
  ASSUME GInv, RInv, TakenBack, [Next]_vars
  PROVE  RInv'
  <1> DEFINE c == ceiling[content][used]
  <1>0. /\ crf \in Int /\ attempt \in Int /\ c \in Int
        /\ MaxAttempts \in Int /\ CrfStep \in Nat \ {0} /\ SearchError \in Nat
    BY GateAssumption DEF GInv, TypeOK
  <1>1. CASE Edit \/ Configure
    BY <1>1 DEF Edit, Configure, job, GInv, RInv, Closing, ReachesTheGate
  <1>2. CASE StartHinted \/ StartSearch
    BY <1>2 DEF StartHinted, StartSearch, Encode, RInv, Closing, ReachesTheGate
  <1>3. CASE Search
    BY <1>0, <1>3 DEF Search, Encode, Answers, RInv, Closing, ReachesTheGate
  <1>4. CASE Score \/ Record
    BY <1>4 DEF Score, Record, RInv, Closing, ReachesTheGate
  <1>5. CASE Tighten /\ Spent
    <2>1. phase' = "exhausted" /\ UNCHANGED <<ceiling, content, used, crf, attempt, origin>>
      BY <1>5 DEF Tighten
    <2>2. crf > c /\ phase = "encoding"
      BY <1>0, <1>5 DEF Tighten, Passes, Clears
    <2>3. CASE attempt = MaxAttempts
      <3>1. origin = "search" => crf + (MaxAttempts - 1) * CrfStep <= c + SearchError
        BY <2>2, <2>3 DEF RInv, Closing
      <3>2. (MaxAttempts - 1) * CrfStep \in Int
        BY <1>0
      <3>3. origin # "search"
        BY <1>0, <2>2, <3>1, <3>2 DEF TakenBack
      <3> QED
        BY <2>1, <3>3 DEF RInv, Closing, ReachesTheGate
    <2>4. CASE Tightened = 0
      <3>1. crf <= CrfStep
        BY <1>0, <2>4 DEF Tightened
      <3>2. c < CrfStep
        BY <1>0, <2>2, <3>1
      <3> QED
        BY <2>1, <2>2, <3>2 DEF RInv, Closing, ReachesTheGate
    <2> QED
      BY <1>5, <2>3, <2>4 DEF Spent
  <1>6. CASE Tighten /\ ~Spent
    <2>1. /\ phase = "encoding" /\ phase' = "encoding"
          /\ crf' = crf - CrfStep /\ attempt' = attempt + 1
          /\ UNCHANGED <<ceiling, content, used, origin>>
      BY <1>0, <1>6 DEF Tighten, Spent, Tightened
    <2>2. crf' + (attempt' - 1) * CrfStep = crf + (attempt - 1) * CrfStep
      BY <1>0, <2>1
    <2> QED
      BY <2>1, <2>2 DEF RInv, Closing, ReachesTheGate
  <1>7. CASE Finish \/ GiveUp \/ Break
    BY <1>7 DEF Finish, GiveUp, Break, End, RInv, Closing, ReachesTheGate
  <1>8. CASE UNCHANGED vars
    BY <1>8 DEF vars, RInv, Closing, ReachesTheGate
  <1> QED
    BY <1>1, <1>2, <1>3, <1>4, <1>5, <1>6, <1>7, <1>8 DEF Next

(* If the samples overrate a CRF by no more than the attempts take back, a *)
(* job that began with a search gives up only on a file that no CRF of     *)
(* CrfStep or more suits (video_av1.rs, lines 246-279).                    *)
THEOREM GateReached ==
  ASSUME TakenBack
  PROVE  Spec => []ReachesTheGate
  <1>1. Init => RInv
    BY DEF Init, RInv, Closing, ReachesTheGate
  <1>2. GInv /\ RInv /\ [Next]_vars => RInv'
    BY NextRInv
  <1>3. RInv => ReachesTheGate
    BY DEF RInv
  <1> QED
    BY <1>1, <1>2, <1>3, GateInvariance, PTL DEF Spec

-----------------------------------------------------------------------------
(* The decision table (modules Policy and Verdict).                        *)

(* Of rules the last of which always applies one is first, and gives the   *)
(* verdict.                                                                *)
LEMMA FirstRule ==
  ASSUME NEW rules, NEW n \in Nat \ {0}, DOMAIN rules = 1 .. n, rules[n].applies
  PROVE  \E i \in 1 .. n :
           /\ rules[i].applies /\ \A m \in 1 .. i - 1 : ~rules[m].applies
           /\ FirstOf(rules) = rules[i].verdict
  <1> DEFINE applying == {i \in 1 .. n : rules[i].applies}
             Is(i) == rules[i].applies /\ \A m \in 1 .. i - 1 : ~rules[m].applies
  <1>1. applying \subseteq Nat /\ applying # {}
    OBVIOUS
  <1>2. \E i \in applying : \A m \in applying : ~ (<<m, i>> \in OpToRel(<, Nat))
    BY <1>1, WFMin, NatLessThanWellFounded, Zenon
  <1>3. \E i \in applying : \A m \in applying : ~ (m < i)
    BY <1>1, <1>2, Zenon DEF OpToRel
  <1>4. \E i \in DOMAIN rules : Is(i)
    BY <1>3
  <1>5. /\ (CHOOSE i \in DOMAIN rules : Is(i)) \in DOMAIN rules
        /\ Is(CHOOSE i \in DOMAIN rules : Is(i))
    BY <1>4
  <1> QED
    BY <1>5 DEF FirstOf

(* What a file is taken for, as a ladder of conditions.                    *)
LEMMA KindCases ==
  ASSUME NEW f, NEW seen
  PROVE  KindOf(f, seen) =
           IF ~seen.head THEN f.named
           ELSE IF f.named = "mpegts" /\ f.holds # "mpegts" THEN "other"
           ELSE IF f.named \in Images /\ f.holds \in Images THEN f.holds
           ELSE f.named
  <1> DEFINE image == f.named \in Images /\ f.holds \in Images
             rules == << Rule(~seen.head, f.named),
             Rule(f.named = "mpegts" /\ f.holds # "mpegts", "other"),
             Rule(image, f.holds),
             Rule(TRUE, f.named) >>
  <1>1. DOMAIN rules = 1..4
    OBVIOUS
  <1>2. /\ rules[1].applies <=> ~seen.head
        /\ rules[2].applies <=> f.named = "mpegts" /\ f.holds # "mpegts"
        /\ rules[3].applies <=> image
        /\ rules[4].applies
        /\ rules[1].verdict = f.named /\ rules[2].verdict = "other"
        /\ rules[3].verdict = f.holds /\ rules[4].verdict = f.named
    BY DEF Rule
  <1>3. KindOf(f, seen) = FirstOf(rules)
    BY DEF KindOf
  <1> HIDE DEF rules
  <1>4. PICK i \in 1..4 :
           /\ rules[i].applies /\ \A m \in 1 .. i - 1 : ~rules[m].applies
           /\ FirstOf(rules) = rules[i].verdict
    <2>1. rules[4].applies /\ 4 \in Nat \ {0}
      BY <1>2
    <2> QED
      BY <1>1, <2>1, FirstRule, Zenon
  <1> QED
    BY <1>2, <1>3, <1>4

(* The rules for video, as a ladder of conditions.                         *)
LEMMA VideoCases ==
  ASSUME NEW kind, NEW f, NEW seen, NEW l
  PROVE  DecideVideo(kind, f, seen, l) =
           IF ~l.video THEN "video_tier_disabled"
           ELSE IF ~seen.probe THEN "needs_probe"
           ELSE IF f.streams = 0 THEN "unsupported"
           ELSE IF f.streams > 1 THEN "video_complex_structure"
           ELSE IF f.codec = "lossless" THEN "ffv1"
           ELSE IF f.hdr THEN Declined(kind, "video_hdr")
           ELSE IF f.codec = "av1" THEN Declined(kind, "video_already_av1")
           ELSE IF TooShort(f, l) THEN Declined(kind, "video_too_short")
           ELSE IF f.lean THEN Declined(kind, "video_low_bitrate")
           ELSE IF ~l.av1 THEN Declined(kind, "av1_tier_disabled")
           ELSE "av1"
  <1> DEFINE rules == << Rule(~l.video, "video_tier_disabled"),
                         Rule(~seen.probe, "needs_probe"),
                         Rule(f.streams = 0, "unsupported"),
                         Rule(f.streams > 1, "video_complex_structure"),
                         Rule(f.codec = "lossless", "ffv1"),
                         Rule(f.hdr, Declined(kind, "video_hdr")),
                         Rule(f.codec = "av1", Declined(kind, "video_already_av1")),
                         Rule(TooShort(f, l), Declined(kind, "video_too_short")),
                         Rule(f.lean, Declined(kind, "video_low_bitrate")),
                         Rule(~l.av1, Declined(kind, "av1_tier_disabled")),
                         Rule(TRUE, "av1") >>
  <1>1. DOMAIN rules = 1 .. 11
    OBVIOUS
  <1>2. /\ rules[1].applies <=> ~l.video
        /\ rules[2].applies <=> ~seen.probe
        /\ rules[3].applies <=> f.streams = 0
        /\ rules[4].applies <=> f.streams > 1
        /\ rules[5].applies <=> f.codec = "lossless"
        /\ rules[6].applies <=> f.hdr
        /\ rules[7].applies <=> f.codec = "av1"
        /\ rules[8].applies <=> TooShort(f, l)
        /\ rules[9].applies <=> f.lean
        /\ rules[10].applies <=> ~l.av1
        /\ rules[11].applies
    BY DEF Rule
  <1>3. /\ rules[1].verdict = "video_tier_disabled"
        /\ rules[2].verdict = "needs_probe"
        /\ rules[3].verdict = "unsupported"
        /\ rules[4].verdict = "video_complex_structure"
        /\ rules[5].verdict = "ffv1"
        /\ rules[6].verdict = Declined(kind, "video_hdr")
        /\ rules[7].verdict = Declined(kind, "video_already_av1")
        /\ rules[8].verdict = Declined(kind, "video_too_short")
        /\ rules[9].verdict = Declined(kind, "video_low_bitrate")
        /\ rules[10].verdict = Declined(kind, "av1_tier_disabled")
        /\ rules[11].verdict = "av1"
    BY DEF Rule
  <1>4. DecideVideo(kind, f, seen, l) = FirstOf(rules)
    BY DEF DecideVideo
  <1> HIDE DEF rules
  <1>5. PICK i \in 1 .. 11 :
           /\ rules[i].applies /\ \A m \in 1 .. i - 1 : ~rules[m].applies
           /\ FirstOf(rules) = rules[i].verdict
    <2>1. rules[11].applies /\ 11 \in Nat \ {0}
      BY <1>2
    <2> QED
      BY <1>1, <2>1, FirstRule, Zenon
  <1> QED
    BY <1>2, <1>3, <1>4, <1>5

(* The decision table, as a ladder of conditions.                          *)
LEMMA DecideCases ==
  ASSUME NEW f, NEW seen, NEW l
  PROVE  LET kind == KindOf(f, seen) IN
         Decide(f, seen, l) =
           IF f.size < MinUsefulBytes THEN "too_small"
           ELSE IF f.size > l.maxSize THEN "too_large_for_budget"
           ELSE IF kind = "jpeg" THEN "jxl_from_jpeg"
           ELSE IF kind = "webp" /\ ~seen.head THEN "needs_probe"
           ELSE IF kind = "webp" /\ f.lossless THEN "jxl_from_webp"
           ELSE IF kind = "webp" THEN "lossy_no_gain"
           ELSE IF kind = "raster" THEN "jxl_from_raster"
           ELSE IF kind = "efficient" THEN "already_optimal"
           ELSE IF kind = "pcm" THEN "flac"
           ELSE IF kind = "flac" THEN "flac_recompress"
           ELSE IF kind = "m4a" /\ ~seen.probe THEN "needs_probe"
           ELSE IF kind = "m4a" /\ f.lossless THEN "flac_recompress"
           ELSE IF kind \in {"m4a", "lossy_audio"} THEN "lossy_no_gain"
           ELSE IF kind \in Videos THEN DecideVideo(kind, f, seen, l)
           ELSE "unsupported"
  <1> DEFINE kind == KindOf(f, seen)
             rules == << Rule(f.size < MinUsefulBytes, "too_small"),
                         Rule(f.size > l.maxSize, "too_large_for_budget"),
                         Rule(kind = "jpeg", "jxl_from_jpeg"),
                         Rule(kind = "webp" /\ ~seen.head, "needs_probe"),
                         Rule(kind = "webp" /\ f.lossless, "jxl_from_webp"),
                         Rule(kind = "webp", "lossy_no_gain"),
                         Rule(kind = "raster", "jxl_from_raster"),
                         Rule(kind = "efficient", "already_optimal"),
                         Rule(kind = "pcm", "flac"),
                         Rule(kind = "flac", "flac_recompress"),
                         Rule(kind = "m4a" /\ ~seen.probe, "needs_probe"),
                         Rule(kind = "m4a" /\ f.lossless, "flac_recompress"),
                         Rule(kind \in {"m4a", "lossy_audio"}, "lossy_no_gain"),
                         Rule(kind \in Videos, DecideVideo(kind, f, seen, l)),
                         Rule(TRUE, "unsupported") >>
  <1>1. DOMAIN rules = 1 .. 15
    OBVIOUS
  <1>2. /\ rules[1].applies <=> f.size < MinUsefulBytes
        /\ rules[2].applies <=> f.size > l.maxSize
        /\ rules[3].applies <=> kind = "jpeg"
        /\ rules[4].applies <=> kind = "webp" /\ ~seen.head
        /\ rules[5].applies <=> kind = "webp" /\ f.lossless
        /\ rules[6].applies <=> kind = "webp"
        /\ rules[7].applies <=> kind = "raster"
        /\ rules[8].applies <=> kind = "efficient"
        /\ rules[9].applies <=> kind = "pcm"
        /\ rules[10].applies <=> kind = "flac"
        /\ rules[11].applies <=> kind = "m4a" /\ ~seen.probe
        /\ rules[12].applies <=> kind = "m4a" /\ f.lossless
        /\ rules[13].applies <=> kind \in {"m4a", "lossy_audio"}
        /\ rules[14].applies <=> kind \in Videos
        /\ rules[15].applies
    BY DEF Rule
  <1>3. /\ rules[1].verdict = "too_small"
        /\ rules[2].verdict = "too_large_for_budget"
        /\ rules[3].verdict = "jxl_from_jpeg"
        /\ rules[4].verdict = "needs_probe"
        /\ rules[5].verdict = "jxl_from_webp"
        /\ rules[6].verdict = "lossy_no_gain"
        /\ rules[7].verdict = "jxl_from_raster"
        /\ rules[8].verdict = "already_optimal"
        /\ rules[9].verdict = "flac"
        /\ rules[10].verdict = "flac_recompress"
        /\ rules[11].verdict = "needs_probe"
        /\ rules[12].verdict = "flac_recompress"
        /\ rules[13].verdict = "lossy_no_gain"
        /\ rules[14].verdict = DecideVideo(kind, f, seen, l)
        /\ rules[15].verdict = "unsupported"
    BY DEF Rule
  <1>4. Decide(f, seen, l) = FirstOf(rules)
    BY DEF Decide
  <1> HIDE DEF rules
  <1>5. PICK i \in 1 .. 15 :
           /\ rules[i].applies /\ \A m \in 1 .. i - 1 : ~rules[m].applies
           /\ FirstOf(rules) = rules[i].verdict
    <2>1. rules[15].applies /\ 15 \in Nat \ {0}
      BY <1>2
    <2> QED
      BY <1>1, <2>1, FirstRule, Zenon
  <1> QED
    BY <1>2, <1>3, <1>4, <1>5

(* What is encoded with loss was not so before.                            *)
LEMMA NeverTwice ==
  ASSUME NEW f \in File, NEW seen, NEW l, Decide(f, seen, l) = "av1"
  PROVE  f.codec # "av1"
  BY DecideCases, VideoCases DEF Declined

(* Who is probed has a probe where the table asks for one.                 *)
LEMMA ProbedInTime ==
  ASSUME NEW f \in File, NEW l,
         Decide(f, [head |-> TRUE, probe |-> f.named \in Videos \cup {"m4a"}], l) = "needs_probe"
  PROVE  FALSE
  <1> DEFINE seen == [head |-> TRUE, probe |-> f.named \in Videos \cup {"m4a"}]
             kind == KindOf(f, seen)
  <1>1. seen.head /\ (seen.probe <=> f.named \in Videos \cup {"m4a"})
    OBVIOUS
  <1>2. kind \in Videos \cup {"m4a"} => kind = f.named
    BY <1>1, KindCases DEF Images, Videos
  <1>3. Decide(f, seen, l) = "needs_probe"
    OBVIOUS
  <1> HIDE DEF seen
  <1>4. DecideVideo(kind, f, seen, l) = "needs_probe" => ~seen.probe
    BY VideoCases DEF Declined
  <1> QED
    BY <1>1, <1>2, <1>3, <1>4, DecideCases DEF Videos

(* What was skipped for a reason that a run does not take up again is      *)
(* skipped under its settings, too.                                        *)
LEMMA SkipStands ==
  ASSUME NEW f \in File, NEW seen \in [head : BOOLEAN, probe : BOOLEAN],
         NEW l \in Limit, NEW s \in Limit,
         Decide(f, seen, l) \in SkipReasons \ {"needs_probe"},
         Decide(f, seen, l) \notin ReopenedBy(s)
  PROVE  Decide(f, seen, s) \in SkipReasons \ {"needs_probe"}
  <1> DEFINE kind == KindOf(f, seen)
             was  == DecideVideo(kind, f, seen, l)
             now  == DecideVideo(kind, f, seen, s)
  <1>1. ASSUME was \in SkipReasons \ {"needs_probe"}, was \notin ReopenedBy(s)
        PROVE  now \in SkipReasons \ {"needs_probe"}
    BY <1>1, VideoCases DEF Declined, SkipReasons, TierReasons, ReopenedBy, DependsOnSettings, Limit
  <1>2. Decide(f, seen, l) # "too_large_for_budget"
    BY DEF ReopenedBy, DependsOnSettings, TierReasons
  <1> HIDE DEF was, now, kind
  <1>3. CASE f.size < MinUsefulBytes \/ f.size > s.maxSize
    <2>1. Decide(f, seen, s) \in {"too_small", "too_large_for_budget"}
      BY <1>3, DecideCases
    <2> QED
      BY <2>1 DEF SkipReasons
  <1>4. CASE ~(f.size < MinUsefulBytes) /\ ~(f.size > s.maxSize)
    <2>1. ~(f.size > l.maxSize)
      BY <1>2, <1>4, DecideCases
    <2>2. CASE kind \in Videos
      <3>1. Decide(f, seen, l) = was /\ Decide(f, seen, s) = now
        BY <1>4, <2>1, <2>2, DecideCases DEF Videos, kind, was, now
      <3> QED
        BY <1>1, <3>1
    <2>3. CASE kind \notin Videos
      <3>1. Decide(f, seen, s) = Decide(f, seen, l)
        BY <1>4, <2>1, <2>3, DecideCases DEF kind
      <3> QED
        BY <3>1
    <2> QED
      BY <2>2, <2>3
  <1> QED
    BY <1>3, <1>4

(* Every recipe has a peak.                                                *)
LEMMA PeakIsNumber ==
  ASSUME NEW name, NEW keepSource
  PROVE  PeakHundredths(name, keepSource) \in Nat
  <1> DEFINE rules == << Rule(name \in JxlRecipes, 180),
                         Rule(name \in {"flac", "flac_recompress"}, 150),
                         Rule(name = "ts_remux", 195),
                         Rule(name = "ffv1", 250),
                         Rule(TRUE, 165) >>
  <1>1. DOMAIN rules = 1 .. 5 /\ \A i \in 1 .. 5 : rules[i].verdict \in Nat
    BY DEF Rule
  <1>2. rules[5].applies /\ 5 \in Nat \ {0}
    BY DEF Rule
  <1>3. PeakHundredths(name, keepSource)
          \in {FirstOf(rules), FirstOf(rules) + 100}
    BY DEF PeakHundredths
  <1> HIDE DEF rules
  <1>4. PICK i \in 1 .. 5 : FirstOf(rules) = rules[i].verdict
    BY <1>1, <1>2, FirstRule, Zenon
  <1> QED
    BY <1>1, <1>3, <1>4

-----------------------------------------------------------------------------
(* Neither Reconsidered nor OneLossyPass is inductive: the first takes     *)
(* that a skip stands under all settings that would not reopen it, and not *)
(* only under those it was given; the second that a job with an AV1        *)
(* verdict has a file that is not AV1.                                     *)
Kept ==
  /\ VerdictTypeOK
  /\ file \in File
  /\ entry \in [state : {"pending", "claimed", "done", "skipped", "failed"},
                 reason : SkipReasons \cup {"none"}]

(* A file that was encoded with loss shows it, and is not about to be      *)
(* encoded so again.                                                       *)
Once ==
  /\ lossyPasses \in 0 .. 1
  /\ lossyPasses = 1 => file.codec = "av1"
  /\ stage = "converting" /\ recipe = "av1" => file.codec # "av1"

OnceInv == Kept /\ Once

(* The settings under which the file is not converted.                     *)
Against == {s \in Limits : ~WouldConvert(s)}

(* A skip stands under the settings of the run that is on, and under all   *)
(* those that would not take it up again.                                  *)
Barred ==
  entry.state = "skipped" /\ entry.reason # "no_gain" =>
    /\ limits \in Against
    /\ \A s \in Limits : entry.reason \notin ReopenedBy(s) => s \in Against

VerdictInv == OnceInv /\ Barred

LEMMA InitVerdict == VerdictInit => VerdictInv
  BY VerdictAssumption
  DEF VerdictInit, VerdictInv, OnceInv, Kept, Once, Barred, VerdictTypeOK, Pending, File, SkipReasons,
      Recipes, NoRecipe

(* A verdict is a recipe or a reason, and nothing is both.                 *)
LEMMA Apart == Recipes \cap (SkipReasons \cup {NoRecipe}) = {} /\ "none" \notin SkipReasons
  BY DEF Recipes, JxlRecipes, SkipReasons, TierReasons, NoRecipe

LEMMA NextOnce ==
  ASSUME OnceInv, [VerdictNext]_verdictVars
  PROVE  OnceInv'
  <1> USE DEF OnceInv, Kept, Once, VerdictTypeOK
  <1>1. ASSUME NEW settings \in Limits, NEW retry \in BOOLEAN, Begin(settings, retry)
        PROVE  OnceInv'
    BY <1>1 DEF Begin, Pending
  <1>2. ASSUME Cancel \/ PassOver \/ Rescan
        PROVE  OnceInv'
    BY <1>2 DEF Cancel, PassOver, Rescan, Pending
  <1>3. ASSUME JudgeByName
        PROVE  OnceInv'
    BY <1>3 DEF JudgeByName, EndAs, Skipped, Provisional, SkipReasons, Recipes
  <1>4. ASSUME JudgeByContent
        PROVE  OnceInv'
    BY <1>4, NeverTwice DEF JudgeByContent, EndAs, Skipped
  <1>5. ASSUME Convert
        PROVE  OnceInv'
    <2>1. PICK size \in 0 .. file.size : file' = [OutputOf(recipe) EXCEPT !.size = size]
      BY <1>5 DEF Convert
    <2>2. /\ OutputOf(recipe) \in File
          /\ recipe = "av1" \/ file.codec = "av1" => OutputOf(recipe).codec = "av1"
      BY DEF OutputOf, File, Kinds, Images, Videos, Codecs
    <2>3. file' \in File /\ (recipe = "av1" \/ file.codec = "av1" => file'.codec = "av1")
      BY <2>1, <2>2 DEF File
    <2>4. file'.named \in Kinds /\ file'.holds \in Kinds \cup {"unknown"} /\ file'.codec \in Codecs
      BY <2>3 DEF File
    <2> QED
      BY <1>5, <2>3, <2>4 DEF Convert
  <1>6. ASSUME NoGain \/ Fails
        PROVE  OnceInv'
    BY <1>6 DEF NoGain, Fails, EndAs, Skipped, Pending, SkipReasons
  <1>7. CASE UNCHANGED verdictVars
    BY <1>7 DEF verdictVars
  <1> QED
    BY <1>1, <1>2, <1>3, <1>4, <1>5, <1>6, <1>7 DEF VerdictNext

(* What is thought of a file changes with the file only.                   *)
LEMMA SameFile == UNCHANGED file => UNCHANGED Against
  BY DEF Against, WouldConvert, Probed

(* The file is judged, with a verdict that is not taken up under s.        *)
LEMMA Unmoved ==
  ASSUME OnceInv, NEW seen \in [head : BOOLEAN, probe : BOOLEAN], NEW s \in Limits,
         Decide(file, seen, limits) \in SkipReasons \ {"needs_probe"},
         Decide(file, seen, limits) \notin ReopenedBy(s)
  PROVE  Decide(file, seen, s) \in SkipReasons \ {"needs_probe"}
  <1>1. file \in File /\ limits \in Limit /\ s \in Limit
    BY VerdictAssumption DEF OnceInv, Kept, VerdictTypeOK
  <1> QED
    BY <1>1, SkipStands

LEMMA NextBarred ==
  ASSUME OnceInv, Barred, [VerdictNext]_verdictVars, ~ProbeFails
  PROVE  Barred'
  <1>0. limits \in Limits
    BY DEF OnceInv, Kept, VerdictTypeOK
  <1>1. ASSUME NEW settings \in Limits, NEW retry \in BOOLEAN, Begin(settings, retry)
        PROVE  Barred'
    <2>1. UNCHANGED Against /\ limits' = settings /\ entry' \in {entry, Pending}
      BY <1>1, SameFile DEF Begin
    <2>2. entry' = entry /\ entry.state = "skipped" => entry.reason \notin ReopenedBy(settings)
      BY <1>1 DEF Begin, Pending
    <2> QED
      BY <2>1, <2>2 DEF Barred, Pending
  <1>2. ASSUME Cancel \/ PassOver \/ Rescan
        PROVE  Barred'
    <2>1. UNCHANGED <<Against, limits>> /\ entry' \in {entry, Pending}
      BY <1>2, SameFile DEF Cancel, PassOver, Rescan
    <2> QED
      BY <2>1 DEF Barred, Pending
  <1>3. ASSUME JudgeByName
        PROVE  Barred'
    <2> DEFINE verdict == Decide(file, Unseen, limits)
               tooBig  == Reservation(Provisional(verdict), file.size, limits.keepSource)
                            > 100 * limits.budget
    <2>1. CASE verdict \in SkipReasons \ {"needs_probe"} /\ EndAs(Skipped(verdict))
      <3>1. ASSUME NEW s \in Limits, Decide(file, Unseen, s) \in SkipReasons \ {"needs_probe"}
            PROVE  s \in Against
        BY <3>1, Apart DEF Against, WouldConvert
      <3>2. ASSUME NEW s \in Limits, verdict \notin ReopenedBy(s) PROVE s \in Against
        BY <2>1, <3>1, <3>2, Unmoved DEF Unseen
      <3>3. limits \in Against
        BY <1>0, <2>1, <3>1
      <3>4. UNCHANGED <<Against, limits>> /\ entry'.reason = verdict
        BY <2>1, SameFile DEF EndAs, Skipped
      <3> QED
        BY <3>2, <3>3, <3>4 DEF Barred
    <2>2. CASE EndAs(Skipped("too_large_for_budget")) /\ tooBig
      <3>1. \A s \in Limits : "too_large_for_budget" \in ReopenedBy(s)
        BY DEF ReopenedBy, DependsOnSettings, TierReasons
      <3>2. ~(Reservation(Provisional(verdict), file.size, limits.keepSource)
                <= 100 * limits.budget)
        <4>1. limits.budget \in Nat /\ file.size \in Nat
          BY <1>0, VerdictAssumption DEF Limit, OnceInv, Kept, File
        <4>2. Reservation(Provisional(verdict), file.size, limits.keepSource) \in Nat
          <5>1. PeakHundredths(Provisional(verdict), limits.keepSource) \in Nat
            BY PeakIsNumber
          <5> QED
            BY <4>1, <5>1 DEF Reservation
        <4> QED
          BY <2>2, <4>1, <4>2
      <3>3. limits \in Against
        BY <1>0, <3>2 DEF Against, WouldConvert
      <3>4. UNCHANGED <<Against, limits>> /\ entry'.reason = "too_large_for_budget"
        BY <2>2, SameFile DEF EndAs, Skipped
      <3> QED
        BY <3>1, <3>3, <3>4 DEF Barred
    <2>3. CASE entry' = [entry EXCEPT !.state = "claimed"]
      BY <2>3 DEF Barred, OnceInv, Kept
    <2> QED
      BY <1>3, <2>1, <2>2, <2>3 DEF JudgeByName
  <1>4. ASSUME JudgeByContent
        PROVE  Barred'
    <2> DEFINE seen == [head |-> TRUE, probe |-> Probed]
               verdict == Decide(file, seen, limits)
    <2>1. CASE verdict \in SkipReasons /\ EndAs(Skipped(verdict))
      <3>1. verdict # "needs_probe"
        BY ProbedInTime DEF Probed, OnceInv, Kept
      <3>2. ASSUME NEW s \in Limits, Decide(file, seen, s) \in SkipReasons
            PROVE  s \in Against
        BY <3>2, Apart DEF Against, WouldConvert
      <3>3. ASSUME NEW s \in Limits, verdict \notin ReopenedBy(s) PROVE s \in Against
        <4>1. seen \in [head : BOOLEAN, probe : BOOLEAN]
          BY DEF Probed
        <4> HIDE DEF seen
        <4> QED
          BY <2>1, <3>1, <3>2, <3>3, <4>1, Unmoved
      <3>4. limits \in Against
        BY <1>0, <2>1, <3>2
      <3>5. UNCHANGED <<Against, limits>> /\ entry'.reason = verdict
        BY <2>1, SameFile DEF EndAs, Skipped
      <3> HIDE DEF verdict
      <3> QED
        BY <3>3, <3>4, <3>5 DEF Barred
    <2>2. CASE UNCHANGED <<file, entry, limits>>
      BY <2>2, SameFile DEF Barred
    <2> QED
      BY <1>4, <2>1, <2>2 DEF JudgeByContent
  <1>5. ASSUME Convert \/ NoGain \/ Fails
        PROVE  Barred'
    BY <1>5 DEF Convert, NoGain, Fails, EndAs, Skipped, Pending, Barred
  <1>6. CASE UNCHANGED verdictVars
    BY <1>6, SameFile DEF verdictVars, Barred
  <1> QED
    BY <1>1, <1>2, <1>3, <1>4, <1>5, <1>6 DEF VerdictNext

LEMMA OnceInvariance == VerdictSpec => []OnceInv
  <1>1. VerdictInit => OnceInv
    BY InitVerdict DEF VerdictInv
  <1> QED
    BY <1>1, NextOnce, PTL DEF VerdictSpec

(* The verdict of a file keeps its types: a row is claimed while its job   *)
(* judges or converts it, and no longer (pipeline.rs, lines 325-340).      *)
THEOREM VerdictTypes == VerdictSpec => []VerdictTypeOK
  <1>1. OnceInv => VerdictTypeOK
    BY DEF OnceInv, Kept
  <1> QED
    BY <1>1, OnceInvariance, PTL

(* No file is encoded with loss twice, whatever it is converted into,      *)
(* scanned as and judged under (policy.rs, lines 416-494).                 *)
THEOREM LossyOnce == VerdictSpec => []OneLossyPass
  <1>1. OnceInv => OneLossyPass
    BY DEF OnceInv, Once, OneLossyPass
  <1> QED
    BY <1>1, OnceInvariance, PTL

(* A skip that the settings caused does not outlive them, if a probe does  *)
(* not fail on a file it can read (policy.rs, lines 166-208).              *)
THEOREM Reconsiders ==
  ASSUME ~ProbeFails
  PROVE  VerdictSpec => []Reconsidered
  <1>1. VerdictInit => VerdictInv
    BY InitVerdict
  <1>2. VerdictInv /\ [VerdictNext]_verdictVars => VerdictInv'
    BY NextOnce, NextBarred DEF VerdictInv
  <1>3. VerdictInv => Reconsidered
    BY DEF VerdictInv, Barred, Reconsidered, Against
  <1> QED
    BY <1>1, <1>2, <1>3, PTL DEF VerdictSpec
=============================================================================
