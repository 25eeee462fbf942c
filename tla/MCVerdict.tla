----------------------------- MODULE MCVerdict -----------------------------
(***************************************************************************)
(* Every kind of file the decision table tells apart, each with the        *)
(* content its name promises and with content it does not, and settings    *)
(* that differ in every limit.                                             *)
(***************************************************************************)
EXTENDS Verdict

Plain == [ size |-> 2, named |-> "other", holds |-> "unknown", lossless |-> FALSE,
           streams |-> 0, codec |-> "lossy", hdr |-> FALSE, lean |-> FALSE,
           secs |-> NoDuration ]

ImageFiles ==
  {[Plain EXCEPT !.named = n, !.holds = h, !.lossless = l] :
     n \in Images, h \in Images \cup {"unknown"}, l \in BOOLEAN}

AudioFiles ==
  {[Plain EXCEPT !.named = n, !.lossless = l] :
     n \in {"pcm", "flac", "m4a", "lossy_audio", "other"}, l \in BOOLEAN}

VideoFiles ==
  {[Plain EXCEPT !.named = n, !.holds = h, !.streams = k, !.codec = c, !.hdr = b,
                 !.lean = lean, !.secs = s] :
     n \in Videos, h \in {"mpegts", "unknown"}, k \in 0..2, c \in Codecs,
     b \in BOOLEAN, lean \in BOOLEAN, s \in {1, 3, NoDuration}}

MCFiles == UNION {ImageFiles, AudioFiles, VideoFiles}
             \cup {[f EXCEPT !.size = 0] : f \in ImageFiles}

Tiers == {t \in [video : BOOLEAN, av1 : BOOLEAN] : t.av1 => t.video}

(* With room for one file that keeps its source, and not for others.       *)
Tight ==
  {[ video |-> TRUE, av1 |-> TRUE, minSecs |-> 0, maxSize |-> 2,
     budget |-> b, keepSource |-> k ] : b \in {2, 4, 8}, k \in BOOLEAN}

MCLimits ==
  Tight \cup
  {[ video |-> t.video, av1 |-> t.av1, minSecs |-> m, maxSize |-> z,
     budget |-> 4, keepSource |-> FALSE ] : t \in Tiers, m \in {0, 2}, z \in {1, 4}}
=============================================================================
