------------------------------ MODULE Av1Gate ------------------------------
(***************************************************************************)
(* The one lossy tier, over the jobs one file meets: search for a CRF or   *)
(* take the one on record, encode, score the whole result, tighten and try *)
(* again, give up after a few attempts; and the hint a later run starts    *)
(* from (encode_to_gate in convert/video_av1.rs, its caller in pipeline.rs *)
(* and crf_hint in ledger.rs).                                             *)
(*                                                                         *)
(* Whether an encode clears the VMAF gate is one number for each content   *)
(* and encoder settings: the highest CRF whose encode does.                *)
(***************************************************************************)
EXTENDS Integers

CONSTANTS
  Contents,      \* what may be stored under the path
  Settings,      \* encoder settings: [preset, tf], tf the temporal filtering
  MaxCrf,        \* 63
  FallbackCrf,   \* FALLBACK_CRF
  CrfStep,       \* CRF_STEP
  MaxAttempts,   \* MAX_ATTEMPTS
  SearchError    \* by how much the samples may overrate a CRF

ASSUME GateAssumption ==
  /\ Settings \subseteq [preset : Nat, tf : BOOLEAN]
  /\ MaxCrf \in Nat /\ FallbackCrf \in 1 .. MaxCrf
  /\ CrfStep \in Nat \ {0} /\ MaxAttempts \in Nat \ {0}
  /\ SearchError \in Nat

VARIABLES
  ceiling,   \* the highest CRF that clears the gate; below 0, none does
  content,   \* what is stored now
  row,       \* state of the row
  hint,      \* crf_hint, crf_hint_preset
  used,      \* the settings of this run, or of the last one
  phase,     \* where the job is
  crf,       \* the CRF of this attempt
  attempt,   \* the number of this attempt
  origin,    \* what the first CRF of this job came from
  proof      \* what the hint was proven on: a content and settings

vars == <<ceiling, content, row, hint, used, phase, crf, attempt, origin, proof>>
job  == <<phase, crf, attempt, origin>>

NoHint == [crf |-> -1, preset |-> -1]

Clears(c, s, q) == q <= ceiling[c][s]

Init ==
  /\ ceiling \in [Contents -> [Settings -> -1 .. MaxCrf]]
  /\ content \in Contents
  /\ row = "pending"
  /\ hint = NoHint
  /\ used \in Settings
  /\ phase = "idle" /\ crf = 0 /\ attempt = 0 /\ origin = "none"
  /\ proof \in [of : Contents, at : Settings]

-----------------------------------------------------------------------------
(* Between two jobs.                                                       *)

(* A scan finds the path changed: its row starts over, but keeps its hint. *)
Edit ==
  /\ phase = "idle"
  /\ \E c \in Contents \ {content} : content' = c
  /\ row' = "pending"
  /\ UNCHANGED <<ceiling, hint, used, job, proof>>

(* A run with settings of its own, perhaps with --retry-failed.            *)
Configure ==
  /\ phase = "idle"
  /\ used' \in Settings
  /\ \/ row' = row
     \/ row = "failed" /\ row' = "pending"
  /\ UNCHANGED <<ceiling, content, hint, job, proof>>

-----------------------------------------------------------------------------
(* One job.                                                                *)

(* mutant: a hint found at another preset is taken as well                 *)
AnyHint(s) == hint # NoHint

(* Only for the preset it was found at.                                    *)
HintApplies(s) == hint.preset = s.preset

Encode(q, from) ==
  /\ phase' = "encoding"
  /\ crf' = q
  /\ attempt' = 1
  /\ origin' = from

(* What crf-search may answer: the samples show every CRF that clears the  *)
(* gate to clear it, and perhaps some that do not.                         *)
Answers == {q \in 0 .. MaxCrf : /\ ceiling[content][used] >= 0
                                /\ q >= ceiling[content][used]
                                /\ q <= ceiling[content][used] + SearchError}

(* Claimed; a hint is worth more than a search.                            *)
StartHinted ==
  /\ phase = "idle" /\ row = "pending"
  /\ HintApplies(used)
  /\ row' = "claimed"
  /\ Encode(hint.crf, "hint")
  /\ UNCHANGED <<ceiling, content, hint, used, proof>>

StartSearch ==
  /\ phase = "idle" /\ row = "pending"
  /\ ~HintApplies(used)
  /\ row' = "claimed"
  /\ phase' = "searching"
  /\ UNCHANGED <<ceiling, content, hint, used, crf, attempt, origin, proof>>

(* An answer, or none: ab-av1 missing, or no CRF that suits its samples.   *)
Search ==
  /\ phase = "searching"
  /\ \/ \E q \in Answers : Encode(q, "search")
     \/ Encode(FallbackCrf, "fallback")
  /\ UNCHANGED <<ceiling, content, row, hint, used, proof>>

(* mutant: an encode at the CRF on record is taken to be as good as then   *)
TrustedIfHinted == origin = "hint" \/ Clears(content, used, crf)

(* The whole result is scored, every attempt, against both floors.         *)
Passes == Clears(content, used, crf)

Score ==
  /\ phase = "encoding"
  /\ Passes
  /\ phase' = "passed"
  /\ UNCHANGED <<ceiling, content, row, hint, used, crf, attempt, origin, proof>>

(* mutant: a plain subtraction where the code saturates                    *)
TightenedPlain == crf - CrfStep

Tightened == IF crf > CrfStep THEN crf - CrfStep ELSE 0

(* mutant: the step that spends the last attempt is not taken              *)
SpentEarly == attempt >= MaxAttempts - 1 \/ Tightened = 0

(* No attempt is left, or no CRF: zero itself is not tried.                *)
Spent == attempt = MaxAttempts \/ Tightened = 0

Tighten ==
  /\ phase = "encoding"
  /\ ~Passes
  /\ IF Spent THEN phase' = "exhausted" /\ UNCHANGED <<crf, attempt>>
              ELSE UNCHANGED phase /\ crf' = Tightened /\ attempt' = attempt + 1
  /\ UNCHANGED <<ceiling, content, row, hint, used, origin, proof>>

(* mutant: the hint is the CRF the job began with                          *)
RecordFirst ==
  hint' = [crf |-> crf + (attempt - 1) * CrfStep, preset |-> used.preset]

RecordHint == hint' = [crf |-> crf, preset |-> used.preset]

(* record_crf_hint, once the gate is cleared; an error of it is ignored.   *)
Record ==
  /\ phase = "passed"
  /\ phase' = "recorded"
  /\ \/ RecordHint /\ proof' = [of |-> content, at |-> used]
     \/ UNCHANGED <<hint, proof>>
  /\ UNCHANGED <<ceiling, content, row, used, crf, attempt, origin>>

End(state) ==
  /\ row' = state
  /\ phase' = "idle" /\ crf' = 0 /\ attempt' = 0 /\ origin' = "none"
  /\ UNCHANGED <<ceiling, content, hint, used, proof>>

(* Replaced and done; no gain; a later stage fails; a dry run puts it back.*)
Finish == phase = "recorded" /\ \E s \in {"done", "skipped", "failed", "pending"} : End(s)

GiveUp == phase = "exhausted" /\ End("failed")

(* A stage fails of itself, or the run is interrupted or killed.           *)
Break == phase \in {"searching", "encoding"} /\ \E s \in {"failed", "pending"} : End(s)

Next ==
  \/ Edit \/ Configure \/ StartHinted \/ StartSearch \/ Search
  \/ Score \/ Tighten \/ Record \/ Finish \/ GiveUp \/ Break

Spec == Init /\ [][Next]_vars
-----------------------------------------------------------------------------
(* Properties.                                                             *)

Phases == {"idle", "searching", "encoding", "passed", "recorded", "exhausted"}

TypeOK ==
  /\ ceiling \in [Contents -> [Settings -> -1 .. MaxCrf]]
  /\ content \in Contents
  /\ row \in {"pending", "claimed", "done", "skipped", "failed"}
  /\ row = "claimed" <=> phase # "idle"
  /\ hint \in [crf : -1 .. MaxCrf, preset : {s.preset : s \in Settings} \cup {-1}]
  /\ used \in Settings
  /\ phase \in Phases
  /\ crf \in 0 .. MaxCrf
  /\ attempt \in 0 .. MaxAttempts
  /\ origin \in {"none", "hint", "search", "fallback"}
  /\ proof \in [of : Contents, at : Settings]

(* Nothing is accepted on the strength of a CRF number: what leaves the    *)
(* gate clears it as the file and the settings are now, however old the    *)
(* CRF it began with (video_av1.rs, lines 4-6 and 227-229).                *)
AcceptedAtGate == phase \in {"passed", "recorded"} => crf <= ceiling[content][used]

(* A hint is a CRF that was proven: on the content and with the settings   *)
(* it was recorded for, its encode clears the gate.                        *)
HintIsProven == hint # NoHint => hint.crf <= ceiling[proof.of][proof.at]

(* As long as the file and the filtering are those the hint was proven on, *)
(* a job that begins with it clears the gate with its first encode: what   *)
(* the hint saves is not lost again (pipeline.rs, lines 449-453).  Nothing *)
(* notices that they are not: after an edit the row keeps its hint, and a  *)
(* job that gives up on it gives up again at every retry, though a search  *)
(* would succeed.                                                          *)
HintPaysOff ==
  /\ origin = "hint" /\ phase # "recorded"
  /\ proof.of = content /\ proof.at.tf = used.tf
  => attempt = 1 /\ phase # "exhausted"

(* If the samples overrate a CRF by no more than the attempts can take     *)
(* back, a job that began with a search gives up only on a file that no    *)
(* CRF of CrfStep or more suits.  Below CrfStep the loop may jump over the *)
(* CRF that would have done: from 2 it goes to 0, which it does not try.   *)
ReachesTheGate ==
  phase = "exhausted" /\ origin = "search" => ceiling[content][used] < CrfStep

=============================================================================
