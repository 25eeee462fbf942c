------------------------------- MODULE Verdict -------------------------------
(***************************************************************************)
(* The verdicts one file meets over many runs: judged on its name, then on *)
(* its bytes, skipped, taken up again when the settings change, converted, *)
(* scanned as the file it has become, and judged again (the policy half of *)
(* Pipeline::try_process, and the reopening in run_convert).               *)
(*                                                                         *)
(* What happens on the remote in between is module Replace.                *)
(***************************************************************************)
EXTENDS Policy

CONSTANTS
  Files,        \* the files there may be
  Limits,       \* the settings a run may have
  ProbeFails    \* whether ffprobe may fail on a good file, as when Ctrl-C kills it

ASSUME VerdictAssumption ==
  /\ Files \subseteq File
  /\ Limits \subseteq Limit
  /\ \A s \in Limits : s.av1 => s.video       \* --allow-av1 implies --allow-video
  /\ \A s \in Limits : s.maxSize <= s.budget  \* max_file_gb is within the budget
  /\ ProbeFails \in BOOLEAN

VARIABLES
  file,        \* the file, as it is on the remote
  entry,       \* its row: state and skip_reason
  limits,      \* the settings of this run, or of the last one
  stage,       \* where its job is
  recipe,      \* provisional, then final
  cancelled,   \* Ctrl-C was seen
  lossyPasses  \* how often it has been encoded with loss

verdictVars == <<file, entry, limits, stage, recipe, cancelled, lossyPasses>>

NoRecipe == "none"

Pending == [state |-> "pending", reason |-> "none"]
Skipped(reason) == [state |-> "skipped", reason |-> reason]

VerdictInit ==
  /\ file \in Files
  /\ entry = Pending
  /\ limits \in Limits
  /\ stage = "rest"
  /\ recipe = NoRecipe
  /\ cancelled = FALSE
  /\ lossyPasses = 0

(* run_convert: recover_claimed, retry_failed, reopen_skipped.             *)
Begin(settings, retry) ==
  /\ stage = "rest"
  /\ stage' = "run"
  /\ limits' = settings
  /\ cancelled' = FALSE
  /\ entry' = IF \/ entry.state = "skipped" /\ entry.reason \in ReopenedBy(settings)
                 \/ entry.state = "failed" /\ retry
              THEN Pending ELSE entry
  /\ UNCHANGED <<file, recipe, lossyPasses>>

(* Ctrl-C, after which the jobs of this run are on their own.              *)
Cancel ==
  /\ stage # "rest"
  /\ cancelled' = TRUE
  /\ UNCHANGED <<file, entry, limits, stage, recipe, lossyPasses>>

(* The run ends without a job for this file.                               *)
PassOver ==
  /\ stage = "run"
  /\ entry.state # "pending" \/ cancelled
  /\ stage' = "rest"
  /\ UNCHANGED <<file, entry, limits, recipe, cancelled, lossyPasses>>

(* mutant: the job ends and its row does not say so                        *)
EndUnrecorded(settled) ==
  /\ stage' = "rest"
  /\ recipe' = NoRecipe
  /\ UNCHANGED <<file, entry, limits, cancelled, lossyPasses>>

(* The job ends and its row says how; its disk lease is dropped.           *)
EndAs(settled) ==
  /\ entry' = settled
  /\ stage' = "rest"
  /\ recipe' = NoRecipe
  /\ UNCHANGED <<file, limits, cancelled, lossyPasses>>

-----------------------------------------------------------------------------
(* try_process, as far as it decides.                                      *)

(* What is reserved before the bytes are here, for a file that cannot be   *)
(* judged by its name as much as for one that can.                         *)
Provisional(verdict) == IF verdict \in Recipes THEN verdict ELSE "av1"

(* Judged on the cheap facts: skipped, too large to stage, or fetched.     *)
JudgeByName ==
  LET verdict == Decide(file, Unseen, limits)
      needed  == Reservation(Provisional(verdict), file.size, limits.keepSource)
      tooBig  == needed > 100 * limits.budget
  IN
  /\ stage = "run"
  /\ entry.state = "pending"
  /\ \/ /\ verdict \in SkipReasons \ {"needs_probe"}
        /\ EndAs(Skipped(verdict))
     \/ /\ verdict \in Recipes \cup {"needs_probe"}
        /\ tooBig
        /\ EndAs(Skipped("too_large_for_budget"))
     \/ /\ verdict \in Recipes \cup {"needs_probe"}
        /\ ~tooBig
        /\ stage' = "fetched"
        /\ recipe' = Provisional(verdict)
        /\ entry' = [entry EXCEPT !.state = "claimed"]
        /\ UNCHANGED <<file, limits, cancelled, lossyPasses>>

(* Only names of video and `.m4a` are probed; a probe that fails is none.  *)
Probed == file.named \in Videos \cup {"m4a"}

(* Judged again, on its bytes and its probe.                               *)
JudgeByContent ==
  /\ stage = "fetched"
  /\ \E probe \in {Probed} \cup (IF ProbeFails THEN {FALSE} ELSE {}) :
        LET verdict == Decide(file, [head |-> TRUE, probe |-> probe], limits) IN
        \/ /\ verdict \in SkipReasons
           /\ EndAs(Skipped(verdict))
        \/ /\ verdict \in Recipes
           /\ stage' = "converting"
           /\ recipe' = verdict
           /\ UNCHANGED <<file, entry, limits, cancelled, lossyPasses>>

(* What the recipe makes of the file.  FFV1 is itself a lossless codec.    *)
OutputOf(name) ==
  [file EXCEPT !.named = IF name \in JxlRecipes THEN "efficient"
                         ELSE IF name \in {"flac", "flac_recompress"} THEN "flac" ELSE "video",
               !.holds = IF name \in JxlRecipes THEN "efficient" ELSE "unknown",
               !.codec = IF name = "av1" THEN "av1" ELSE @]

(* Replaced and recorded; sizes are coarse, so a small gain may show none.  *)
Convert ==
  /\ stage = "converting"
  /\ \E size \in 0 .. file.size : file' = [OutputOf(recipe) EXCEPT !.size = size]
  /\ entry' = [state |-> "done", reason |-> "none"]
  /\ lossyPasses' = IF recipe = "av1" THEN lossyPasses + 1 ELSE lossyPasses
  /\ stage' = "rest"
  /\ recipe' = NoRecipe
  /\ UNCHANGED <<limits, cancelled>>

(* Smaller by less than MIN_GAIN.                                          *)
NoGain == stage = "converting" /\ EndAs(Skipped("no_gain"))

(* A stage fails: an interruption if Ctrl-C was seen, else a failure.      *)
Fails ==
  /\ stage \in {"fetched", "converting"}
  /\ EndAs(IF cancelled THEN Pending ELSE [state |-> "failed", reason |-> "none"])

(* A scan finds the replacement: under a name of its own it is a new row,  *)
(* in place its size differs.                                              *)
Rescan ==
  /\ stage = "rest"
  /\ entry.state = "done"
  /\ entry' = Pending
  /\ UNCHANGED <<file, limits, stage, recipe, cancelled, lossyPasses>>

VerdictNext ==
  \/ \E settings \in Limits, retry \in BOOLEAN : Begin(settings, retry)
  \/ Cancel \/ PassOver \/ JudgeByName \/ JudgeByContent
  \/ Convert \/ NoGain \/ Fails \/ Rescan

VerdictSpec == VerdictInit /\ [][VerdictNext]_verdictVars
-----------------------------------------------------------------------------
(* Properties.                                                             *)

(* The verdict a file would get under some settings, all told.             *)
WouldConvert(settings) ==
  LET byName == Decide(file, Unseen, settings) IN
  /\ byName \in Recipes \cup {"needs_probe"}
  /\ Reservation(Provisional(byName), file.size, settings.keepSource)
       <= 100 * settings.budget
  /\ Decide(file, [head |-> TRUE, probe |-> Probed], settings) \in Recipes

VerdictTypeOK ==
  /\ file.named \in Kinds /\ file.holds \in Kinds \cup {"unknown"} /\ file.codec \in Codecs
  /\ entry.state \in {"pending", "claimed", "done", "skipped", "failed"}
  /\ entry.reason \in SkipReasons \cup {"none"}
  /\ entry.state = "claimed" <=> stage \in {"fetched", "converting"}
  /\ limits \in Limits
  /\ stage \in {"rest", "run", "fetched", "converting"}
  /\ recipe \in Recipes \cup {NoRecipe}

(* A skip that the settings caused does not outlive them: once a run whose *)
(* settings would have the file converted is over, the file is not still   *)
(* skipped, unless it was converted and gained nothing (policy.rs, 174-197;*)
(* README.md, 570-573).  The first rule that applies names the reason, so  *)
(* this is about the order of the rules as much as about the list.         *)
Reconsidered ==
  stage = "rest" /\ entry.state = "skipped" /\ entry.reason # "no_gain" => ~WouldConvert(limits)

(* No file is encoded with loss twice, whatever is converted into what and *)
(* scanned again (policy.rs, 128-129; README.md, 42-46).                   *)
OneLossyPass == lossyPasses <= 1

-----------------------------------------------------------------------------
(* What the documentation says and the code does not do: with ProbeFails   *)
(* TRUE it is violated.                                                    *)

(* README.md, lines 362-364: Ctrl-C "also kills the encoders and every job *)
(* in flight surfaces as an error. Those are recorded as interrupted and   *)
(* put back at pending".  A file that could not be judged because of it is *)
(* not set aside.                                                          *)
InterruptedGoesBack ==
  [][cancelled /\ stage = "fetched" /\ stage' = "rest" /\ WouldConvert(limits)
       => entry'.state = "pending"]_verdictVars
=============================================================================
