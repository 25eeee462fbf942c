# A verification project for verified-recompress

`verified-recompress` re-encodes the files of a remote drive and deletes an
original only when its replacement is proven. The modules here are TLA+ models
of the code that has to get that right, the TLC configurations that check them
on small instances, and proofs, checked by TLAPS, that the central properties
hold for every instance. `PROJECT.json` says for every definition which lines
it was translated from.

Paths below are relative to the repository; `pipeline.rs` is `src/pipeline.rs`.

## The system

| component | state it keeps | operations | what makes it correct |
|---|---|---|---|
| Job pipeline (`pipeline.rs`, `try_process`) | one job per claimed file: what it fetched, how far it got | salvage or download, judge, encode, verify, check the destination, lease quota, upload, confirm, delete, rename, record | no step takes the last whole copy of a file off the remote; a `done` row is true |
| Claim loop (`pipeline.rs`, `Pipeline::run`; `main.rs`, `run_convert`) | tasks in flight, counters, the cancel flag | claim, hand to a task, collect, drain | bounded, ends, overlooks nothing; a claimed row has an owner |
| Ledger (`ledger.rs`) | SQLite rows: state, reason, size, digests, `trashed`, `reclaimed`, CRF hint; one actor owns the connection | claim, set_state, record_conversion, reopen, retry, recover, upsert and sweep of a scan, mark_reclaimed | a row is claimed once; every row is reconsidered when it should be |
| Governor (`governor.rs`) | semaphores of disk, network, API slots, quota, and two of cores with a list of core ids | `disk`, `cpu`, `one_core`, `cloud`, `release_cloud`, `Lease::hold` | no core twice, full leases, no starvation; the budget never promises more than is free |
| Mid-run reclaim (`pipeline.rs`, `reclaim_if_low`; `trash.rs`) | the reclaiming mutex, the remote's trash | empty the trash, mark rows, give quota back | originals are destroyed only when they have to be and only with a copy kept |
| Staging (`staging.rs`, `take_salvaged`) | job directories, `claimed.json`, the salvage index | create, adopt, drop, salvage at start | a job converts its own file, whole and current, whatever was killed before; a whole download is kept |
| Policy (`policy.rs`, `classify.rs`) | none; its verdicts are in the rows | `decide`, `decide_video`, `reopened_by` | a skip does not outlive its cause; at most one lossy pass |
| AV1 gate (`convert/video_av1.rs`, `vmaf.rs`) | `crf_hint` in the row | search, encode, score, tighten | only what clears the gate is accepted; hints stay valid |
| Remote (`remote/`) | the drive; per command a rclone daemon, its port and its jobs | list, stat, hash, download, upload, delete, rename, cleanup; spawn, shutdown | success means effect; nothing lands after its command; every call is answered |
| Lossless recipes, hashing (`convert/`, `hash.rs`) | digests of the original, the files of one job | fingerprint, encode, verify | what is recorded of a conversion was proven of its bytes |
| Restore, verify (`restore.rs`, `main.rs`) | none; they read the rows | rebuild, confirm, put back | what comes back is what was replaced |
| Trash (`trash.rs`, `main.rs`) | `trashed_at` and `reclaimed` in the rows | cleanup, purge_now, purge_after_days | nothing goes before its time |
| Configuration (`config.rs`) | none | merge, resolve | the budgets of a run make sense together |
| Scope, dedup, reports, bench, preflight, cli | none | | see *What is not modelled* |

**How they interact.** `run` returns rows an earlier run left claimed, reopens
skipped ones and starts the loop. The loop claims a row through the ledger's
actor and spawns a task. A task waits on the governor's budgets one after the
other, works in its own staging directory, calls the remote, and writes its row
last. Tasks share the ledger, the remote, the budgets, the trash and the
staging directories; nothing else orders them. The commands that come later,
`scan`, `cleanup`, `verify`, `restore` and the next `run`, know of a conversion what
its row says and what the remote holds by then. Ctrl-C is a flag every task
reads when it handles an error and the loop reads between claims; a second
Ctrl-C, like a kill, ends the process between any two steps.

**What is hard.** Two jobs interleaving over one remote name or one trash; a
call that took effect and reports an error; a death between the deletion of an
original and its record; a verdict recorded under settings that later change;
budgets that other jobs fill and empty; directories and rows that outlive the
process that made them; a record that is read months after it was written; a
daemon that outlives, or dies before, the command that asked it. `PROJECT.json` lists these hazards at the lines where
they bite, with the properties that cover them.

## The modules

| module | models | built on |
|---|---|---|
| `LedgerTable` | the ledger's commands as operators from table to table | |
| `Promise` | what an owner is promised, abstractly | |
| `Replace` | `run --execute` on the remote: jobs, failures, crashes, scans, purges, reruns; implements `Promise` | `LedgerTable` |
| `RunLoop` | `Pipeline::run`, `process`, `run_convert` | `LedgerTable` |
| `Semaphore` | tokio's fair counting semaphore, as the code uses it | |
| `CpuPool` | `Governor::cpu`, `one_core`, `CpuLease` | `Semaphore` |
| `Quota` | the remote budget and `reclaim_if_low` | `Semaphore` |
| `Staging` | job directories over many runs | |
| `Policy`, `Verdict` | the decision table; a file judged over many runs | |
| `Av1Gate` | `encode_to_gate` and the life of a CRF hint | |
| `Recipe` | a file through a lossless recipe: digests, encoders, fallbacks, verification, rebuild | |
| `RemoteCalls` | what the `Remote` trait promises its callers, abstractly | |
| `Rcd` | `RcdRemote`: daemons, ports, jobs and polls; implements `RemoteCalls` | |
| `Records` | the commands over what is recorded: `run`, `scan`, `cleanup`, retention, `verify`, `restore` | `LedgerTable` |
| `Config` | `Config::resolve` and `Governor::new` as operators; `MCQuota` takes its deployments from it | |
| `LedgerTableProofs`, `ReplaceProofs`, `RunLoopProofs`, `RecordsProofs`, `CpuPoolProofs`, `QuotaProofs`, `TransferProofs`, `ConvertProofs` | the theorems; `TransferProofs` is about `Rcd` and `Staging`, `ConvertProofs` about `Recipe`, `Av1Gate` and `Verdict`, which is why some of these have `RecipeInit`, `VerdictInit`, `StagingInit` and the like in the place of `Init` | their modules |
| `MC*` | instances for TLC | |

Definitions commented `mutant:` are what a plausible bug would make of the
definition that follows; no specification uses them. Each shows that its
property fails when the code is wrong.

### Replace: the core

The state is `live` (what each remote name holds), `trash`, the ledger's `rows`,
one `job` per row with its phase and the bytes it works from, and what outlives a
job: `staged`, the whole download a killed run left in its directory, and `late`,
the call nobody waits for any more. One step is one call to the remote or to the
ledger, since anything may come in between: another job, an error, Ctrl-C, a
crash. The actions follow `try_process` in order: `ClaimNext`, `Decline`, `Reuse`
or `Fetch`, `Encode`, `CheckDestination`, `ReclaimIfLow`, `Upload`, `Confirm`,
`DeleteOriginal`, `Rename` (in place only), `Record`. A call that fails leaves
itself in `late` and may land (`Lands`) at any later step, the clean-up of its own
job included, or never: `UploadFails`, `ConfirmFails`, `DeleteFails`,
`RenameFails`. `JobFails` is everything local. `Errs` is `process()` looking at the
flag (`pipeline.rs:326`), `Settle` the write of the row it awaits after that.
`Start`, `Finish`, `Crash`, `Scan`, `Cleanup` and `RecordPurge` are what surrounds
the jobs; a crash leaves any whole download whose recipe has not deleted it, and
the call each job was in. `Reuse` needs nothing live under the file's name, as the
code does not look (`pipeline.rs:384-409`); `Discard` stands for all that may
become of a download in `Staging`.

The properties speak of the files that are `Apart`: whose names (their own, that of
the replacement, the staging name) are no other convertible file's. The code
reserves no name, so this is a condition on the drive, not an assumption of the
module: `MCCollision` has two files of one target, and a transport stream that is
remuxed and then, as an `.mp4`, encoded to AV1 in place is not apart either. `Source`
says what each name's job converts, so that such a chain can be written down.

`NothingLost` is an action property: a file that is whole somewhere on the remote
stays so, step by step. It excepts a file whose in-place replacement was cut short
(`CutShort`: nothing under its name), because there the code can lose it; the run
is given below. `Promise` has the same exception as `Spoil` and `Mend`, for delicate
files that are not recorded.

Abstractions: content is *(of which file, original / converted / torn)*, and a
size is the form it was measured on, because all the code asks of a size is
whether it is the one expected. The `.verified-recompress-N.part` name, whose N is
the job's number, is one name per file: a later job that gets another number leaves
the first `.part` alone, so this is the worse case, and the usual one, as numbers
restart with each run. Rows may be claimed after Ctrl-C without limit (an
over-approximation: `RunLoop` says exactly how many). A row is claimed only when no
call of an earlier job for it is under way. That is an assumption in two cases: after
a kill, because the daemon goes on, and for the one claim after Ctrl-C, which may be
of a file that was just put back. The ledger commands that write a row at the end may fail, and so may those
of a purge; the others do not here. A recipe converts an original or declines: what
its verification is worth is `Recipe`'s subject, that a replacement is not converted
again is `Verdict`'s. Nobody else changes the remote; in `Records` the owner does.

### The others

* `RunLoop`: one step of the loop is what lies between two awaits. A task is its work,
  its wait for quota, its upload, the verdict on an error (`Errs`, where the flag is
  read) and the write of its row (`Settles`). Panics, rows that cannot be written,
  ledger failures and kills are in; each run may have its own limit and exclusions,
  and be dry.
* `CpuPool`: permits and core ids change hands in separate steps, as in the code.
  Which pool a job borrowed from is remembered as the code remembers it, by the
  permit.
* `Quota`: whole MiB. `Init` chooses the deployment: floor or none, a copy kept or
  not, width, failing calls, and what earlier runs left: `trash`, the originals still
  there, and `owed`, the rows that say so. The two need not agree. A run killed after
  `cleanup` and before `mark_reclaimed` (`pipeline.rs:250-256`) leaves rows without an
  original (`Stale`), one killed before `record_conversion` an original without a row.
* `Config`: a setting is a number, a directory or not given. What a run may rely on
  is what `Starts` lets through; `MCQuota` writes down thirteen commands, derives
  from those accepted the deployments of `Quota`, and TLC evaluates
  `QuotaAssumption` on them (a floor implies a kept copy, every file fits the
  budget) and `OnlyAccepted` on the rest.
* `Staging`: a directory has a claim and bytes, both possibly missing; bytes may be
  short. Numbers restart in each run. A width of one or two is chosen in `Init`.
* `Policy`/`Verdict`: a file is the facts the rules test. Sizes are small numbers and
  peak ratios hundredths, compared with budgets of 2, 4 and 8. A converted file
  becomes the file its recipe makes and is judged again (`.ts` to `.mp4` to AV1).
* `Av1Gate`: whether an encode clears the gate is a threshold on the CRF, one per
  content and settings. Edits happen between jobs.
* `Recipe`: a file is known by six parts: the bytes it can be rebuilt into, the
  upper eight bits of its first picture, the bits below, the later pictures, the
  upper sixteen bits of its samples, the bits below. `pcm_md5` (`hash.rs:195`) gives
  ffmpeg's hash muxer no codec, and its default is signed 16-bit, so a digest of sound
  sees the former only. Whether a still is compared at sixteen bits is decided by a
  substring of its pixel format's name (`hash.rs:139-141`), which is what `deep` says
  of a source. An encoder may write anything into any part it was given; so a recipe
  keeps its word only as far as its verification looks. Decoders are trusted,
  but any call may fail. `restore` goes by the recipe and, as `djxl` does, by the
  extension it is asked to write: `.jpg` when verification asks (`jxl.rs:199`), the
  original's own when `restore` does (`restore.rs:52-61`).
* `Rcd`: one daemon per command. A job is a number at whatever daemon listens on
  the command's port and accepts its password. The wait of `await_ready` is one
  step, `Abandon` is every error that ends a command, `Killed` leaves the daemon
  running. The backoff of a poll is time and not in the model.
* `RemoteCalls`: five steps of a call and two of a command. `Replace` makes each of
  its calls take effect or not and report an error or not, which is this module
  with the answer and the effect in one step.
* `Records`: one command at a time, killed anywhere. A file is whose it is, which
  version, original or converted; sizes are compared, so versions may share one.
  The clock counts days; the owner's edits and deletions are bounded by
  `MaxEdits`. A conversion is two steps of `Replace`. `listed` is a history
  variable: what a scan with `--hash` last found at a path whose row is `done`,
  which is the digest the scan writes over the conversion's.

## What TLC checks

Runs that pass:

| run | bounds | states | what it shows |
|---|---|---|---|
| `MCReplace` | one file replaced beside itself, one in place; 2 jobs; any number of runs | 911,908 | `DoneIsTrue` and, step by step, `NothingLost` and `KeepsPromise` |
| `MCRunLoop` | 3 files, 2 tasks, limit 2 or none, dry with limit 2 | 371,054 | `NothingOverlooked`, `AtMostOneLate`, `ClaimedHasOwner`, `Terminates` |
| `MCCpuPool` | 2 videos, 3 images, 4 cores, 2 reserved | 17,263 | `EachCoreOnce`, `LeasesAsPromised`, `EveryRequestServed` |
| `MCQuota` | 3 files; 13 commands, of which 5 start | 8,849 | `BudgetHonest`, `PurgedOnlyWhenLow`, `WayBack`, `EveryJobEnds` |
| `MCStaging` | 2 files, one of which changes, 1 or 2 jobs | 13,246 | `InputIsOwn`, `DownloadsKept`, `TakesItsOwn` |
| `MCVerdict` | every kind of file the table tells apart, settings differing in each limit | 160,252 | `Reconsidered`, `OneLossyPass` |
| `MCAv1Gate` | 2 contents, 2 presets, 6 CRFs, every gate | 1,557,612 | `AcceptedAtGate`, `HintIsProven`, `HintPaysOff`, `ReachesTheGate` |
| `MCRecipe` | 15 sources, one for every route through the recipes and names djxl does not know | 1,584 | `RecipeTypeOK`, `PromiseProven`, `ExactStaysExact` |
| `MCRcd` | 2 commands, 1 port, a polled call of each and one that waits | 201,036 | `KeepsContract`, `EveryCallAnswered` |
| `MCRecords` | a photograph and a song, 2 versions, 3 days, 1 edit, any number of commands | 1,648,559 | `RebuiltIsReplaced`, `RetentionKept`, `RecordsStand` |

Every run also checks its module's type invariant. Runs that find a disagreement
between the code and what is said of it:

| run | finds |
|---|---|
| `MCCollision` | `photo.jpg` and `photo.png` both become `photo.jxl`; both find the name free, and both originals are deleted although one replacement was overwritten (`EveryFileWhole`) |
| `MCForgotten` | a file is restored and the drive scanned without `--hash`: the scan writes NULL over the digest of the original, and the intact conversion can no longer be verified or restored |

**Why these bounds.** The two files of `MCReplace` are the two ways a file is
replaced; jobs whose names differ share only the trash, the ledger's sweeps and
the process, so a third file repeats one of the two, and the proofs below hold
for any number. The run has two bounds of its own: `WithoutTrash`, a view that takes
states which differ in the trash alone for one, because no guard and no property
reads it, and `OneLeftover`, that only one of the two files has a salvaged download
or an outstanding call at a time; the two share no name, and the theorems do not
have this bound. Three files are the fewest for which the loop is full, has one
waiting and one excluded. Five core jobs exhaust both pools and queue in both.
Six CRFs are crossed in whole by three attempts of step two. Two commands
are the fewest that race for a port or meet another's daemon; with one port they
always do. Two versions and one edit, which may save an original and put another
in a replacement's place at a time, are the fewest with which a record, a
replacement and an original can disagree; three days are the fewest in which one
original is due while another is young, and then both are due. The five
deployments of `MCQuota` are: no floor, side by side; alone, with a floor above the
largest output and an older original; alone, with a floor below it and a stale row;
side by side with a floor; and that with failing calls and an original no row knows
of. Apart from `OneLeftover` no bound is anything but a size of the instance.

**Fairness.** `RunLoop`: the loop is polled when it can go on, and a task goes on
(`Unhindered`) while none waits for quota, because a stalled transfer gives up and
an encoder reads a finite file. Nothing says that a wait for quota ever ends, as it
need not (`pipeline.rs:588-592`), nor that a task ends while another waits with the
staging space it holds; so `Terminates` has the alternative that one waits for ever.
Nobody has to press Ctrl-C or start another run. `CpuPool`: a job that asked goes
on when it can, and work on granted cores ends; nobody has to ask. `Quota`: the
same, with strong fairness for `Lock`, because tokio's mutex is handed over in
turn. The semaphores' first-come order is in the model and not in the fairness.
`Rcd`: a poll is followed by the next one, a response is read, a living daemon
finishes what it was asked (rclone gives up on a transfer that stalls), and a
command that waits for its daemon sees it answer or runs into its deadline;
nothing has to fail, die or be killed. The other modules check safety only.

**Deadlock** is checked everywhere but in `MCQuota` and `MCRcd`. In `MCQuota` each
file has one job and the model stops when all are through, or when those left
wait for a purge that none of them will make (see below); in `MCRcd` each
command runs once.

## What is proved

`ReplaceProofs`, for any library, any number of jobs and any number of runs:

* `TypeCorrect`: `Spec => []TypeOK`, without assumptions. It is inductive once one
  adds that a job past encoding works from what `Source` names (`Sourced`), which
  `Record` writes into the row.
* `Invariance`: `Spec => []IInv`, assuming `HasHash` (the backend reports digests;
  without them a torn upload of the right size is accepted), as do the rest.
* `NoLoss` (`NothingLost`), `DoneStands` (`DoneIsTrue`) and `Refinement`
  (`KeepsPromise`), which all follow from `IInv`.

Nothing is assumed of the names. The theorems are about the files that are `Apart`
in whatever library, beside files that are not: the jobs of those may overwrite one
another, but touch nothing of a convertible file that is apart (`OthersKept`) nor of
a file no recipe converts (`BystandersKept`).

Neither `NothingLost` nor `DoneIsTrue` is inductive: they do not say that the original
is live until the replacement is confirmed, that the target is still whole when the
original goes, nor what a call that nobody waits for may still do. `IInv` says for each
file what each phase of its job knows of the remote (`JobKnows`), what an outstanding
call knows of it (`LateKnows`: a clean-up that may still land finds the original in
its place, an upload does not meet a confirmed target), where a whole copy is unless
the replacement was cut short (`CopyAt`), and what its row knows (`RowKnows`: a `done`
row has the size of the original, so a scan resets it exactly when it was replaced in
place; a download that still matches the row is the original). Files that are not
convertible keep their original, and have no job. The proof of a job's step has two
halves: a step of one job leaves the names, the row and the job of every other file
that is apart (`StageLocal`, `OthersKept`), and keeps its own (`JobKept`, one step per
action, and `LandsKept`). Scans, starts and purges change rows only:
`LedgerTableProofs` has the facts about each command, `RowsOnly` what follows for the
files. `IInv` was checked with TLC first, on the instance of `MCReplace` and on one
with a chain of conversions beside a file that is apart (4 million states).

`Refinement` is `Spec => KeepsPromise`. The mapping takes `copies` to the whole copies
that are live and `recorded` to the `done` rows. It needs one invariant more,
`AtHome`: a copy of a file that is apart is only ever under one of the file's own
names, so that what is live of it can be read off those names and a stage of another
job leaves its copies alone. A stage then publishes, withdraws, retires, spoils, mends
or records (`StageImplements`), and everything that is not a stage is `Forget`,
because no command makes a row `done` (`CommandImplements`).

`RunLoopProofs`, for any files, any order among them, any limits and width:
`TypeCorrect`, `OneLate` (`AtMostOneLate`), `Overlooks` (`NothingOverlooked`) and
`OneOwner` (`ClaimedHasOwner`). The invariant says
that a row is claimed only while there is room and nothing takes the room before
its task has it (`Bounded`); that a claim after Ctrl-C was decided before it
(`Late`); that a loop which drains unstopped has seen that nothing is pending, and
that its tasks put nothing back (`Through`); and that during a run only what its
own scope excludes is set aside for a scope (`InScope`, from `run_convert`'s reopen). `ClaimedHasOwner` is inductive with the
places of the loop at which a row is in its hand (`Owned`).

`RecordsProofs`, for any files and versions, any retention and any number of
commands, kills and edits: `TypeCorrect`, `RebuiltIsKnown` (`RebuiltIsReplaced`),
`RetentionHolds` (`RetentionKept`) and `RecordsHold` (`RecordsStand`). What carries
them is `Founded`, that a `done` row's digest is missing, that of what was converted,
or that of what a scan found in its place since, and `Awaited`, that a `done` row
whose original is in the trash is still waited for, and counts its age from no
earlier day than it got there. The attempt to prove that the digest is always the
conversion's is what showed that it need not be: a scan with `--hash` over a `done` row
whose original path has come to hold a file of the same size writes that file's
digest (`ledger.rs:599`). If the replacement, too, is one made from that file, `verify`
and `restore` confirm it. Nothing that the path never held is ever confirmed; that is
what the property says.

`CpuPoolProofs`, for any set of jobs and any number of cores: `NoCoreTwice`
(`EachCoreOnce`) follows from the list of core ids alone. `TypeCorrect` and `Promised`
(`LeasesAsPromised`) take the count of the permits. `ShareInv` says of the reserve
that its free permits, those granted at the head of the queue and those with jobs
add up to it (`ReserveCount`), of the video pool the same, where a video counts
for the whole pool (`VideoCount`), and that the core ids not free are those the
leases at work were promised (`CoreCount`); then a permit finds its cores in the list.

`QuotaProofs`, for any files, sizes and deployments that `QuotaAssumption` allows,
which is what `Config` lets through (a floor comes with a kept copy, `CopiesKept`;
every file fits the quota; the files are finite in number):

* `OneWayBack` (`WayBack`): a run without a floor never reclaims, and in a run
  with one a job's copy is taken before anything of it reaches the trash.
* `Honest` (`BudgetHonest`) and `TypeCorrect`: `BudgetInv` keeps the accounts. Permits,
  leases and what is still owed come out of the capacity and the originals that
  are through (`Bounded`); as long as no call fails this is an equality
  (`Balanced`); and with one job at a time whatever was credited is really gone
  or was a stale row (`Credited`). Without these, `BudgetHonest` says nothing of the moment at which
  a lease becomes a stored file, or a purge a credit.
* `PurgesWhenLow` (`PurgedOnlyWhenLow`): nothing returns to the budget between the look
  under the mutex and the purge (`OnlyLow`).

Both count with sums: `Asked`, over the first requests of a queue, and `Total`, a
fold over a set of files. What such a recursive definition computes is proved by
induction here, with the set of numbers, or of parts of a finite set, for which the
claim holds in the place of a predicate (`Induction`, `AskedSums`, and in `QuotaProofs`
what adding to and removing from a sum does). The text of the first two is in both
modules because the two components declare state of the same names and cannot be
extended together.

`TransferProofs`, about `Rcd`, for any number of commands, calls and ports: `TypeCorrect` and
`Refinement` (`KeepsContract`). The invariant says that a port has one daemon, that a
command that ended of itself has outlived its daemon, that a daemon works for its own
command (passwords tell daemons apart), and that the number a caller polls is its own
job's at that daemon, though every daemon counts from one (`OwnNumber`). The
proof maps each step to `Ask`, `TakeEffect`, `Succeed`, `Fail`, `End`, `Kill`, `Gone` or a stutter.

About `Staging`, for any files, versions and widths, over any runs, kills and edits:
`StagingTypes`, `Kept` (`DownloadsKept`) and `OwnInput` (`InputIsOwn`). `FetchInv`
holds with any number of jobs at work: every job of a run has its own number
(`OwnNumbers`, which takes that the numbers given out are as many as the jobs that
have one, so that there is one for every file); no two files have one directory in
view (`OwnSalvage`); nobody else fills the directory a job downloads into
(`OwnDirectory`); and a whole download of a file is in one directory, the one in view
of its job (`OneHolder`). So a step that destroys it is a step of its own job, which
has it in hand, or of a job under that directory's number, which is what
`DownloadsKept` says. `InItsTurn` is about one job at a time: what a waiting file has
in view is its own download, unless the job at work has just taken that number, and
then it is gone once that job is over. Both invariants were checked with TLC first, on
three files (3.2 million states).

`ConvertProofs`, about `Recipe`: `RecipeTypes`, `Proves` (`PromiseProven`) and `StaysExact`
(`ExactStaysExact`), for any set of sources, whatever encoders write and whichever
calls fail. `RecipeInv` adds that the digests compared are the source's, that
nothing is made out of nothing (`Inherits`), and that nothing is touched once it is
recorded. `RecipeAssumption` is what `sniff_image`, `classify` and the decision table
make of a source: a still has no sound, a WebP nothing below its eight
bits, a sound file no pictures, and only a JPEG by its bytes takes the recipe for JPEGs.
What `Proves` leaves out is the set `NotCompared`, what `StaysExact` leaves out are JPEGs
under a name that `djxl` does not take for a JPEG's; both are disagreements listed below.

About `Av1Gate`: `Accepted`, `HintProven`, `PaysOff` (`AcceptedAtGate`, `HintIsProven`,
`HintPaysOff`) and `GateTypes`, for any contents, settings and gates. The
invariant `GInv` adds what a job that began with a hint knows: the hint is real,
is for its preset, and is still its CRF at the first attempt. `GateReached`
(`ReachesTheGate`) assumes `TakenBack`, that the attempts together tighten by at
least the error of the samples; `MCAv1Gate` is the case of equality.

About `Verdict`, for any files and settings and any number of runs: `VerdictTypes`,
`LossyOnce` (`OneLossyPass`) and, where ffprobe does not fail on a file it can read,
`Reconsiders` (`Reconsidered`; without that it is false, see below). `VideoCases`
and `DecideCases` turn the rule tables into ladders of conditions, with the first
applicable rule as the least number in a set (`FirstRule`). `SkipStands` is what the
order of the rules has to give: a reason that a run does not reopen would be met by
a skip under its settings, too, so that nothing hides behind it. `Barred` then says of
a skipped file that all settings that would not reopen it would not convert it.

**Only model-checked.** The liveness properties `Terminates`, `EveryRequestServed`,
`EveryJobEnds` and `EveryCallAnswered`, which are outside this prover.

## Where the documentation and the code part

Beyond the two runs above, met while modelling and stated here in prose. Where a
definition is named that no run checks, it is false of the code and can be put
into the cfg named to see the run:

* A replacement in place deletes the original before it renames the `.part` file
  (`pipeline.rs:632`). If the rename fails, or the process dies in between, the file
  is on the remote only under its staging name, where `README.md:50-51` says the
  remote is "never left mid-replacement" (`NeverMidReplacement`, `MCReplace`).
* After such a cut the next run can lose the file. The row is `pending` again, the
  whole download was salvaged, and `try_process` takes it without looking whether
  the original is still there (`pipeline.rs:384-409`). In place the destination is not
  looked at either (570), so the new upload goes over the `.part` that is the only copy;
  if it arrives torn, line 623 deletes that. Of the file nothing is then live but, for a
  while, the trash. `pipeline.rs:313` says "Any error here leaves the remote
  untouched". This is what `NothingLost` excepts (`CutShort`); without the exception
  `NothingLost` fails in `MCReplace`, as does `EveryFileWhole`.
* A chain of conversions shares its names: `film.ts` is remuxed to `film.mp4`, and a
  scan and `--allow-av1` later that is encoded in place (`policy.rs:87-96`, `483-492`). The
  row of `film.ts` is `done` and names a file that is no longer the one it recorded, so
  `DoneIsTrue` is false of it. And if a kill came before that record, its job can run
  again from the salvaged download beside that of `film.mp4`, find the name free between
  the other's delete and rename, and with a torn upload overwrite the file the other
  recorded. Files of that kind are not `Apart`.
* Without `--execute` a converted file goes back to `pending` (`pipeline.rs:527-531`)
  under a loop that ends when nothing is pending: without a limit a dry run
  converts the same files for ever (`Terminates`, `MCRunLoop` with `NoLimit` in
  `DryLimits`).
* A conversion recorded between `cleanup` and `mark_reclaimed` of another job
  (`pipeline.rs:250-256`) is credited as purged while its original is in the trash
  and billed; the budget then exceeds the free space for the rest of the run,
  against `governor.rs:75-77` (`BudgetNeverOverstated`, `MCQuota`).
* Rows that an earlier, killed run did not mark as reclaimed (`pipeline.rs:250-256`) are
  credited by the next purge though the trash they speak of is long empty, with one
  job at a time, too: the budget exceeds the free space by their size. `BudgetHonest`
  says by exactly that much (`Stale`); `BudgetNeverOverstated` is false of it.
* Whether an error is a failure is decided at `pipeline.rs:326` and written after an
  await (333-336), and the flag is set some time after the signal that killed the
  encoders (`main.rs:293-310`). An interrupted file can be recorded as failed in both
  gaps, against the comment at `pipeline.rs:317-321`. No property says otherwise.
* Ctrl-C kills ffprobe, its error is dropped (`pipeline.rs:421-426`), and the file is
  skipped as `needs_probe`, which no run reopens, where `README.md:362-364` says it
  goes back to pending (`InterruptedGoesBack`, `MCVerdict` with `ProbeFails = TRUE`).
* Sound is compared at sixteen bits: `pcm_md5` (`hash.rs:184-195`, "MD5 of decoded PCM
  samples") lets ffmpeg convert to its default format, so the lower bits of 24-bit
  samples are not in the digest. For a FLAC that cannot be rebuilt byte for byte, and
  for a remux, `content_exact` says no more than that (`ContentExact`, `MCRecipe`); the
  former has passed `flac -V` as well, as `encode_flac` asks for it (`audio.rs:27`).
* Whether pictures are compared at sixteen bits goes by the digits in the name of
  their pixel format (`hash.rs:139-141`): one with more than eight bits whose name has
  none of those is compared at eight (`ContentExact`).
* The sound of an FFV1 conversion is copied and never compared, and a transport
  stream's digests are taken with `.ok()` (`video_lossless.rs:147`), so that two
  streams neither of which can be decoded agree; both are recorded as
  `content_exact` (`ContentExact`, `MCRecipe`). With no digest at all, a remux is
  recorded on its number of frames.
* `djxl` goes by the extension of the file it is to write, and `restore` names that
  as the original was named: a JPEG called `photo.png` is recorded as `byte_exact`
  and cannot be restored. Nor can `photo.jfif` and `photo.jpe`, which are JPEGs to
  `classify.rs:80` and whose verification rebuilds `roundtrip.jpg` (`jxl.rs:199`), but
  names `djxl` refuses, as `restore.rs:52-54` says (`ByteExactRestores`, `MCRecipe`).
* `scan` overwrites the size and digest of `done` rows, too (`ledger.rs:597-599`):
  `MCForgotten`.
* A restored file's row stays `done`. Deleting the converted file afterwards, as one
  would, makes `verify` report it missing at every run.
* Retention counts only `done` rows (`ledger.rs:910-926`): an original whose record
  was lost in a crash, or reset by a scan, is purged at any age with the others.
* A command that is killed leaves its daemon running, and the upload it was asked
  for may still land, over what a later run put there. `Replace` lets it land at any
  time until the file is claimed again, and assumes that it does not after that. `KeepsContract` allows that
  for killed commands only. `await_job` gives up at the first poll that fails,
  while the job goes on (`rcd.rs:267-300`); it has no deadline of its own.
* Two processes on one ledger each return the other's claimed rows to `pending`
  (`ledger.rs:836`); the second job of a file can then set a `done` row to `failed`.
* `LIKE` in SQLite ignores case, so `claim` and the sweep of a scan take
  `Photos/` for `photos/` (`ledger.rs:634-648`, `788-800`), which `Scope::allows`
  tells apart.
* `raster-decoded.png` is not part of the 1.8 times a JXL job reserves
  (`governor.rs:33-34`).
* A floor above the whole quota is accepted (`config.rs:281-284`), and every job then
  purges; `MCQuota` has one.

* After Ctrl-C one more file may be claimed, by a loop that was waiting for room
  (`README.md:356`); `AtMostOneLate` states the exact bound.
* Errors after the upload do leave the remote changed: a torn target may stay
  because deleting it failed too, and every retry then stops at "already exists".
* A replacement made in place has its size under the original's path, so the next
  scan resets its `done` row (`ledger.rs:602`), and its record of the original's
  digest with it.
* With `non_video_cores = 0`, which `Config::resolve` accepts, a job that finds no
  idle video core waits on a pool without permits for ever (`governor.rs:301`).
* A job that already waits for quota does not purge: with the trash full, jobs side by
  side can all wait (`pipeline.rs:228-230`). A job on its own can, too: when what is
  available is not below the floor and below its output, `reclaim_if_low` returns (236)
  and the lease never comes. `EveryJobEnds` is about one job at a time and names the
  latter (`Stalled`), which a floor as high as the largest output rules out.
* A lease is dropped when a job fails after its upload, though the bytes are
  billed (`pipeline.rs:580-581`). `BudgetHonest` excludes failing calls.
* A mid-run purge also destroys originals of earlier runs, of which no copy was
  kept (`config.rs:286-288`). `WayBack` excludes them.
* A job that is given the number of the directory in which another file's download was
  salvaged removes that directory (`staging.rs:45-47`, `66-68`), with one job at a time,
  too, where `staging.rs:139-143` and `pipeline.rs:381-383` want it kept; the other file
  is fetched again. `DownloadsKept` names this as its one exception; `NeverThrownAway`,
  without it, is false of the code (`MCStaging`).
* Job numbers restart at zero, so with two jobs in flight one may create the
  directory another is about to adopt (`pipeline.rs:384-386`). `InputIsOwn` is about
  one job at a time. The claim's path is never compared (`staging.rs:206`), so of two files with the same
  size and modification time one may adopt the other's download; `MCStaging` gives its
  files versions that differ, and `TakesItsOwn` is about that case alone.
* Disk is reserved for the provisional recipe, at 1.65 times the source for AV1,
  and the final recipe may need 1.8 to 2.5 times, or keep the source
  (`pipeline.rs:360-362`).
* A CRF hint outlives an edit and a change of filtering; a job that starts from it
  can fail at every retry where a search would succeed (`video_av1.rs:221-228`).
  It is recorded only after the gate, so an interrupted run searches again.
* CRF 0 is never tried, and giving up at it is reported as "after 3 attempts"
  (`video_av1.rs:269-279`).

## What is not modelled

What an encoder, a decoder or VMAF computes, beyond which parts of a file it may
alter; the AV1 tier's score is a threshold. Strings: paths under scopes and globs,
listings, versions, ffmpeg's output, TOML. The ledger's actor and its channel:
a command is a step, because one thread owns the connection. Several processes
or scopes on one ledger; changes to the remote by others between a listing and
its use. The waits on the disk, network and API semaphores, which are plain
counting. The rclone backend that runs a process per call is used by tests only.
Reports, progress, bench, preflight, command-line parsing and the deduplication
report change no state.

## The plan

The order was: what can lose a file (`Replace`), what decides which files are
touched and whether a run ends (`RunLoop`), what jobs share (`CpuPool`, `Quota`,
`Staging`), what is decided (`Policy`, `Verdict`), what is accepted (`Av1Gate`);
then what a conversion's record is worth (`Recipe`, `Records`), what lies under
the calls to the remote (`Rcd`), and what a run starts from (`Config`). Next:

1. Two processes and two scopes on one ledger.
2. The disk reservation against the final recipe, with the salvage of `Staging`.
