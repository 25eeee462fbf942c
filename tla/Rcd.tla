-------------------------------- MODULE Rcd --------------------------------
(***************************************************************************)
(* Commands of the tool and the rclone daemons they start, one each        *)
(* (remote/rcd.rs): the race for a loopback port, the wait until the       *)
(* daemon answers, calls that run as jobs of the daemon and are polled,    *)
(* calls that wait for their response, and the ways a command ends: with   *)
(* core/quit and a kill, with an error that drops the client, or killed    *)
(* itself, which leaves its daemon running.                                *)
(*                                                                         *)
(* External: the daemon numbers its jobs from one, a daemon whose port is  *)
(* taken exits, and a daemon may die at any time (Ctrl-C reaches it with   *)
(* the whole process group).  Requests and responses are loopback HTTP;    *)
(* any of them may fail.                                                   *)
(***************************************************************************)
EXTENDS Naturals, Sequences, FiniteSets

CONSTANTS
  Commands,     \* the processes, over time or at once
  Calls,        \* the calls to the remote
  CallerOf,     \* the command that makes each
  Polled,       \* those made with _async: listings, transfers, cleanup
  Ports,        \* the loopback ports the system hands out
  None

ASSUME RcdAssumption ==
  /\ CallerOf \in [Calls -> Commands]
  /\ Polled \subseteq Calls
  /\ None \notin Ports

VARIABLES
  phase,        \* how far a command is
  port,         \* the port it has picked
  daemon,       \* its child
  jobs,         \* what each daemon was asked, in the order of the job ids
  call,         \* what became of each call, for its caller
  jobid,        \* the job id call_async was given, 0 if none
  effect        \* the calls that took effect on the remote

vars == <<phase, port, daemon, jobs, call, jobid, effect>>

Init ==
  /\ phase = [c \in Commands |-> "new"]
  /\ port = [c \in Commands |-> None]
  /\ daemon = [c \in Commands |-> "none"]
  /\ jobs = [c \in Commands |-> << >>]
  /\ call = [k \in Calls |-> "unasked"]
  /\ jobid = [k \in Calls |-> 0]
  /\ effect = {}

ListeningOn(p) == {d \in Commands : daemon[d] = "listening" /\ port[d] = p}

(* mutant: no password, or the same for all                                *)
AnsweringAny(c) == ListeningOn(port[c])

(* The daemons that accept c's requests: those on its port that were       *)
(* started with its random_password.                                       *)
Answering(c) == {d \in ListeningOn(port[c]) : d = c}

-----------------------------------------------------------------------------
(* RcdRemote::spawn.                                                       *)

(* free_loopback_port: bound and released, so another command may be given *)
(* the same one before a daemon takes it.                                  *)
FreeLoopbackPort(c) ==
  /\ phase[c] = "new"
  /\ \E p \in Ports : ListeningOn(p) = {} /\ port' = [port EXCEPT ![c] = p]
  /\ phase' = [phase EXCEPT ![c] = "starting"]
  /\ daemon' = [daemon EXCEPT ![c] = "starting"]
  /\ UNCHANGED <<jobs, call, jobid, effect>>

(* mutant: two daemons share a port                                        *)
BindAnyhow(d) ==
  /\ daemon[d] = "starting"
  /\ daemon' = [daemon EXCEPT ![d] = "listening"]
  /\ UNCHANGED <<phase, port, jobs, call, jobid, effect>>

Bind(d) ==
  /\ daemon[d] = "starting"
  /\ daemon' = [daemon EXCEPT ![d] = IF ListeningOn(port[d]) = {} THEN "listening" ELSE "dead"]
  /\ UNCHANGED <<phase, port, jobs, call, jobid, effect>>

DaemonDies(d) ==
  /\ daemon[d] \in {"starting", "listening"}
  /\ daemon' = [daemon EXCEPT ![d] = "dead"]
  /\ UNCHANGED <<phase, port, jobs, call, jobid, effect>>

(* await_ready and confirm_fast_list.                                      *)
AwaitReady(c) ==
  /\ phase[c] = "starting"
  /\ Answering(c) # {}
  /\ phase' = [phase EXCEPT ![c] = "ready"]
  /\ UNCHANGED <<port, daemon, jobs, call, jobid, effect>>

-----------------------------------------------------------------------------
(* Calls.                                                                  *)
Waiting(k) == call[k] = "waiting"

Tell(k, what) == call' = [call EXCEPT ![k] = what]

(* The request reaches a daemon, and its job id, if it was to be one,      *)
(* comes back, or the request or that first response is lost.              *)
Post(k) ==
  LET c == CallerOf[k] IN
  /\ phase[c] = "ready" /\ call[k] = "unasked"
  /\ \/ Tell(k, "error") /\ UNCHANGED <<jobs, jobid>>
     \/ \E d \in Answering(c) :
          /\ jobs' = [jobs EXCEPT ![d] = Append(@, [of |-> k, state |-> "running"])]
          /\ \/ Tell(k, "waiting") /\ jobid' = [jobid EXCEPT ![k] = Len(jobs'[d])]
             \/ Tell(k, "error") /\ UNCHANGED jobid
  /\ UNCHANGED <<phase, port, daemon, effect>>

(* The daemon finishes a job; one that failed may have taken effect.       *)
Work(d, i) ==
  /\ daemon[d] = "listening"
  /\ jobs[d][i].state = "running"
  /\ \E ended \in {"done", "failed"} :
       /\ jobs' = [jobs EXCEPT ![d][i].state = ended]
       /\ \/ effect' = effect \cup {jobs[d][i].of}
          \/ ended = "failed" /\ UNCHANGED effect
  /\ UNCHANGED <<phase, port, daemon, call, jobid>>

(* What these daemons know of k's job, which has no name but its number.   *)
StatusAt(k, daemons) ==
  {jobs[d][jobid[k]].state : d \in {e \in daemons : jobid[k] \in DOMAIN jobs[e]}}

Status(k) == StatusAt(k, Answering(CallerOf[k]))

(* mutant: the job's own error is not looked at                            *)
AwaitJobUnchecked(k) ==
  /\ k \in Polled /\ Waiting(k) /\ phase[CallerOf[k]] = "ready"
  /\ Status(k) # {"running"}
  /\ Tell(k, IF Status(k) = {} THEN "error" ELSE "ok")
  /\ UNCHANGED <<phase, port, daemon, jobs, jobid, effect>>

(* mutant: a poll that gets no answer is tried again                       *)
AwaitJobStubbornly(k) ==
  /\ k \in Polled /\ Waiting(k) /\ phase[CallerOf[k]] = "ready"
  /\ \E s \in Status(k) \ {"running"} : Tell(k, IF s = "done" THEN "ok" ELSE "error")
  /\ UNCHANGED <<phase, port, daemon, jobs, jobid, effect>>

(* await_job: a poll that finds the job finished, or no daemon or no such  *)
(* job.  There is no other end to it: it polls a running job for ever.     *)
AwaitJob(k) ==
  /\ k \in Polled /\ Waiting(k) /\ phase[CallerOf[k]] = "ready"
  /\ Status(k) # {"running"}
  /\ \/ \E s \in Status(k) : Tell(k, IF s = "done" THEN "ok" ELSE "error")
     \/ Status(k) = {} /\ Tell(k, "error")
  /\ UNCHANGED <<phase, port, daemon, jobs, jobid, effect>>

(* One request that fails, while its job goes on.                          *)
PollFails(k) ==
  /\ Waiting(k) /\ phase[CallerOf[k]] = "ready"
  /\ Tell(k, "error")
  /\ UNCHANGED <<phase, port, daemon, jobs, jobid, effect>>

(* The other calls wait on the connection they were sent on.               *)
Respond(k) ==
  LET c == CallerOf[k] IN
  /\ k \notin Polled /\ Waiting(k) /\ phase[c] = "ready"
  /\ \/ daemon[c] = "dead" /\ Tell(k, "error")
     \/ \E s \in StatusAt(k, {c}) \ {"running"} : Tell(k, IF s = "done" THEN "ok" ELSE "error")
  /\ UNCHANGED <<phase, port, daemon, jobs, jobid, effect>>

-----------------------------------------------------------------------------
(* How a command ends.                                                     *)

(* shutdown, once all answers are in.  core/quit is acknowledged at once   *)
(* and the daemon goes later.                                              *)
Quit(c) ==
  /\ phase[c] = "ready"
  /\ \A k \in Calls : CallerOf[k] = c => ~Waiting(k)
  /\ phase' = [phase EXCEPT ![c] = "quitting"]
  /\ UNCHANGED <<port, daemon, jobs, call, jobid, effect>>

(* mutant: the acknowledgement of core/quit is taken for its exit          *)
ReapPolitely(c) ==
  /\ phase[c] = "quitting"
  /\ phase' = [phase EXCEPT ![c] = "over"]
  /\ UNCHANGED <<port, daemon, jobs, call, jobid, effect>>

(* After the grace the child is killed and waited for.                     *)
Reap(c) ==
  /\ phase[c] = "quitting"
  /\ phase' = [phase EXCEPT ![c] = "over"]
  /\ daemon' = [daemon EXCEPT ![c] = "dead"]
  /\ UNCHANGED <<port, jobs, call, jobid, effect>>

(* An error ends the command: its calls are dropped, and Drop kills the    *)
(* child.  At the start it is the deadline of await_ready.                 *)
Abandon(c, at) ==
  /\ phase[c] = at
  /\ phase' = [phase EXCEPT ![c] = "over"]
  /\ daemon' = [daemon EXCEPT ![c] = "dead"]
  /\ UNCHANGED <<port, jobs, call, jobid, effect>>

(* kill -9, or process::exit at the second Ctrl-C: no Drop runs.           *)
Killed(c) ==
  /\ phase[c] \in {"starting", "ready", "quitting"}
  /\ phase' = [phase EXCEPT ![c] = "killed"]
  /\ UNCHANGED <<port, daemon, jobs, call, jobid, effect>>

-----------------------------------------------------------------------------
Command(c) == FreeLoopbackPort(c) \/ AwaitReady(c) \/ Quit(c) \/ Reap(c) \/ Killed(c)
              \/ Abandon(c, "starting") \/ Abandon(c, "ready")

Daemon(d) == Bind(d) \/ DaemonDies(d) \/ \E i \in DOMAIN jobs[d] : Work(d, i)

Call(k) == Post(k) \/ AwaitJob(k) \/ PollFails(k) \/ Respond(k)

Next ==
  \/ \E c \in Commands : Command(c) \/ Daemon(c)
  \/ \E k \in Calls : Call(k)

(* Polling goes on, responses are read, and a daemon that lives finishes   *)
(* what it was asked: rclone gives up on a transfer that stalls.  Nobody   *)
(* need fail, die or be killed.                                            *)
Fairness ==
  /\ \A k \in Calls : WF_vars(AwaitJob(k)) /\ WF_vars(Respond(k))
  /\ \A d \in Commands : WF_vars(\E i \in DOMAIN jobs[d] : Work(d, i))
  /\ \A c \in Commands : WF_vars(Bind(c)) /\ WF_vars(Reap(c)) /\ WF_vars(AwaitReady(c) \/ Abandon(c, "starting"))

Spec == Init /\ [][Next]_vars /\ Fairness

-----------------------------------------------------------------------------
Phases == {"new", "starting", "ready", "quitting", "over", "killed"}

TypeOK ==
  /\ phase \in [Commands -> Phases]
  /\ port \in [Commands -> Ports \cup {None}]
  /\ daemon \in [Commands -> {"none", "starting", "listening", "dead"}]
  /\ \A c \in Commands : jobs[c] \in Seq([of : Calls, state : {"running", "done", "failed"}])
  /\ call \in [Calls -> {"unasked", "waiting", "ok", "error"}]
  /\ jobid \in [Calls -> Nat]
  /\ effect \subseteq Calls
  /\ \A p \in Ports : Cardinality(ListeningOn(p)) <= 1

Contract ==
  INSTANCE RemoteCalls WITH
    answer <- call,
    over   <- {c \in Commands : phase[c] = "over"},
    killed <- {c \in Commands : phase[c] = "killed"}

(* The trait is kept: success means the effect took place, and after the   *)
(* end of a command that was not killed nothing it asked for still lands,  *)
(* although polls fail, jobs go on after their callers gave up, every      *)
(* daemon numbers its jobs from one, and another's daemon may come to      *)
(* listen on a command's port.                                             *)
KeepsContract == Contract!Spec

(* Every call is answered, unless its command goes: no listing, transfer   *)
(* or purge waits for a daemon that is no longer there.                    *)
EveryCallAnswered ==
  \A k \in Calls : Waiting(k) ~> (~Waiting(k) \/ phase[CallerOf[k]] \in {"over", "killed"})
=============================================================================
