--------------------------- MODULE TransferProofs ---------------------------
(***************************************************************************)
(* How bytes get here.  First, the rclone daemons keep the contract of the *)
(* Remote trait (module Rcd), for any number of commands, calls and ports. *)
(* Then the directories that downloads go to (module Staging), for any     *)
(* files and versions, over any runs and kills: no download is lost on the *)
(* way to the job it was made for, nor made twice.                         *)
(***************************************************************************)
EXTENDS Rcd, Staging, FiniteSetTheorems, TLAPS

JobStates == {"running", "done", "failed"}

JobRecord == [of : Calls, state : JobStates]

WellFormed ==
  /\ phase \in [Commands -> Phases]
  /\ port \in [Commands -> Ports \cup {None}]
  /\ daemon \in [Commands -> {"none", "starting", "listening", "dead"}]
  /\ jobs \in [Commands -> Seq(JobRecord)]
  /\ call \in [Calls -> {"unasked", "waiting", "ok", "error"}]
  /\ jobid \in [Calls -> Nat]
  /\ effect \subseteq Calls

(* No two daemons listen on one port.                                      *)
OneListener ==
  \A d, e \in Commands :
    daemon[d] = "listening" /\ daemon[e] = "listening" /\ port[d] = port[e] => d = e

(* No daemon outlives the end of its command.                              *)
Reaped == \A c \in Commands : phase[c] = "over" => daemon[c] = "dead"

(* A daemon works for its own command alone, on what was asked of it, and  *)
(* a job is done when it took effect.                                      *)
OwnJobs ==
  \A d \in Commands : \A i \in 1..Len(jobs[d]) :
    /\ CallerOf[jobs[d][i].of] = d
    /\ call[jobs[d][i].of] # "unasked"
    /\ jobs[d][i].state = "done" => jobs[d][i].of \in effect

(* The number a caller polls, or the connection it waits on, is that of    *)
(* its own job.                                                            *)
OwnNumber ==
  \A k \in Calls : call[k] = "waiting" =>
    /\ jobid[k] \in 1..Len(jobs[CallerOf[k]])
    /\ jobs[CallerOf[k]][jobid[k]].of = k

(* What was reported as done is done.                                      *)
TrulyDone == \A k \in Calls : call[k] = "ok" => k \in effect

IInv == WellFormed /\ OneListener /\ Reaped /\ OwnJobs /\ OwnNumber /\ TrulyDone

-----------------------------------------------------------------------------
(* The password shuts out every daemon but the command's own.              *)
LEMMA OnlyOwnAnswers ==
  ASSUME NEW c \in Commands
  PROVE  Answering(c) \subseteq {c}
  BY DEF Answering

(* So what a caller learns of its job is the state of its own job, which   *)
(* is done only when the call took effect.                                 *)
LEMMA StatusIsTrue ==
  ASSUME IInv, NEW k \in Calls, Waiting(k),
         "done" \in Status(k) \/ "done" \in StatusAt(k, {CallerOf[k]})
  PROVE  k \in effect
  <1> DEFINE c == CallerOf[k]
  <1>1. c \in Commands
    BY RcdAssumption
  <1>2. Status(k) \subseteq StatusAt(k, {c})
    BY <1>1, OnlyOwnAnswers DEF Status, StatusAt
  <1>3. jobs[c][jobid[k]].state = "done"
    BY <1>2 DEF StatusAt
  <1>4. jobid[k] \in 1..Len(jobs[c]) /\ jobs[c][jobid[k]].of = k
    BY DEF IInv, OwnNumber, Waiting
  <1> QED
    BY <1>1, <1>3, <1>4 DEF IInv, OwnJobs

(* Nothing was asked and nothing runs.                                     *)
LEMMA InitHolds == Init => IInv
  <1> SUFFICES ASSUME Init PROVE IInv
    OBVIOUS
  <1>1. << >> \in Seq(JobRecord) /\ Len(<< >>) = 0
    OBVIOUS
  <1> QED
    BY <1>1, RcdAssumption DEF Init, IInv, WellFormed, OneListener, Reaped, OwnJobs, OwnNumber, TrulyDone, Phases

(* A daemon that starts, dies or takes a port changes no job.              *)
LEMMA DaemonKeeps ==
  ASSUME IInv, NEW d \in Commands, Bind(d) \/ DaemonDies(d)
  PROVE  IInv'
  <1>1. PICK s \in {"listening", "dead"} :
          /\ daemon' = [daemon EXCEPT ![d] = s]
          /\ daemon[d] # "dead"
          /\ s = "listening" => ListeningOn(port[d]) = {}
    BY DEF Bind, DaemonDies
  <1>2. UNCHANGED <<phase, port, jobs, call, jobid, effect>>
    BY DEF Bind, DaemonDies
  <1>3. OneListener'
    BY <1>1, <1>2 DEF IInv, WellFormed, OneListener, ListeningOn
  <1>4. WellFormed' /\ Reaped'
    BY <1>1, <1>2 DEF IInv, WellFormed, Reaped
  <1> QED
    BY <1>2, <1>3, <1>4 DEF IInv, OwnJobs, OwnNumber, TrulyDone

(* A command that picks a port, is ready, quits, ends or is killed changes *)
(* no job either.                                                          *)
LEMMA CommandKeeps ==
  ASSUME IInv, NEW c \in Commands, Command(c)
  PROVE  IInv'
  <1>1. UNCHANGED <<jobs, call, jobid, effect>>
    BY DEF Command, FreeLoopbackPort, AwaitReady, Quit, Reap, Killed, Abandon
  <1>2. WellFormed'
    BY <1>1 DEF Command, FreeLoopbackPort, AwaitReady, Quit, Reap, Killed, Abandon, IInv, WellFormed, Phases
  <1>3. OneListener'
    BY DEF Command, FreeLoopbackPort, AwaitReady, Quit, Reap, Killed, Abandon, IInv, WellFormed, OneListener
  <1>4. Reaped'
    BY DEF Command, FreeLoopbackPort, AwaitReady, Quit, Reap, Killed, Abandon, IInv, WellFormed, Reaped
  <1> QED
    BY <1>1, <1>2, <1>3, <1>4 DEF IInv, OwnJobs, OwnNumber, TrulyDone

(* A request that reaches a daemon adds a job at the end of its list, and  *)
(* the number that comes back is that of this job.                         *)
LEMMA PostKeeps ==
  ASSUME IInv, NEW k \in Calls, Post(k)
  PROVE  IInv'
  <1> DEFINE c == CallerOf[k]
             job == [of |-> k, state |-> "running"]
  <1>1. c \in Commands /\ call[k] = "unasked"
    BY RcdAssumption DEF Post
  <1>2. UNCHANGED <<phase, port, daemon, effect>>
    BY DEF Post
  <1>3. CASE Tell(k, "error") /\ UNCHANGED <<jobs, jobid>>
    BY <1>1, <1>2, <1>3
    DEF Tell, IInv, WellFormed, OneListener, Reaped, OwnJobs, OwnNumber, TrulyDone
  <1>4. CASE \E d \in Answering(c) :
               /\ jobs' = [jobs EXCEPT ![d] = Append(@, job)]
               /\ \/ Tell(k, "waiting") /\ jobid' = [jobid EXCEPT ![k] = Len(jobs'[d])]
                  \/ Tell(k, "error") /\ UNCHANGED jobid
    <2>1. jobs' = [jobs EXCEPT ![c] = Append(@, job)]
      BY <1>1, <1>4, OnlyOwnAnswers
    <2>2. jobs[c] \in Seq(JobRecord) /\ job \in JobRecord
      BY <1>1 DEF IInv, WellFormed, JobRecord, JobStates
    <2>3. /\ jobs'[c] \in Seq(JobRecord) /\ Len(jobs'[c]) = Len(jobs[c]) + 1
          /\ \A i \in 1..Len(jobs[c]) : jobs'[c][i] = jobs[c][i]
          /\ jobs'[c][Len(jobs[c]) + 1] = job
          /\ Len(jobs[c]) \in Nat
      BY <1>1, <2>1, <2>2 DEF IInv, WellFormed
    <2>4. \A d \in Commands : d # c => jobs'[d] = jobs[d]
      BY <2>1 DEF IInv, WellFormed
    <2>5. PICK what \in {"waiting", "error"} : call' = [call EXCEPT ![k] = what]
      BY <1>4 DEF Tell
    <2>6. \/ call'[k] = "error" /\ jobid' = jobid
          \/ call'[k] = "waiting" /\ jobid' = [jobid EXCEPT ![k] = Len(jobs'[c])]
      BY <1>1, <1>4, OnlyOwnAnswers DEF Tell, IInv, WellFormed
    <2>7. WellFormed'
      <3>1. jobs' \in [Commands -> Seq(JobRecord)]
        BY <1>1, <2>1, <2>2, <2>3 DEF IInv, WellFormed
      <3>2. jobid' \in [Calls -> Nat]
        BY <2>3, <2>6 DEF IInv, WellFormed
      <3> QED
        BY <1>2, <2>5, <3>1, <3>2 DEF IInv, WellFormed
    <2>8. OwnJobs'
      <3>1. ASSUME NEW d \in Commands, NEW i \in 1..Len(jobs'[d])
            PROVE  /\ CallerOf[jobs'[d][i].of] = d
                   /\ call'[jobs'[d][i].of] # "unasked"
                   /\ jobs'[d][i].state = "done" => jobs'[d][i].of \in effect
        <4>1. CASE d = c /\ i = Len(jobs[c]) + 1
          BY <2>3, <2>5, <4>1 DEF IInv, WellFormed
        <4>2. CASE ~(d = c /\ i = Len(jobs[c]) + 1)
          <5>1. i \in 1..Len(jobs[d]) /\ jobs'[d][i] = jobs[d][i]
            BY <2>3, <2>4, <3>1, <4>2
          <5>2. jobs[d] \in Seq(JobRecord)
            BY DEF IInv, WellFormed
          <5>3. jobs[d][i] \in JobRecord
            BY <5>1, <5>2
          <5>4. jobs[d][i].of \in Calls
            BY <5>3 DEF JobRecord
          <5> QED
            BY <2>5, <5>1, <5>4 DEF IInv, WellFormed, OwnJobs
        <4> QED
          BY <4>1, <4>2
      <3> QED
        BY <1>2, <3>1 DEF OwnJobs
    <2>9. OwnNumber'
      <3>1. ASSUME NEW l \in Calls, call'[l] = "waiting"
            PROVE  /\ jobid'[l] \in 1..Len(jobs'[CallerOf[l]])
                   /\ jobs'[CallerOf[l]][jobid'[l]].of = l
        <4>1. CASE l = k
          BY <2>3, <2>6, <3>1, <4>1 DEF IInv, WellFormed
        <4>2. CASE l # k
          <5>1. call[l] = "waiting" /\ jobid'[l] = jobid[l] /\ CallerOf[l] \in Commands
            BY <2>5, <2>6, <3>1, <4>2, RcdAssumption DEF IInv, WellFormed
          <5>2. /\ jobid[l] \in 1..Len(jobs[CallerOf[l]])
                /\ jobs[CallerOf[l]][jobid[l]].of = l
            BY <5>1 DEF IInv, OwnNumber
          <5>3. CASE CallerOf[l] = c
            <6>1. jobid[l] \in 1..Len(jobs[c]) /\ jobs[c][jobid[l]].of = l
              BY <5>2, <5>3
            <6>2. jobid[l] \in 1..Len(jobs'[c]) /\ jobs'[c][jobid[l]].of = l
              BY <2>3, <6>1
            <6> QED
              BY <5>1, <5>3, <6>2
          <5>4. CASE CallerOf[l] # c
            <6>1. jobs'[CallerOf[l]] = jobs[CallerOf[l]]
              BY <2>4, <5>1, <5>4
            <6> QED
              BY <5>1, <5>2, <6>1
          <5> QED
            BY <5>3, <5>4
        <4> QED
          BY <4>1, <4>2
      <3> QED
        BY <3>1 DEF OwnNumber
    <2> QED
      BY <1>2, <2>5, <2>7, <2>8, <2>9 DEF IInv, WellFormed, OneListener, Reaped, TrulyDone
  <1> QED
    BY <1>3, <1>4 DEF Post

(* A daemon ends a job, and one that is done took effect.                  *)
LEMMA WorkKeeps ==
  ASSUME IInv, NEW d \in Commands, NEW i \in DOMAIN jobs[d], Work(d, i)
  PROVE  IInv'
  <1>1. jobs[d] \in Seq(JobRecord) /\ i \in 1..Len(jobs[d]) /\ jobs[d][i] \in JobRecord
    BY DEF IInv, WellFormed
  <1>2. UNCHANGED <<phase, port, daemon, call, jobid>>
    BY DEF Work
  <1>3. PICK ended \in {"done", "failed"} :
          /\ jobs' = [jobs EXCEPT ![d][i].state = ended]
          /\ \/ effect' = effect \cup {jobs[d][i].of}
             \/ ended = "failed" /\ UNCHANGED effect
    BY DEF Work
  <1> DEFINE job == [jobs[d][i] EXCEPT !.state = ended]
  <1>4. job \in JobRecord /\ job.of = jobs[d][i].of /\ job.state = ended
    BY <1>1 DEF JobRecord, JobStates
  <1>5. jobs' = [jobs EXCEPT ![d] = [jobs[d] EXCEPT ![i] = job]]
    BY <1>3
  <1> HIDE DEF job
  <1>6. /\ jobs'[d] \in Seq(JobRecord) /\ Len(jobs'[d]) = Len(jobs[d]) /\ jobs'[d][i] = job
        /\ \A j \in 1..Len(jobs[d]) : j # i => jobs'[d][j] = jobs[d][j]
    BY <1>1, <1>4, <1>5 DEF IInv, WellFormed
  <1>7. \A e \in Commands : e # d => jobs'[e] = jobs[e]
    BY <1>5 DEF IInv, WellFormed
  <1>8. ASSUME NEW e \in Commands, NEW j \in 1..Len(jobs'[e])
        PROVE  /\ j \in 1..Len(jobs[e])
               /\ jobs'[e][j].of = jobs[e][j].of
               /\ jobs'[e][j].state = "done" =>
                    jobs[e][j].state = "done" \/ jobs'[e][j].of \in effect'
    <2>1. CASE e = d /\ j = i
      BY <1>1, <1>3, <1>4, <1>6, <2>1
    <2>2. CASE ~(e = d /\ j = i)
      BY <1>6, <1>7, <1>8, <2>2
    <2> QED
      BY <2>1, <2>2
  <1>9. effect \subseteq effect' /\ effect' \subseteq Calls
    BY <1>1, <1>3 DEF IInv, WellFormed, JobRecord
  <1>10. WellFormed'
    <2>1. jobs' \in [Commands -> Seq(JobRecord)]
      BY <1>5, <1>6 DEF IInv, WellFormed
    <2> QED
      BY <1>2, <1>9, <2>1 DEF IInv, WellFormed
  <1>11. OwnJobs'
    BY <1>2, <1>8, <1>9 DEF IInv, OwnJobs
  <1>12. OwnNumber'
    <2>1. ASSUME NEW k \in Calls, call[k] = "waiting"
          PROVE  /\ jobid[k] \in 1..Len(jobs'[CallerOf[k]])
                 /\ jobs'[CallerOf[k]][jobid[k]].of = k
      <3>1. CallerOf[k] \in Commands
        BY RcdAssumption
      <3>2. jobid[k] \in 1..Len(jobs'[CallerOf[k]])
        BY <1>6, <1>7, <2>1, <3>1 DEF IInv, OwnNumber
      <3> QED
        BY <1>8, <2>1, <3>1, <3>2 DEF IInv, OwnNumber
    <2> QED
      BY <1>2, <2>1 DEF OwnNumber
  <1> QED
    BY <1>2, <1>9, <1>10, <1>11, <1>12 DEF IInv, OneListener, Reaped, TrulyDone

(* A caller is told of its own job.                                        *)
LEMMA AnswerKeeps ==
  ASSUME IInv, NEW k \in Calls, AwaitJob(k) \/ PollFails(k) \/ Respond(k)
  PROVE  IInv'
  <1>1. UNCHANGED <<phase, port, daemon, jobs, jobid, effect>>
    BY DEF AwaitJob, PollFails, Respond
  <1>2. Waiting(k)
    BY DEF AwaitJob, PollFails, Respond
  <1>3. PICK what \in {"ok", "error"} :
          call' = [call EXCEPT ![k] = what] /\ (what = "ok" => k \in effect)
    BY <1>2, StatusIsTrue DEF AwaitJob, PollFails, Respond, Tell
  <1>4. \A l \in Calls : /\ call'[l] # call[l] => l = k /\ call'[l] = what
                         /\ call'[l] \in {call[l], "ok", "error"}
    BY <1>3 DEF IInv, WellFormed
  <1>5. WellFormed'
    BY <1>1, <1>3 DEF IInv, WellFormed
  <1>6. OwnJobs' /\ OwnNumber' /\ TrulyDone'
    <2>1. ASSUME NEW d \in Commands, NEW i \in 1..Len(jobs[d])
          PROVE  jobs[d][i].of \in Calls
      <3>1. jobs[d] \in Seq(JobRecord)
        BY DEF IInv, WellFormed
      <3>2. jobs[d][i] \in JobRecord
        BY <2>1, <3>1
      <3> QED
        BY <3>2 DEF JobRecord
    <2> QED
      BY <1>1, <1>3, <1>4, <2>1 DEF IInv, OwnJobs, OwnNumber, TrulyDone
  <1> QED
    BY <1>1, <1>5, <1>6 DEF IInv, OneListener, Reaped

-----------------------------------------------------------------------------
(* Every state of every execution satisfies the invariant.                 *)
THEOREM Invariance == Spec => []IInv
  <1>1. IInv /\ [Next]_vars => IInv'
    <2> SUFFICES ASSUME IInv, [Next]_vars PROVE IInv'
      OBVIOUS
    <2>1. ASSUME NEW c \in Commands, Command(c) PROVE IInv'
      BY <2>1, CommandKeeps
    <2>2. ASSUME NEW d \in Commands, Daemon(d) PROVE IInv'
      BY <2>2, DaemonKeeps, WorkKeeps DEF Daemon
    <2>3. ASSUME NEW k \in Calls, Call(k) PROVE IInv'
      BY <2>3, PostKeeps, AnswerKeeps DEF Call
    <2>4. CASE UNCHANGED vars
      BY <2>4 DEF vars, IInv, WellFormed, OneListener, Reaped, OwnJobs, OwnNumber, TrulyDone
    <2> QED
      BY <2>1, <2>2, <2>3, <2>4 DEF Next
  <1> QED
    BY <1>1, InitHolds, PTL DEF Spec

(* The processes and their jobs are well formed, and no port has two       *)
(* daemons (RcdRemote::spawn).                                             *)
THEOREM TypeCorrect == Spec => []TypeOK
  <1>1. IInv => TypeOK
    <2> SUFFICES ASSUME IInv PROVE TypeOK
      OBVIOUS
    <2>1. ASSUME NEW p \in Ports
          PROVE  Cardinality(ListeningOn(p)) <= 1
      <3>1. CASE ListeningOn(p) = {}
        BY <3>1, FS_EmptySet
      <3>2. CASE \E d \in Commands : d \in ListeningOn(p)
        <4>1. PICK d \in Commands : d \in ListeningOn(p)
          BY <3>2
        <4>2. ListeningOn(p) = {d}
          BY <4>1 DEF ListeningOn, IInv, OneListener
        <4> QED
          BY <4>2, FS_Singleton
      <3> QED
        BY <3>1, <3>2 DEF ListeningOn
    <2>2. \A c \in Commands : jobs[c] \in Seq([of : Calls, state : {"running", "done", "failed"}])
      BY DEF IInv, WellFormed, JobRecord, JobStates
    <2> QED
      BY <2>1, <2>2 DEF IInv, WellFormed, TypeOK
  <1> QED
    BY <1>1, Invariance, PTL

-----------------------------------------------------------------------------
(* What the contract sees of a step.                                       *)
Over == {c \in Commands : phase[c] = "over"}
Slain == {c \in Commands : phase[c] = "killed"}

(* A step that leaves the phases alone leaves the commands running.        *)
LEMMA ReadyIsNotGone ==
  ASSUME NEW k \in Calls, phase[CallerOf[k]] = "ready"
  PROVE  CallerOf[k] \notin Over \cup Slain
  BY DEF Over, Slain

(* A command's step ends it, kills it, or is none of the contract's.       *)
LEMMA CommandMaps ==
  ASSUME IInv, NEW c \in Commands, Command(c)
  PROVE  Contract!End(c) \/ Contract!Kill(c) \/ UNCHANGED Contract!vars
  <1>1. UNCHANGED <<call, effect>>
    BY DEF Command, FreeLoopbackPort, AwaitReady, Quit, Reap, Killed, Abandon
  <1>2. phase \in [Commands -> Phases]
    BY DEF IInv, WellFormed
  <1>3. CASE Reap(c) \/ Abandon(c, "starting") \/ Abandon(c, "ready")
    <2>1. phase' = [phase EXCEPT ![c] = "over"] /\ phase[c] \in {"quitting", "starting", "ready"}
      BY <1>3 DEF Reap, Abandon
    <2>2. c \notin Over \cup Slain /\ Over' = Over \cup {c} /\ Slain' = Slain
      BY <1>2, <2>1 DEF Over, Slain
    <2> QED
      BY <1>1, <2>2 DEF Contract!End, Contract!Gone, Over, Slain
  <1>4. CASE Killed(c)
    <2>1. phase' = [phase EXCEPT ![c] = "killed"] /\ phase[c] \in {"quitting", "starting", "ready"}
      BY <1>4 DEF Killed
    <2>2. c \notin Over \cup Slain /\ Slain' = Slain \cup {c} /\ Over' = Over
      BY <1>2, <2>1 DEF Over, Slain
    <2> QED
      BY <1>1, <2>2 DEF Contract!Kill, Contract!Gone, Over, Slain
  <1>5. CASE FreeLoopbackPort(c) \/ AwaitReady(c) \/ Quit(c)
    <2>1. \E p \in {"starting", "ready", "quitting"} :
            phase' = [phase EXCEPT ![c] = p] /\ phase[c] \in {"new", "starting", "ready"}
      BY <1>5 DEF FreeLoopbackPort, AwaitReady, Quit
    <2>2. Over' = Over /\ Slain' = Slain
      BY <1>2, <2>1 DEF Over, Slain
    <2> QED
      BY <1>1, <2>2 DEF Contract!vars, Over, Slain
  <1> QED
    BY <1>3, <1>4, <1>5 DEF Command

(* A daemon's step lets a call take effect that was asked and may still    *)
(* do so, or is none of the contract's.                                    *)
LEMMA DaemonMaps ==
  ASSUME IInv, NEW d \in Commands, Daemon(d)
  PROVE  (\E k \in Calls : Contract!TakeEffect(k)) \/ UNCHANGED Contract!vars
  <1>1. UNCHANGED <<call, phase>>
    BY DEF Daemon, Bind, DaemonDies, Work
  <1>2. Over' = Over /\ Slain' = Slain
    BY <1>1 DEF Over, Slain
  <1>3. CASE effect' = effect
    BY <1>1, <1>2, <1>3 DEF Contract!vars, Over, Slain
  <1>4. CASE effect' # effect
    <2>1. PICK i \in DOMAIN jobs[d] : Work(d, i)
      BY <1>4 DEF Daemon, Bind, DaemonDies
    <2> DEFINE k == jobs[d][i].of
    <2>2. effect' = effect \cup {k} /\ k \notin effect /\ daemon[d] = "listening"
      BY <1>4, <2>1 DEF Work
    <2>3. jobs[d] \in Seq(JobRecord) /\ i \in 1..Len(jobs[d])
      BY DEF IInv, WellFormed
    <2>4. jobs[d][i] \in JobRecord
      BY <2>3
    <2>5. k \in Calls /\ CallerOf[k] = d /\ call[k] # "unasked"
      BY <2>3, <2>4 DEF JobRecord, IInv, OwnJobs
    <2>6. call[k] \in {"waiting", "error"}
      BY <2>2, <2>5 DEF IInv, WellFormed, TrulyDone
    <2>7. CallerOf[k] \notin Over
      BY <2>2, <2>5 DEF Over, IInv, Reaped
    <2>8. Contract!TakeEffect(k)
      BY <1>1, <1>2, <2>2, <2>6, <2>7 DEF Contract!TakeEffect, Over, Slain
    <2> QED
      BY <2>5, <2>8
  <1> QED
    BY <1>3, <1>4

(* A call's step asks, or brings the answer, of a command that is there;   *)
(* success, only of a call that took effect.                               *)
LEMMA CallMaps ==
  ASSUME IInv, NEW k \in Calls, Call(k)
  PROVE  Contract!Ask(k) \/ Contract!Succeed(k) \/ Contract!Fail(k)
  <1>1. UNCHANGED <<phase, effect>> /\ phase[CallerOf[k]] = "ready"
    BY DEF Call, Post, AwaitJob, PollFails, Respond
  <1>2. CallerOf[k] \notin Over \cup Slain /\ Over' = Over /\ Slain' = Slain
    BY <1>1, ReadyIsNotGone DEF Over, Slain
  <1>3. \/ call[k] = "unasked" /\ Tell(k, "waiting")
        \/ call[k] \in {"unasked", "waiting"} /\ Tell(k, "error")
        \/ call[k] = "waiting" /\ Tell(k, "ok") /\ k \in effect
    <2>1. CASE Post(k)
      BY <2>1 DEF Post
    <2>2. CASE AwaitJob(k) \/ PollFails(k) \/ Respond(k)
      BY <2>2, StatusIsTrue DEF AwaitJob, PollFails, Respond, Waiting
    <2> QED
      BY <2>1, <2>2 DEF Call
  <1> QED
    BY <1>1, <1>2, <1>3
    DEF Tell, Contract!Ask, Contract!Succeed, Contract!Fail, Contract!Gone, Over, Slain

(* Every command of the tool, with its daemon, keeps the contract of the   *)
(* Remote trait: success is true, and nothing lands after an end that was  *)
(* not a kill (RcdRemote::call, call_async, await_job, shutdown, drop).    *)
THEOREM Refinement == Spec => KeepsContract
  <1>1. Init => Contract!Init
    BY DEF Init, Contract!Init
  <1>2. IInv /\ [Next]_vars => [Contract!Next]_(Contract!vars)
    <2> SUFFICES ASSUME IInv, [Next]_vars PROVE [Contract!Next]_(Contract!vars)
      OBVIOUS
    <2>1. ASSUME NEW c \in Commands, Command(c) PROVE [Contract!Next]_(Contract!vars)
      BY <2>1, CommandMaps DEF Contract!Next
    <2>2. ASSUME NEW d \in Commands, Daemon(d) PROVE [Contract!Next]_(Contract!vars)
      BY <2>2, DaemonMaps DEF Contract!Next
    <2>3. ASSUME NEW k \in Calls, Call(k) PROVE [Contract!Next]_(Contract!vars)
      BY <2>3, CallMaps DEF Contract!Next
    <2>4. CASE UNCHANGED vars
      BY <2>4 DEF vars, Contract!vars
    <2> QED
      BY <2>1, <2>2, <2>3, <2>4 DEF Next
  <1> QED
    BY <1>1, <1>2, Invariance, PTL DEF Spec, KeepsContract, Contract!Spec

-----------------------------------------------------------------------------
(* The directories that downloads go to (module Staging).                  *)

(* InputIsOwn and DownloadsKept are about one file, and neither is         *)
(* inductive: a job's directory is its own only if no other job has its    *)
(* number, and none adopts it; and its download is in one place only.      *)
AllVersions == UNION {Versions[f] : f \in Files}

Claims == [path : Files, version : AllVersions]
Inputs == [of : Files, version : AllVersions, whole : BOOLEAN]
Dirs   == [claim : Claims \cup {Nothing}, input : Inputs \cup {Nothing}]

WellKept ==
  /\ width \in Widths
  /\ dirs \in [JobIds -> Dirs \cup {Nothing}]
  /\ salvaged \in [Files -> JobIds \cup {Nothing}]
  /\ version \in [Files -> AllVersions] /\ \A f \in Files : version[f] \in Versions[f]
  /\ stage \in [Files -> Stages]
  /\ id \in [Files -> JobIds \cup {Nothing}]
  /\ from \in [Files -> JobIds \cup {Nothing}]
  /\ used \in [Files -> Inputs \cup {Nothing}]
  /\ nextId \in 0 .. Cardinality(Files)
  /\ up \in BOOLEAN
  /\ ~up => Active = {}

(* The files that had their number in this run.                            *)
Numbered == {f \in Files : stage[f] # "idle"}

(* Each job of a run has a number of its own, and there is one for every   *)
(* file.                                                                   *)
OwnNumbers ==
  up => /\ nextId = Cardinality(Numbered)
        /\ \A f \in Numbered : id[f] \in 0 .. nextId - 1
        /\ \A f, g \in Numbered : id[f] = id[g] => f = g

(* Two files never have the same directory in view.                        *)
OwnSalvage ==
  up => \A f, g \in Files : f # g =>
    /\ salvaged[f] = salvaged[g] => salvaged[f] = Nothing
    /\ stage[f] = "placing" /\ from[f] = salvaged[g] => from[f] = Nothing
    /\ stage[f] = "placing" /\ stage[g] = "placing" /\ from[f] = from[g] => from[f] = Nothing

(* A claim names a version its file had, and the bytes beside it, if they  *)
(* are all there, are of that file.                                        *)
Honest ==
  \A i \in JobIds : dirs[i] # Nothing /\ dirs[i].claim # Nothing =>
    /\ dirs[i].claim.version \in Versions[dirs[i].claim.path]
    /\ Reusable(dirs[i]) => dirs[i].input.of = dirs[i].claim.path

(* Until its bytes are there nobody else puts any into a job's directory,  *)
(* or another claim.                                                       *)
OwnDirectory ==
  up => \A f \in Files :
    /\ stage[f] = "claiming" =>
         dirs[id[f]] = Nothing \/ dirs[id[f]].input = Nothing
    /\ stage[f] = "downloading" =>
         dirs[id[f]] = Nothing \/ dirs[id[f]].claim \in {Nothing, Claim(f, version[f])}

(* A whole download of a file is in one directory, which the file's job    *)
(* has in view until it has one of its own.                                *)
OneHolder ==
  \A f \in Files :
    /\ \A i, j \in HoldersOf(f) : i = j
    /\ up => /\ stage[f] \in {"idle", "numbered"} => HoldersOf(f) \subseteq {salvaged[f]}
             /\ stage[f] = "placing" => HoldersOf(f) \subseteq {from[f]}
             /\ stage[f] \in {"claiming", "downloading"} => HoldersOf(f) = {}

FetchInv == WellKept /\ OwnNumbers /\ OwnSalvage /\ Honest /\ OwnDirectory /\ OneHolder

(* What is in a directory that a job has in view or works in, when jobs    *)
(* run one at a time.                                                      *)
Holds(f, i) ==
  dirs[i] = Nothing \/ (Reusable(dirs[i]) /\ dirs[i].claim.path = f)

InItsTurn ==
  width = 1 =>
    /\ \A f \in Files : used[f] # Nothing => used[f] = Bytes(f, version[f], TRUE)
    /\ up =>
         /\ \A f, g \in Active : f = g
         /\ \A f \in Files :
              /\ stage[f] \in {"idle", "numbered"} /\ salvaged[f] # Nothing =>
                   \/ Holds(f, salvaged[f])
                   \/ \E g \in Files \ {f} : stage[g] \in {"claiming", "downloading", "ready"}
                                               /\ id[g] = salvaged[f]
              /\ stage[f] = "placing" /\ from[f] # Nothing =>
                   /\ Holds(f, from[f])
                   /\ dirs[from[f]] # Nothing => dirs[from[f]].claim.version = version[f]
              /\ stage[f] = "ready" => InputOf(id[f]) \in {Nothing, Bytes(f, version[f], TRUE)}

-----------------------------------------------------------------------------
LEMMA NumbersAreNumbers ==
  JobIds \subseteq Nat /\ Nothing \notin JobIds /\ Cardinality(Files) \in Nat
  BY FS_CardinalityType, StagingAssumption DEF JobIds

LEMMA InitFetch == StagingInit => FetchInv /\ InItsTurn
  <1> SUFFICES ASSUME StagingInit PROVE FetchInv /\ InItsTurn
    OBVIOUS
  <1>1. WellKept
    <2>1. version \in [Files -> AllVersions] /\ \A f \in Files : version[f] \in Versions[f]
      BY DEF StagingInit, AllVersions
    <2>2. nextId \in 0 .. Cardinality(Files)
      BY NumbersAreNumbers DEF StagingInit
    <2>3. dirs \in [JobIds -> Dirs \cup {Nothing}]
      BY DEF StagingInit
    <2>4. Active = {}
      BY DEF StagingInit, Active
    <2> QED
      BY <2>1, <2>2, <2>3, <2>4 DEF StagingInit, WellKept, Stages, NoSalvage
  <1>2. OneHolder /\ Honest
    BY DEF StagingInit, OneHolder, HoldersOf, Reusable, Honest
  <1> QED
    BY <1>1, <1>2
    DEF StagingInit, FetchInv, OwnNumbers, OwnSalvage, OwnDirectory, InItsTurn

(* A step that takes directories away, or puts unfinished ones in their    *)
(* place, leaves no download in more places.                               *)
LEMMA FewerHolders ==
  ASSUME \A i \in JobIds : Reusable(dirs'[i]) => dirs'[i] = dirs[i]
  PROVE  \A f \in Files : HoldersOf(f)' \subseteq HoldersOf(f)
  BY DEF HoldersOf

(* What the steps of a job have in common that has looked for what was     *)
(* salvaged.                                                               *)
LEMMA JobMoves ==
  ASSUME FetchInv, NEW f \in Files, NEW b \in {"claiming", "downloading", "ready", "over"},
         up, UNCHANGED <<up, salvaged, id, from, nextId>>,
         stage[f] \notin {"idle", "numbered"}, stage' = [stage EXCEPT ![f] = b]
  PROVE  /\ OwnNumbers' /\ OwnSalvage'
         /\ id[f] \in JobIds /\ stage'[f] = b
         /\ \A g \in Files \ {f} : stage'[g] = stage[g] /\ (stage[g] # "idle" => id[g] # id[f])
  <1>1. stage'[f] = b /\ \A g \in Files \ {f} : stage'[g] = stage[g]
    BY DEF FetchInv, WellKept
  <1>2. Numbered' = Numbered /\ f \in Numbered
    BY <1>1 DEF Numbered
  <1>3. OwnNumbers'
    BY <1>2 DEF FetchInv, OwnNumbers
  <1>4. OwnSalvage'
    BY <1>1 DEF FetchInv, OwnSalvage
  <1>5. id[f] \in JobIds
    BY <1>2, NumbersAreNumbers DEF FetchInv, OwnNumbers, WellKept, JobIds
  <1>6. \A g \in Files \ {f} : stage[g] # "idle" => id[g] # id[f]
    BY <1>2 DEF FetchInv, OwnNumbers, Numbered
  <1> QED
    BY <1>1, <1>3, <1>4, <1>5, <1>6

LEMMA StartKeeps ==
  ASSUME FetchInv, Start
  PROVE  FetchInv'
  <1>1. \A i \in JobIds : dirs'[i] = IF Reusable(dirs[i]) THEN dirs[i] ELSE Nothing
    BY DEF Start
  <1>2. \A f : HoldersOf(f)' = HoldersOf(f)
    BY <1>1 DEF HoldersOf, Reusable
  <1>3. \A f \in Files : IF HoldersOf(f) = {} THEN salvaged'[f] = Nothing ELSE salvaged'[f] \in HoldersOf(f)
    BY DEF Start
  <1>4. Numbered' = {} /\ Active' = {} /\ \A f \in Files : stage'[f] = "idle"
    BY DEF Start, Numbered, Active
  <1>5. WellKept'
    <2>1. dirs' \in [JobIds -> Dirs \cup {Nothing}]
      BY DEF FetchInv, WellKept, Start
    <2>2. nextId' \in 0 .. Cardinality(Files)
      BY NumbersAreNumbers DEF Start
    <2> QED
      BY <1>4, <2>1, <2>2 DEF FetchInv, WellKept, Start, Stages
  <1>6. OwnNumbers'
    BY <1>4, FS_EmptySet DEF OwnNumbers, Start
  <1>7. OwnSalvage'
    <2>1. ASSUME NEW f \in Files, NEW g \in Files, f # g, salvaged'[f] = salvaged'[g],
                 salvaged'[f] # Nothing
          PROVE  FALSE
      <3>1. salvaged'[f] \in HoldersOf(f) /\ salvaged'[g] \in HoldersOf(g)
        BY <1>3, <2>1
      <3> QED
        BY <2>1, <3>1 DEF HoldersOf
    <2> QED
      BY <1>4, <2>1 DEF OwnSalvage
  <1>8. Honest'
    BY <1>1 DEF FetchInv, Honest, Start
  <1>9. OwnDirectory'
    BY <1>4 DEF OwnDirectory
  <1>10. OneHolder'
    <2>1. \A f \in Files : HoldersOf(f) \subseteq {salvaged'[f]}
      BY <1>3 DEF FetchInv, OneHolder
    <2> QED
      BY <1>2, <1>4, <2>1 DEF FetchInv, OneHolder
  <1> QED
    BY <1>5, <1>6, <1>7, <1>8, <1>9, <1>10 DEF FetchInv

(* While no run is on, only files change.                                  *)
LEMMA RestKeeps ==
  ASSUME FetchInv, Kill \/ Finish \/ (\E f \in Files : Edit(f))
  PROVE  FetchInv'
  <1>1. /\ up' = FALSE /\ UNCHANGED <<width, dirs, salvaged, id, from, used, nextId>>
        /\ stage' \in {stage, [f \in Files |-> "idle"]}
        /\ Active' = {}
    BY DEF Kill, Finish, Edit, Active, FetchInv, WellKept
  <1>2. version' \in [Files -> AllVersions] /\ \A f \in Files : version'[f] \in Versions[f]
    BY DEF Kill, Finish, Edit, FetchInv, WellKept, AllVersions
  <1>3. WellKept'
    BY <1>1, <1>2 DEF FetchInv, WellKept, Stages
  <1>4. Honest' /\ OneHolder'
    BY <1>1 DEF FetchInv, Honest, OneHolder, HoldersOf
  <1> QED
    BY <1>1, <1>3, <1>4 DEF FetchInv, OwnNumbers, OwnSalvage, OwnDirectory

LEMMA NumberKeeps ==
  ASSUME FetchInv, NEW f \in Files, Number(f)
  PROVE  FetchInv'
  <1>1. /\ up /\ up' /\ stage[f] = "idle" /\ stage'[f] = "numbered"
        /\ \A g \in Files \ {f} : stage'[g] = stage[g]
        /\ UNCHANGED <<dirs, salvaged, version, from>>
        /\ id'[f] = nextId /\ nextId' = nextId + 1
        /\ \A g \in Files \ {f} : id'[g] = id[g]
    BY DEF Number, Move, FetchInv, WellKept
  <1>2. Numbered' = Numbered \cup {f} /\ f \notin Numbered /\ Numbered \cup {f} \subseteq Files
    BY <1>1 DEF Numbered
  <1>3. IsFiniteSet(Numbered) /\ Cardinality(Numbered) \in Nat
    BY <1>2, FS_Subset, FS_CardinalityType, StagingAssumption
  <1>4. Cardinality(Numbered') = Cardinality(Numbered) + 1
    BY <1>2, <1>3, FS_AddElement
  <1>5. Cardinality(Numbered') <= Cardinality(Files)
    BY <1>2, FS_Subset, StagingAssumption
  <1>6. nextId = Cardinality(Numbered) /\ nextId \in JobIds
    BY <1>1, <1>3, <1>4, <1>5, NumbersAreNumbers DEF FetchInv, OwnNumbers, JobIds
  <1>7. WellKept'
    <2>1. nextId' \in 0 .. Cardinality(Files)
      BY <1>1, <1>3, <1>4, <1>5, <1>6, NumbersAreNumbers
    <2>2. id' \in [Files -> JobIds \cup {Nothing}]
      BY <1>6 DEF Number, FetchInv, WellKept
    <2> QED
      BY <1>1, <2>1, <2>2 DEF Number, Move, FetchInv, WellKept, Stages
  <1>8. OwnNumbers'
    <2>1. \A g \in Numbered : id'[g] = id[g] /\ id[g] \in 0 .. nextId - 1
      BY <1>1, <1>2 DEF FetchInv, OwnNumbers, Numbered
    <2>2. \A g \in Numbered' : id'[g] \in 0 .. nextId' - 1
      BY <1>1, <1>2, <1>3, <1>6, <2>1
    <2>3. \A g, h \in Numbered' : id'[g] = id'[h] => g = h
      <3>1. \A g \in Numbered : id'[g] # nextId
        BY <1>3, <1>6, <2>1
      <3>2. \A g, h \in Numbered : id[g] = id[h] => g = h
        BY <1>1 DEF FetchInv, OwnNumbers
      <3> QED
        BY <1>1, <1>2, <2>1, <3>1, <3>2
    <2> QED
      BY <1>1, <1>4, <1>6, <2>2, <2>3 DEF OwnNumbers
  <1>9. OwnSalvage' /\ Honest'
    BY <1>1 DEF FetchInv, OwnSalvage, Honest
  <1>10. OwnDirectory'
    BY <1>1 DEF FetchInv, OwnDirectory
  <1>11. OneHolder'
    <2>1. \A g : HoldersOf(g)' = HoldersOf(g)
      BY <1>1 DEF HoldersOf
    <2> QED
      BY <1>1, <2>1 DEF FetchInv, OneHolder
  <1> QED
    BY <1>7, <1>8, <1>9, <1>10, <1>11 DEF FetchInv

LEMMA TakeSalvagedKeeps ==
  ASSUME FetchInv, NEW f \in Files, TakeSalvaged(f)
  PROVE  FetchInv'
  <1>1. /\ up /\ up' /\ stage[f] = "numbered" /\ stage'[f] = "placing"
        /\ \A g \in Files \ {f} : stage'[g] = stage[g]
        /\ salvaged'[f] = Nothing /\ \A g \in Files \ {f} : salvaged'[g] = salvaged[g]
        /\ \A g \in Files \ {f} : from'[g] = from[g]
        /\ UNCHANGED <<width, version, id, used, nextId>>
    BY DEF TakeSalvaged, Move, FetchInv, WellKept
  <1>2. \/ from'[f] = Nothing /\ salvaged[f] = Nothing /\ dirs' = dirs
        \/ from'[f] = salvaged[f] /\ dirs' = dirs
        \/ /\ from'[f] = Nothing /\ salvaged[f] \in JobIds
           /\ dirs' = [dirs EXCEPT ![salvaged[f]] = Nothing]
    BY DEF TakeSalvaged, FetchInv, WellKept
  <1>3. /\ \A i \in JobIds : dirs'[i] \in {dirs[i], Nothing}
        /\ from'[f] \in {Nothing, salvaged[f]}
        /\ salvaged[f] \in JobIds /\ from'[f] # salvaged[f] => dirs'[salvaged[f]] = Nothing
    BY <1>2, NumbersAreNumbers DEF FetchInv, WellKept
  <1>4. WellKept'
    <2>1. /\ salvaged' \in [Files -> JobIds \cup {Nothing}]
          /\ from' \in [Files -> JobIds \cup {Nothing}]
          /\ stage' \in [Files -> Stages]
      BY DEF TakeSalvaged, Move, FetchInv, WellKept, Stages
    <2>2. dirs' \in [JobIds -> Dirs \cup {Nothing}]
      BY <1>2 DEF FetchInv, WellKept
    <2> QED
      BY <1>1, <2>1, <2>2 DEF TakeSalvaged, Move, FetchInv, WellKept
  <1>5. OwnNumbers'
    <2>1. Numbered' = Numbered
      BY <1>1 DEF Numbered
    <2> QED
      BY <1>1, <2>1 DEF FetchInv, OwnNumbers
  <1>6. OwnSalvage'
    BY <1>1, <1>3 DEF FetchInv, OwnSalvage
  <1>7. Honest'
    BY <1>3 DEF FetchInv, Honest
  <1>8. OwnDirectory'
    <2>1. ASSUME NEW g \in Files, stage'[g] \in {"claiming", "downloading"}
          PROVE  dirs'[id[g]] \in {dirs[id[g]], Nothing} /\ stage[g] = stage'[g]
      BY <1>1, <1>3, <2>1, NumbersAreNumbers DEF FetchInv, OwnNumbers, Numbered, WellKept, JobIds
    <2> QED
      BY <1>1, <2>1 DEF FetchInv, OwnDirectory
  <1>9. OneHolder'
    <2>1. \A g \in Files : HoldersOf(g)' \subseteq HoldersOf(g)
      BY <1>3, FewerHolders DEF Reusable
    <2>2. HoldersOf(f)' \subseteq {from'[f]}
      <3>1. ASSUME NEW i \in HoldersOf(f)' PROVE i = from'[f]
        <4>1. i \in JobIds /\ i = salvaged[f] /\ dirs'[i] # Nothing
          BY <1>1, <2>1, <3>1 DEF FetchInv, OneHolder, HoldersOf, Reusable
        <4> QED
          BY <1>3, <4>1
      <3> QED
        BY <3>1
    <2> QED
      BY <1>1, <2>1, <2>2 DEF FetchInv, OneHolder
  <1> QED
    BY <1>4, <1>5, <1>6, <1>7, <1>8, <1>9 DEF FetchInv

(* A job has a directory of its own to put things into, which may be gone. *)
(* What is left to show of such a step is what it makes of the directories.*)
LEMMA ShapeKept ==
  ASSUME FetchInv, NEW f \in Files, NEW b \in {"claiming", "downloading", "ready", "over"},
         up, UNCHANGED <<up, salvaged, id, from, nextId, width, version>>,
         stage[f] \notin {"idle", "numbered"}, stage' = [stage EXCEPT ![f] = b],
         used' \in [Files -> Inputs \cup {Nothing}],
         dirs' \in [JobIds -> Dirs \cup {Nothing}],
         \A i \in JobIds \ {id[f]} : dirs'[i] \in {dirs[i], Nothing},
         b = "claiming" => dirs'[id[f]] = Nothing \/ dirs'[id[f]].input = Nothing,
         b = "downloading" =>
           dirs'[id[f]] = Nothing \/ dirs'[id[f]].claim \in {Nothing, Claim(f, version[f])}
  PROVE  WellKept' /\ OwnNumbers' /\ OwnSalvage' /\ OwnDirectory'
  <1>1. /\ OwnNumbers' /\ OwnSalvage'
        /\ id[f] \in JobIds /\ stage'[f] = b
        /\ \A g \in Files \ {f} : stage'[g] = stage[g] /\ (stage[g] # "idle" => id[g] # id[f])
    BY JobMoves
  <1>2. WellKept'
    BY DEF FetchInv, WellKept, Stages
  <1>3. OwnDirectory'
    <2>1. ASSUME NEW g \in Files \ {f}, stage[g] \in {"claiming", "downloading"}
          PROVE  dirs'[id[g]] \in {dirs[id[g]], Nothing}
      <3>1. id[g] \in JobIds \ {id[f]}
        BY <1>1, <2>1, NumbersAreNumbers DEF FetchInv, OwnNumbers, Numbered, WellKept, JobIds
      <3> QED
        BY <3>1
    <2> QED
      BY <1>1, <2>1 DEF FetchInv, OwnDirectory
  <1> QED
    BY <1>1, <1>2, <1>3

(* A step that leaves a job's directory without a whole download, and puts *)
(* none elsewhere.                                                         *)
LEMMA EmptyHanded ==
  ASSUME FetchInv, NEW f \in Files, NEW b \in {"claiming", "downloading", "ready", "over"},
         up, UNCHANGED <<up, salvaged, id, from, nextId, width, version>>,
         stage[f] \notin {"idle", "numbered"}, stage' = [stage EXCEPT ![f] = b],
         \A i \in JobIds \ {id[f]} : dirs'[i] \in {dirs[i], Nothing},
         ~Reusable(dirs'[id[f]]),
         dirs'[id[f]] # Nothing /\ dirs'[id[f]].claim # Nothing =>
            dirs'[id[f]].claim.version \in Versions[dirs'[id[f]].claim.path],
         b \in {"claiming", "downloading"} => HoldersOf(f) = {}
  PROVE  OneHolder' /\ Honest'
  <1>1. /\ stage'[f] = b /\ \A g \in Files \ {f} : stage'[g] = stage[g]
    BY DEF FetchInv, WellKept
  <1>2. \A g \in Files : HoldersOf(g)' \subseteq HoldersOf(g)
    BY FewerHolders DEF Reusable
  <1>3. OneHolder'
    BY <1>1, <1>2 DEF FetchInv, OneHolder
  <1>4. Honest'
    BY DEF FetchInv, Honest
  <1> QED
    BY <1>3, <1>4

(* What a job finds where it is, for a step from there.                    *)
LEMMA Placed ==
  ASSUME FetchInv, NEW f \in Files, up, stage[f] # "idle"
  PROVE  /\ id[f] \in JobIds /\ dirs[id[f]] \in Dirs \cup {Nothing}
         /\ from[f] \in JobIds \cup {Nothing}
         /\ version[f] \in AllVersions /\ version[f] \in Versions[f]
  BY NumbersAreNumbers
  DEF FetchInv, OwnNumbers, Numbered, WellKept, JobIds, AllVersions

LEMMA EmptyDirs == EmptyDir \in Dirs /\ EmptyDir.claim = Nothing /\ EmptyDir.input = Nothing
  BY DEF EmptyDir, Dirs

LEMMA CreateKeeps ==
  ASSUME FetchInv, NEW f \in Files, Create(f)
  PROVE  FetchInv'
  <1>1. up /\ stage[f] = "placing" /\ id[f] \in JobIds
    BY Placed DEF Create, AfterPlacing, Move
  <1>2. dirs' = [dirs EXCEPT ![id[f]] = EmptyDir] /\ dirs'[id[f]] = EmptyDir
    BY <1>1 DEF Create, FetchInv, WellKept
  <1>3. /\ UNCHANGED <<up, salvaged, id, from, nextId, width, version, used>>
        /\ stage' = [stage EXCEPT ![f] = "claiming"]
    BY <1>2, EmptyDirs DEF Create, AfterPlacing, Move
  <1>4. WellKept' /\ OwnNumbers' /\ OwnSalvage' /\ OwnDirectory'
    <2>1. dirs' \in [JobIds -> Dirs \cup {Nothing}]
      BY <1>2, EmptyDirs DEF FetchInv, WellKept
    <2>2. used' \in [Files -> Inputs \cup {Nothing}]
      BY <1>3 DEF FetchInv, WellKept
    <2>3. \A i \in JobIds \ {id[f]} : dirs'[i] \in {dirs[i], Nothing}
      BY <1>2 DEF FetchInv, WellKept
    <2> QED
      BY <1>1, <1>2, <1>3, <2>1, <2>2, <2>3, EmptyDirs, ShapeKept
  <1>5. OneHolder' /\ Honest'
    <2>1. HoldersOf(f) = {}
      BY <1>1, NumbersAreNumbers DEF Create, FetchInv, OneHolder, HoldersOf
    <2>2. ~Reusable(dirs'[id[f]])
      BY <1>2, EmptyDirs DEF Reusable
    <2>3. \A i \in JobIds \ {id[f]} : dirs'[i] \in {dirs[i], Nothing}
      BY <1>2 DEF FetchInv, WellKept
    <2> QED
      BY <1>1, <1>2, <1>3, <2>1, <2>2, <2>3, EmptyDirs, EmptyHanded
  <1> QED
    BY <1>4, <1>5 DEF FetchInv

LEMMA AdoptKeeps ==
  ASSUME FetchInv, NEW f \in Files, Adopt(f)
  PROVE  FetchInv'
  <1> DEFINE b == IF dirs[from[f]].input # Nothing THEN "ready" ELSE "claiming"
  <1>1. /\ up /\ stage[f] = "placing" /\ id[f] \in JobIds
        /\ from[f] \in JobIds /\ dirs[from[f]] # Nothing
    BY Placed DEF Adopt, AfterPlacing, Move
  <1>2. /\ dirs' \in [JobIds -> Dirs \cup {Nothing}]
        /\ dirs'[id[f]] = dirs[from[f]]
        /\ \A i \in JobIds \ {id[f]} : dirs'[i] = IF i = from[f] THEN Nothing ELSE dirs[i]
    BY <1>1 DEF Adopt, FetchInv, WellKept
  <1>3. /\ UNCHANGED <<up, salvaged, id, from, nextId, width, version, used>>
        /\ stage' = [stage EXCEPT ![f] = b] /\ stage'[f] = b
        /\ \A g \in Files \ {f} : stage'[g] = stage[g]
    BY <1>2 DEF Adopt, AfterPlacing, Move, FetchInv, WellKept
  <1>4. WellKept' /\ OwnNumbers' /\ OwnSalvage' /\ OwnDirectory'
    <2>1. used' \in [Files -> Inputs \cup {Nothing}]
      BY <1>3 DEF FetchInv, WellKept
    <2> QED
      BY <1>1, <1>2, <1>3, <2>1, ShapeKept
  <1>5. Honest'
    BY <1>1, <1>2 DEF FetchInv, Honest
  <1>6. \A g \in Files : \A i \in HoldersOf(g)' :
          \/ i = id[f] /\ from[f] \in HoldersOf(g)
          \/ i # id[f] /\ i # from[f] /\ i \in HoldersOf(g)
    BY <1>1, <1>2 DEF HoldersOf, Reusable
  <1>7. ASSUME NEW g \in Files \ {f}, stage[g] \notin {"ready", "over"}
        PROVE  from[f] \notin HoldersOf(g)
    <2>1. CASE stage[g] \in {"idle", "numbered"}
      BY <1>1, <2>1, NumbersAreNumbers DEF FetchInv, OneHolder, OwnSalvage
    <2>2. CASE stage[g] = "placing"
      BY <1>1, <2>2, NumbersAreNumbers DEF FetchInv, OneHolder, OwnSalvage
    <2>3. CASE stage[g] \in {"claiming", "downloading"}
      BY <1>1, <2>3 DEF FetchInv, OneHolder
    <2> QED
      BY <1>7, <2>1, <2>2, <2>3 DEF FetchInv, WellKept, Stages
  <1>8. b = "claiming" => HoldersOf(f)' = {}
    <2>1. b = "claiming" => from[f] \notin HoldersOf(f)
      BY DEF HoldersOf, Reusable
    <2>2. HoldersOf(f) \subseteq {from[f]}
      BY <1>1 DEF FetchInv, OneHolder
    <2> QED
      BY <1>6, <2>1, <2>2
  <1>9. OneHolder'
    <2>1. ASSUME NEW g \in Files, NEW i \in HoldersOf(g)', NEW j \in HoldersOf(g)'
          PROVE  i = j
      BY <1>6, <2>1 DEF FetchInv, OneHolder
    <2>2. ASSUME NEW g \in Files \ {f}, stage[g] \notin {"ready", "over"}
          PROVE  HoldersOf(g)' \subseteq HoldersOf(g)
      BY <1>6, <1>7, <2>2
    <2>3. ASSUME NEW g \in Files \ {f}
          PROVE  /\ stage[g] \in {"idle", "numbered"} => HoldersOf(g)' \subseteq {salvaged[g]}
                 /\ stage[g] = "placing" => HoldersOf(g)' \subseteq {from[g]}
                 /\ stage[g] \in {"claiming", "downloading"} => HoldersOf(g)' = {}
      BY <1>1, <2>2 DEF FetchInv, OneHolder
    <2> HIDE DEF b
    <2>4. b \notin {"idle", "numbered", "placing", "downloading"}
      BY DEF b
    <2> QED
      BY <1>1, <1>3, <1>8, <2>1, <2>3, <2>4 DEF OneHolder
  <1> QED
    BY <1>4, <1>5, <1>9 DEF FetchInv

LEMMA FailKeeps ==
  ASSUME FetchInv, NEW f \in Files, Fail(f)
  PROVE  FetchInv'
  <1>1. /\ up /\ stage[f] \in {"placing", "claiming", "ready"} /\ id[f] \in JobIds
        /\ UNCHANGED <<up, salvaged, id, from, nextId, width, version, used>>
        /\ stage' = [stage EXCEPT ![f] = "over"]
    BY Placed DEF Fail
  <1>2. dirs' = dirs \/ dirs' = [dirs EXCEPT ![id[f]] = Nothing]
    BY DEF Fail
  <1>3. /\ dirs' \in [JobIds -> Dirs \cup {Nothing}]
        /\ \A i \in JobIds : dirs'[i] \in {dirs[i], Nothing}
    BY <1>2 DEF FetchInv, WellKept
  <1>4. WellKept' /\ OwnNumbers' /\ OwnSalvage' /\ OwnDirectory'
    <2>1. used' \in [Files -> Inputs \cup {Nothing}]
      BY <1>1 DEF FetchInv, WellKept
    <2> QED
      BY <1>1, <1>3, <2>1, ShapeKept
  <1>5. Honest'
    BY <1>3 DEF FetchInv, Honest
  <1>6. OneHolder'
    <2>1. \A g \in Files : HoldersOf(g)' \subseteq HoldersOf(g)
      BY <1>3, FewerHolders DEF Reusable
    <2>2. stage'[f] = "over" /\ \A g \in Files \ {f} : stage'[g] = stage[g]
      BY <1>1 DEF FetchInv, WellKept
    <2> QED
      BY <1>1, <2>1, <2>2 DEF FetchInv, OneHolder
  <1> QED
    BY <1>4, <1>5, <1>6 DEF FetchInv

LEMMA WriteClaimKeeps ==
  ASSUME FetchInv, NEW f \in Files, WriteClaim(f)
  PROVE  FetchInv'
  <1>1. /\ up /\ stage[f] = "claiming" /\ id[f] \in JobIds /\ dirs[id[f]] # Nothing
        /\ dirs[id[f]] \in Dirs /\ version[f] \in AllVersions /\ version[f] \in Versions[f]
        /\ UNCHANGED <<up, salvaged, id, from, nextId, width, version, used>>
        /\ stage' = [stage EXCEPT ![f] = "downloading"]
    BY Placed DEF WriteClaim, Move
  <1>2. /\ dirs' = [dirs EXCEPT ![id[f]] = [dirs[id[f]] EXCEPT !.claim = Claim(f, version[f])]]
        /\ dirs[id[f]].input = Nothing
    BY <1>1 DEF WriteClaim, FetchInv, WellKept, OwnDirectory
  <1>3. /\ dirs'[id[f]] = [dirs[id[f]] EXCEPT !.claim = Claim(f, version[f])]
        /\ dirs'[id[f]].claim = Claim(f, version[f]) /\ dirs'[id[f]].input = Nothing
        /\ dirs'[id[f]] \in Dirs
        /\ \A i \in JobIds \ {id[f]} : dirs'[i] = dirs[i]
    <2>1. Claim(f, version[f]) \in Claims
      BY <1>1 DEF Claim, Claims
    <2> QED
      BY <1>1, <1>2, <2>1 DEF FetchInv, WellKept, Dirs
  <1>4. WellKept' /\ OwnNumbers' /\ OwnSalvage' /\ OwnDirectory'
    <2>1. used' \in [Files -> Inputs \cup {Nothing}]
      BY <1>1 DEF FetchInv, WellKept
    <2>2. dirs' \in [JobIds -> Dirs \cup {Nothing}]
      BY <1>2, <1>3 DEF FetchInv, WellKept
    <2> QED
      BY <1>1, <1>3, <2>1, <2>2, ShapeKept
  <1>5. OneHolder' /\ Honest'
    <2>1. HoldersOf(f) = {}
      BY <1>1 DEF FetchInv, OneHolder
    <2>2. ~Reusable(dirs'[id[f]])
      BY <1>3 DEF Reusable
    <2>3. dirs'[id[f]].claim.version \in Versions[dirs'[id[f]].claim.path]
      BY <1>1, <1>3 DEF Claim
    <2> QED
      BY <1>1, <1>3, <2>1, <2>2, <2>3, EmptyHanded
  <1> QED
    BY <1>4, <1>5 DEF FetchInv

(* What the daemon writes, and where.                                      *)
LEMMA Received ==
  ASSUME FetchInv, NEW f \in Files, NEW whole \in BOOLEAN, Receive(f, whole), up,
         stage[f] = "downloading"
  PROVE  /\ dirs' \in [JobIds -> Dirs \cup {Nothing}]
         /\ \A i \in JobIds \ {id[f]} : dirs'[i] = dirs[i]
         /\ dirs'[id[f]] \in Dirs
         /\ dirs'[id[f]].claim \in {Nothing, Claim(f, version[f])}
         /\ dirs'[id[f]].input = Bytes(f, version[f], whole)
  <1> DEFINE dir == IF dirs[id[f]] = Nothing THEN EmptyDir ELSE dirs[id[f]]
  <1>1. id[f] \in JobIds /\ dirs[id[f]] \in Dirs \cup {Nothing} /\ version[f] \in AllVersions
    BY Placed
  <1>2. dir \in Dirs /\ dir.claim \in {Nothing, Claim(f, version[f])}
    BY <1>1, EmptyDirs DEF FetchInv, OwnDirectory
  <1>3. Bytes(f, version[f], whole) \in Inputs
    BY <1>1 DEF Bytes, Inputs
  <1>4. dirs' = [dirs EXCEPT ![id[f]] = [dir EXCEPT !.input = Bytes(f, version[f], whole)]]
    BY DEF Receive
  <1> HIDE DEF dir
  <1>5. LET new == [dir EXCEPT !.input = Bytes(f, version[f], whole)] IN
        new \in Dirs /\ new.claim = dir.claim /\ new.input = Bytes(f, version[f], whole)
    BY <1>2, <1>3 DEF Dirs
  <1> QED
    BY <1>1, <1>2, <1>4, <1>5 DEF FetchInv, WellKept

LEMMA DownloadPartKeeps ==
  ASSUME FetchInv, NEW f \in Files, DownloadPart(f)
  PROVE  FetchInv'
  <1>1. /\ up /\ stage[f] = "downloading" /\ id[f] \in JobIds /\ version[f] \in Versions[f]
        /\ UNCHANGED <<up, salvaged, id, from, nextId, width, version, used>>
        /\ stage' = [stage EXCEPT ![f] = "downloading"]
        /\ Receive(f, FALSE)
    BY Placed DEF DownloadPart, FetchInv, WellKept
  <1>2. /\ dirs' \in [JobIds -> Dirs \cup {Nothing}]
        /\ \A i \in JobIds \ {id[f]} : dirs'[i] = dirs[i]
        /\ dirs'[id[f]] \in Dirs
        /\ dirs'[id[f]].claim \in {Nothing, Claim(f, version[f])}
        /\ dirs'[id[f]].input = Bytes(f, version[f], FALSE)
    BY <1>1, Received
  <1>3. WellKept' /\ OwnNumbers' /\ OwnSalvage' /\ OwnDirectory'
    <2>1. used' \in [Files -> Inputs \cup {Nothing}]
      BY <1>1 DEF FetchInv, WellKept
    <2> QED
      BY <1>1, <1>2, <2>1, ShapeKept
  <1>4. OneHolder' /\ Honest'
    <2>1. HoldersOf(f) = {}
      BY <1>1 DEF FetchInv, OneHolder
    <2>2. ~Reusable(dirs'[id[f]])
      BY <1>2 DEF Reusable, Bytes
    <2>3. dirs'[id[f]].claim # Nothing =>
            dirs'[id[f]].claim.version \in Versions[dirs'[id[f]].claim.path]
      BY <1>1, <1>2 DEF Claim
    <2> QED
      BY <1>1, <1>2, <2>1, <2>2, <2>3, EmptyHanded
  <1> QED
    BY <1>3, <1>4 DEF FetchInv

LEMMA DownloadKeeps ==
  ASSUME FetchInv, NEW f \in Files, Download(f)
  PROVE  FetchInv'
  <1>1. /\ up /\ stage[f] = "downloading" /\ id[f] \in JobIds /\ version[f] \in Versions[f]
        /\ UNCHANGED <<up, salvaged, id, from, nextId, width, version, used>>
        /\ stage' = [stage EXCEPT ![f] = "ready"] /\ stage'[f] = "ready"
        /\ \A g \in Files \ {f} : stage'[g] = stage[g]
        /\ Receive(f, TRUE)
    BY Placed DEF Download, Move, FetchInv, WellKept
  <1>2. /\ dirs' \in [JobIds -> Dirs \cup {Nothing}]
        /\ \A i \in JobIds \ {id[f]} : dirs'[i] = dirs[i]
        /\ dirs'[id[f]] \in Dirs
        /\ dirs'[id[f]].claim \in {Nothing, Claim(f, version[f])}
        /\ dirs'[id[f]].input = Bytes(f, version[f], TRUE)
    BY <1>1, Received
  <1>3. WellKept' /\ OwnNumbers' /\ OwnSalvage' /\ OwnDirectory'
    <2>1. used' \in [Files -> Inputs \cup {Nothing}]
      BY <1>1 DEF FetchInv, WellKept
    <2> QED
      BY <1>1, <1>2, <2>1, ShapeKept
  <1>4. Honest'
    BY <1>1, <1>2 DEF FetchInv, Honest, Claim, Bytes
  <1>5. OneHolder'
    <2>1. HoldersOf(f) = {}
      BY <1>1 DEF FetchInv, OneHolder
    <2>2. HoldersOf(f)' \subseteq {id[f]}
      BY <1>2, <2>1 DEF HoldersOf
    <2>3. \A g \in Files \ {f} : HoldersOf(g)' \subseteq HoldersOf(g)
      BY <1>2 DEF HoldersOf, Reusable, Claim
    <2> QED
      BY <1>1, <2>2, <2>3 DEF FetchInv, OneHolder
  <1> QED
    BY <1>3, <1>4, <1>5 DEF FetchInv

LEMMA ConvertKeeps ==
  ASSUME FetchInv, NEW f \in Files, Convert(f)
  PROVE  FetchInv'
  <1>1. /\ up /\ stage[f] = "ready" /\ id[f] \in JobIds /\ dirs[id[f]] \in Dirs \cup {Nothing}
        /\ UNCHANGED <<up, salvaged, id, from, nextId, width, version>>
        /\ stage' = [stage EXCEPT ![f] = "over"] /\ stage'[f] = "over"
        /\ \A g \in Files \ {f} : stage'[g] = stage[g]
        /\ dirs' = [dirs EXCEPT ![id[f]] = Nothing]
    BY Placed DEF Convert, Move, FetchInv, WellKept
  <1>2. /\ dirs' \in [JobIds -> Dirs \cup {Nothing}]
        /\ \A i \in JobIds : dirs'[i] \in {dirs[i], Nothing}
    BY <1>1 DEF FetchInv, WellKept
  <1>3. dirs[id[f]] # Nothing /\ dirs[id[f]].input \in Inputs
    BY <1>1 DEF Convert, InputOf, Dirs
  <1>4. WellKept' /\ OwnNumbers' /\ OwnSalvage' /\ OwnDirectory'
    <2>1. used' \in [Files -> Inputs \cup {Nothing}]
      BY <1>3 DEF Convert, FetchInv, WellKept
    <2> QED
      BY <1>1, <1>2, <2>1, ShapeKept
  <1>5. Honest'
    BY <1>2 DEF FetchInv, Honest
  <1>6. OneHolder'
    <2>1. \A g \in Files : HoldersOf(g)' \subseteq HoldersOf(g)
      BY <1>2, FewerHolders DEF Reusable
    <2> QED
      BY <1>1, <2>1 DEF FetchInv, OneHolder
  <1> QED
    BY <1>4, <1>5, <1>6 DEF FetchInv

LEMMA FetchStep == FetchInv /\ [StagingNext]_stagingVars => FetchInv'
  <1> SUFFICES ASSUME FetchInv, [StagingNext]_stagingVars PROVE FetchInv'
    OBVIOUS
  <1>1. CASE UNCHANGED stagingVars
    BY <1>1
    DEF stagingVars, FetchInv, WellKept, Active, OwnNumbers, Numbered, OwnSalvage, Honest,
        OwnDirectory, OneHolder, HoldersOf
  <1>2. ASSUME NEW f \in Files, Job(f)
        PROVE  FetchInv'
    BY <1>2, NumberKeeps, TakeSalvagedKeeps, CreateKeeps, AdoptKeeps, FailKeeps,
       WriteClaimKeeps, DownloadPartKeeps, DownloadKeeps, ConvertKeeps DEF Job
  <1> QED
    BY <1>1, <1>2, StartKeeps, RestKeeps DEF StagingNext

-----------------------------------------------------------------------------
(* One job at a time.                                                      *)

(* The job at work is the only one, and with it none waits for another.    *)
LEMMA Alone ==
  ASSUME FetchInv, InItsTurn, width = 1, up, NEW f \in Active
  PROVE  /\ f \in Files /\ Active = {f}
         /\ \A g \in Files \ {f} : stage[g] \in {"idle", "over"}
  BY DEF InItsTurn, Active

(* While a job works in its directory, what the others have in view is     *)
(* their own, or is that directory.                                        *)
LEMMA OthersWait ==
  ASSUME FetchInv, InItsTurn, width = 1, up, NEW f \in Active,
         NEW b \in {"claiming", "downloading", "ready", "over"},
         UNCHANGED <<width, salvaged, id, version>>,
         \A g \in Files \ {f} : used'[g] = used[g],
         stage[f] \notin {"idle", "numbered"}, stage' = [stage EXCEPT ![f] = b],
         \A i \in JobIds \ {id[f]} : dirs'[i] \in {dirs[i], Nothing},
         b = "over" => dirs'[id[f]] = Nothing \/ (UNCHANGED dirs /\ stage[f] = "placing"),
         b = "ready" => InputOf(id[f])' \in {Nothing, Bytes(f, version[f], TRUE)},
         used'[f] # Nothing => used'[f] = Bytes(f, version[f], TRUE)
  PROVE  InItsTurn'
  <1>1. f \in Files /\ Active = {f} /\ \A g \in Files \ {f} : stage[g] \in {"idle", "over"}
    BY Alone
  <1>2. stage'[f] = b /\ \A g \in Files \ {f} : stage'[g] = stage[g]
    BY <1>1 DEF FetchInv, WellKept
  <1>3. Active' \subseteq {f}
    BY <1>1, <1>2 DEF Active
  <1>4. \A g \in Files : used'[g] # Nothing => used'[g] = Bytes(g, version'[g], TRUE)
    BY <1>1 DEF InItsTurn
  <1>5. ASSUME NEW g \in Files \ {f}, stage'[g] = "idle", salvaged'[g] # Nothing
        PROVE  \/ Holds(g, salvaged[g])'
               \/ stage'[f] \in {"claiming", "downloading", "ready"} /\ id'[f] = salvaged'[g]
    <2>1. salvaged[g] \in JobIds
      BY <1>5 DEF FetchInv, WellKept
    <2>2. stage[g] = "idle"
      BY <1>2, <1>5
    <2>3. \/ Holds(g, salvaged[g])
          \/ stage[f] \in {"claiming", "downloading", "ready"} /\ id[f] = salvaged[g]
      BY <1>1, <1>5, <2>2 DEF InItsTurn
    <2>4. CASE salvaged[g] = id[f]
      <3>1. CASE b = "over"
        BY <1>5, <2>3, <2>4, <3>1 DEF Holds
      <3> QED
        BY <1>2, <2>4, <3>1
    <2>5. CASE salvaged[g] # id[f]
      BY <2>1, <2>3, <2>5 DEF Holds
    <2> QED
      BY <2>4, <2>5
  <1> QED
    BY <1>1, <1>2, <1>3, <1>4, <1>5 DEF InItsTurn

LEMMA TurnStart ==
  ASSUME FetchInv, InItsTurn, width = 1,
         Start \/ Kill \/ Finish \/ (\E f \in Files : Edit(f))
  PROVE  InItsTurn'
  <1>1. CASE Start
    <2>1. \A i \in JobIds : dirs'[i] = IF Reusable(dirs[i]) THEN dirs[i] ELSE Nothing
      BY <1>1 DEF Start
    <2>2. \A f \in Files : salvaged'[f] # Nothing => salvaged'[f] \in HoldersOf(f)
      BY <1>1 DEF Start
    <2>3. \A f \in Files : salvaged'[f] # Nothing => Holds(f, salvaged[f])'
      BY <2>1, <2>2 DEF HoldersOf, Holds
    <2>4. Active' = {} /\ (\A f \in Files : stage'[f] = "idle") /\ UNCHANGED <<used, version>>
      BY <1>1 DEF Start, Active
    <2> QED
      BY <2>3, <2>4 DEF InItsTurn
  <1>2. CASE Kill \/ Finish
    BY <1>2 DEF Kill, Finish, InItsTurn
  <1>3. CASE \E f \in Files : Edit(f)
    <2>1. PICK f \in Files : Edit(f)
      BY <1>3
    <2>2. /\ ~up' /\ used' = used /\ used[f] = Nothing
          /\ \A g \in Files \ {f} : version'[g] = version[g]
      BY <2>1 DEF Edit, FetchInv, WellKept
    <2>3. \A g \in Files : used[g] # Nothing => used[g] = Bytes(g, version[g], TRUE)
      BY DEF InItsTurn
    <2>4. \A g \in Files : used'[g] # Nothing => used'[g] = Bytes(g, version'[g], TRUE)
      BY <2>2, <2>3
    <2> QED
      BY <2>2, <2>4 DEF InItsTurn
  <1> QED
    BY <1>1, <1>2, <1>3

LEMMA TurnNumber ==
  ASSUME FetchInv, InItsTurn, width = 1, NEW f \in Files, Number(f)
  PROVE  InItsTurn'
  <1>1. /\ up /\ stage[f] = "idle" /\ stage'[f] = "numbered"
        /\ \A g \in Files \ {f} : stage'[g] = stage[g]
        /\ UNCHANGED <<dirs, salvaged, version, from, used, width>>
    BY DEF Number, Move, FetchInv, WellKept
  <1>2. Active = {}
    <2>1. IsFiniteSet(Active)
      BY FS_Subset, StagingAssumption DEF Active
    <2>2. Cardinality(Active) \in Nat /\ Cardinality(Active) < 1
      BY <2>1, FS_CardinalityType DEF Number
    <2> QED
      BY <2>1, <2>2, FS_EmptySet
  <1>3. Active' = {f} /\ \A g \in Files : stage[g] \in {"idle", "over"}
    BY <1>1, <1>2 DEF Active
  <1>4. \A g \in Files : stage[g] = "idle" /\ salvaged[g] # Nothing => Holds(g, salvaged[g])
    BY <1>1, <1>3 DEF InItsTurn
  <1>5. \A g \in Files : Holds(g, salvaged[g])' <=> Holds(g, salvaged[g])
    BY <1>1 DEF Holds
  <1> QED
    BY <1>1, <1>3, <1>4, <1>5 DEF InItsTurn

LEMMA TurnTake ==
  ASSUME FetchInv, InItsTurn, width = 1, NEW f \in Files, TakeSalvaged(f)
  PROVE  InItsTurn'
  <1>1. /\ up /\ stage[f] = "numbered" /\ stage'[f] = "placing"
        /\ \A g \in Files \ {f} : stage'[g] = stage[g]
        /\ salvaged'[f] = Nothing /\ \A g \in Files \ {f} : salvaged'[g] = salvaged[g]
        /\ UNCHANGED <<width, version, id, used>>
    BY DEF TakeSalvaged, Move, FetchInv, WellKept
  <1>2. f \in Active /\ Active = {f} /\ \A g \in Files \ {f} : stage[g] \in {"idle", "over"}
    BY <1>1, Alone DEF Active
  <1>3. \A g \in Files : stage[g] \in {"idle", "numbered"} /\ salvaged[g] # Nothing => Holds(g, salvaged[g])
    BY <1>1, <1>2 DEF InItsTurn
  <1>4. \A i \in JobIds : dirs'[i] \in {dirs[i], Nothing}
    BY DEF TakeSalvaged, FetchInv, WellKept
  <1>5. \A g \in Files \ {f} : stage[g] = "idle" /\ salvaged[g] # Nothing => Holds(g, salvaged[g])'
    BY <1>1, <1>3, <1>4 DEF Holds, FetchInv, WellKept
  <1>6. from'[f] # Nothing =>
          /\ Holds(f, from[f])'
          /\ dirs'[from'[f]] # Nothing => dirs'[from'[f]].claim.version = version'[f]
    <2>1. from'[f] # Nothing => /\ from'[f] = salvaged[f] /\ UNCHANGED <<dirs, version>>
                                /\ StillMatches(f, dirs[salvaged[f]])
      BY DEF TakeSalvaged, FetchInv, WellKept
    <2> QED
      BY <1>1, <1>3, <2>1 DEF StillMatches, Holds
  <1>7. Active' = {f}
    BY <1>1, <1>2 DEF Active
  <1> QED
    BY <1>1, <1>2, <1>5, <1>6, <1>7 DEF InItsTurn

LEMMA TurnPlace ==
  ASSUME FetchInv, InItsTurn, width = 1, NEW f \in Files, Create(f) \/ Adopt(f)
  PROVE  InItsTurn'
  <1>1. /\ up /\ stage[f] = "placing" /\ id[f] \in JobIds
        /\ UNCHANGED <<up, salvaged, id, from, nextId, width, version, used>>
        /\ stage' = [stage EXCEPT ![f] = IF dirs'[id[f]].input # Nothing THEN "ready" ELSE "claiming"]
    BY Placed DEF Create, Adopt, AfterPlacing, Move
  <1>2. f \in Active
    BY <1>1 DEF Active
  <1>3. used[f] # Nothing => used[f] = Bytes(f, version[f], TRUE)
    BY DEF InItsTurn
  <1>4. CASE Create(f)
    <2>1. dirs' = [dirs EXCEPT ![id[f]] = EmptyDir] /\ dirs'[id[f]] = EmptyDir
      BY <1>1, <1>4 DEF Create, FetchInv, WellKept
    <2>2. stage' = [stage EXCEPT ![f] = "claiming"]
      BY <1>1, <2>1, EmptyDirs
    <2>3. \A i \in JobIds \ {id[f]} : dirs'[i] \in {dirs[i], Nothing}
      BY <2>1 DEF FetchInv, WellKept
    <2> QED
      BY <1>1, <1>2, <1>3, <2>2, <2>3, OthersWait
  <1>5. CASE Adopt(f)
    <2>1. from[f] \in JobIds /\ from[f] # Nothing /\ dirs[from[f]] \in Dirs /\ dirs[from[f]] # Nothing
      BY <1>1, <1>5, Placed DEF Adopt, FetchInv, WellKept
    <2>2. /\ Reusable(dirs[from[f]]) /\ dirs[from[f]].claim.path = f
          /\ dirs[from[f]].claim.version = version[f]
      BY <1>1, <2>1 DEF InItsTurn, Holds
    <2>3. dirs[from[f]].input \in Inputs /\ dirs[from[f]].input # Nothing
      BY <2>1, <2>2 DEF Reusable, Dirs
    <2>4. dirs[from[f]].input = Bytes(f, version[f], TRUE)
      <3>1. dirs[from[f]].input.of = f
        BY <2>1, <2>2 DEF FetchInv, Honest, Reusable
      <3>2. dirs[from[f]].input.version = version[f] /\ dirs[from[f]].input.whole
        BY <2>2 DEF Reusable
      <3>3. dirs[from[f]].input.whole = TRUE
        BY <2>3, <3>2 DEF Inputs
      <3> QED
        BY <2>3, <3>1, <3>2, <3>3 DEF Inputs, Bytes
    <2>5. /\ dirs'[id[f]] = dirs[from[f]]
          /\ \A i \in JobIds \ {id[f]} : dirs'[i] \in {dirs[i], Nothing}
      BY <1>1, <1>5 DEF Adopt
    <2>6. stage' = [stage EXCEPT ![f] = "ready"]
      BY <1>1, <2>3, <2>5
    <2>7. InputOf(id[f])' = Bytes(f, version[f], TRUE)
      BY <1>1, <2>1, <2>4, <2>5 DEF InputOf
    <2> QED
      BY <1>1, <1>2, <1>3, <2>5, <2>6, <2>7, OthersWait
  <1> QED
    BY <1>4, <1>5

LEMMA TurnFail ==
  ASSUME FetchInv, InItsTurn, width = 1, NEW f \in Files, Fail(f)
  PROVE  InItsTurn'
  <1>1. /\ up /\ stage[f] \in {"placing", "claiming", "ready"} /\ id[f] \in JobIds
        /\ UNCHANGED <<up, salvaged, id, from, nextId, width, version, used>>
        /\ stage' = [stage EXCEPT ![f] = "over"] /\ f \in Active
    BY Placed DEF Fail, Active
  <1>2. /\ dirs'[id[f]] = Nothing \/ (UNCHANGED dirs /\ stage[f] = "placing")
        /\ \A i \in JobIds \ {id[f]} : dirs'[i] \in {dirs[i], Nothing}
    <2>1. CASE stage[f] = "ready"
      BY <1>1, <2>1 DEF Fail, FetchInv, WellKept
    <2>2. CASE stage[f] # "ready"
      BY <1>1, <2>2 DEF Fail, FetchInv, WellKept
    <2> QED
      BY <2>1, <2>2
  <1>3. used[f] # Nothing => used[f] = Bytes(f, version[f], TRUE)
    BY DEF InItsTurn
  <1> QED
    BY <1>1, <1>2, <1>3, OthersWait

LEMMA TurnFetch ==
  ASSUME FetchInv, InItsTurn, width = 1, NEW f \in Files,
         WriteClaim(f) \/ DownloadPart(f) \/ Download(f)
  PROVE  InItsTurn'
  <1>1. /\ up /\ stage[f] \in {"claiming", "downloading"} /\ id[f] \in JobIds
        /\ UNCHANGED <<up, salvaged, id, from, nextId, width, version, used>>
        /\ f \in Active
    BY Placed DEF WriteClaim, DownloadPart, Download, Move, Active
  <1>2. used[f] # Nothing => used[f] = Bytes(f, version[f], TRUE)
    BY DEF InItsTurn
  <1>3. CASE WriteClaim(f)
    <2>1. /\ stage' = [stage EXCEPT ![f] = "downloading"]
          /\ \A i \in JobIds \ {id[f]} : dirs'[i] \in {dirs[i], Nothing}
      BY <1>3 DEF WriteClaim, Move, FetchInv, WellKept
    <2> QED
      BY <1>1, <1>2, <2>1, OthersWait
  <1>4. CASE DownloadPart(f)
    <2>1. /\ stage' = [stage EXCEPT ![f] = "downloading"]
          /\ \A i \in JobIds \ {id[f]} : dirs'[i] \in {dirs[i], Nothing}
      BY <1>1, <1>4, Received DEF DownloadPart, FetchInv, WellKept
    <2> QED
      BY <1>1, <1>2, <2>1, OthersWait
  <1>5. CASE Download(f)
    <2>1. stage' = [stage EXCEPT ![f] = "ready"] /\ stage[f] = "downloading" /\ Receive(f, TRUE)
      BY <1>5 DEF Download, Move
    <2>2. /\ \A i \in JobIds \ {id[f]} : dirs'[i] = dirs[i]
          /\ dirs'[id[f]].input = Bytes(f, version[f], TRUE)
      BY <1>1, <2>1, Received
    <2>3. InputOf(id[f])' \in {Nothing, Bytes(f, version[f], TRUE)}
      BY <1>1, <2>2 DEF InputOf
    <2> QED
      BY <1>1, <1>2, <2>1, <2>2, <2>3, OthersWait
  <1> QED
    BY <1>3, <1>4, <1>5

LEMMA TurnConvert ==
  ASSUME FetchInv, InItsTurn, width = 1, NEW f \in Files, Convert(f)
  PROVE  InItsTurn'
  <1>1. /\ up /\ stage[f] = "ready" /\ id[f] \in JobIds /\ f \in Active
        /\ UNCHANGED <<up, salvaged, id, from, nextId, width, version>>
        /\ stage' = [stage EXCEPT ![f] = "over"]
        /\ dirs' = [dirs EXCEPT ![id[f]] = Nothing]
    BY Placed DEF Convert, Move, Active
  <1>2. /\ used'[f] = Bytes(f, version[f], TRUE)
        /\ \A g \in Files \ {f} : used'[g] = used[g]
    <2>1. InputOf(id[f]) = Bytes(f, version[f], TRUE) /\ dirs[id[f]].input = InputOf(id[f])
      BY <1>1 DEF Convert, InItsTurn, InputOf
    <2> QED
      BY <2>1 DEF Convert, FetchInv, WellKept
  <1>3. /\ dirs'[id[f]] = Nothing
        /\ \A i \in JobIds \ {id[f]} : dirs'[i] \in {dirs[i], Nothing}
    BY <1>1 DEF FetchInv, WellKept
  <1> QED
    BY <1>1, <1>2, <1>3, OthersWait

LEMMA TurnStep == FetchInv /\ InItsTurn /\ [StagingNext]_stagingVars => InItsTurn'
  <1> SUFFICES ASSUME FetchInv, InItsTurn, [StagingNext]_stagingVars PROVE InItsTurn'
    OBVIOUS
  <1>1. UNCHANGED width
    BY DEF StagingNext, stagingVars, Start, Kill, Finish, Edit, Job, Number, TakeSalvaged, Create,
           Adopt, AfterPlacing, Fail, WriteClaim, DownloadPart, Download, Convert
  <1>2. CASE width # 1
    BY <1>1, <1>2 DEF InItsTurn
  <1>3. CASE width = 1 /\ UNCHANGED stagingVars
    <2>1. /\ UNCHANGED stagingVars /\ Active' = Active
          /\ \A i : InputOf(i)' = InputOf(i)
          /\ \A f, i : Holds(f, i)' <=> Holds(f, i)
      BY <1>3 DEF stagingVars, Active, InputOf, Holds
    <2> QED
      BY <2>1 DEF stagingVars, InItsTurn
  <1>4. ASSUME width = 1, NEW f \in Files, Job(f)
        PROVE  InItsTurn'
    BY <1>4, TurnNumber, TurnTake, TurnPlace, TurnFail, TurnFetch, TurnConvert DEF Job
  <1> QED
    BY <1>2, <1>3, <1>4, TurnStart DEF StagingNext

LEMMA StagingInvariance == StagingSpec => [](FetchInv /\ InItsTurn)
  <1> QED
    BY InitFetch, FetchStep, TurnStep, PTL DEF StagingSpec

(* The directories and the jobs keep their types: no run gives out more    *)
(* numbers than there are files (pipeline.rs, line 374).                   *)
THEOREM StagingTypes == StagingSpec => []StagingTypeOK
  <1>1. FetchInv => StagingTypeOK
    BY DEF FetchInv, WellKept, StagingTypeOK, Dirs, Claims, Inputs, AllVersions
  <1> QED
    BY <1>1, StagingInvariance, PTL

(* One at a time, jobs convert their own files, whole and current,         *)
(* whatever was killed in between (staging.rs, lines 17-22 and 189-191).   *)
THEOREM OwnInput == StagingSpec => []InputIsOwn
  <1>1. InItsTurn => InputIsOwn
    BY DEF InItsTurn, InputIsOwn
  <1> QED
    BY <1>1, StagingInvariance, PTL

(* A step that leaves a directory with a whole download as it is, or moves *)
(* it, does not lose the download.                                         *)
LEMMA StillThere ==
  ASSUME NEW f \in Files, NEW i \in JobIds, Lost(f, i)
  PROVE  /\ \A j \in JobIds : dirs'[j] # dirs[i]
         /\ version'[f] = version[f] /\ i \in HoldersOf(f) /\ dirs[i] # Nothing
  BY DEF Lost, Current, HoldersOf, Reusable, Claim

(* What takes a download is a job that has the number of its directory.    *)
LEMMA TakenByNumber ==
  ASSUME FetchInv, StagingNext, NEW f \in Files, NEW i \in JobIds, Lost(f, i)
  PROVE  \E g \in Files : Job(g) /\ up /\ id[g] = i /\ stage[g] # "idle" /\ stage'[g] # stage[g]
  <1>1. /\ \A j \in JobIds : dirs'[j] # dirs[i]
        /\ version'[f] = version[f] /\ i \in HoldersOf(f) /\ dirs[i] # Nothing
    BY StillThere
  <1>2. dirs' # dirs
    BY <1>1
  <1>3. ~Start
    <2>1. Reusable(dirs[i])
      BY <1>1 DEF HoldersOf
    <2> QED
      BY <1>1, <2>1 DEF Start
  <1>4. PICK g \in Files : Job(g)
    BY <1>2, <1>3 DEF StagingNext, Kill, Finish, Edit
  <1>5. up /\ stage[g] \in Stages
    BY <1>4 DEF Job, Number, TakeSalvaged, Create, Adopt, AfterPlacing, Fail, WriteClaim,
                DownloadPart, Download, Convert, Move, FetchInv, WellKept
  <1>6. CASE TakeSalvaged(g)
    <2>1. stage[g] = "numbered" /\ salvaged[g] = i /\ ~StillMatches(g, dirs[i])
      BY <1>1, <1>6 DEF TakeSalvaged, Move, FetchInv, WellKept
    <2>2. f # g
      BY <2>1 DEF StillMatches, Lost, Current, Claim, Reusable
    <2>3. salvaged[f] # i /\ (stage[f] = "placing" => from[f] # i)
      BY <1>5, <2>1, <2>2, NumbersAreNumbers DEF FetchInv, OwnSalvage
    <2>4. stage[f] \in {"idle", "numbered", "placing", "claiming", "downloading"}
      BY DEF Lost, Waits, FetchInv, WellKept, Stages
    <2> QED
      BY <1>1, <1>5, <2>3, <2>4 DEF FetchInv, OneHolder
  <1>7. CASE Create(g)
    <2>1. stage[g] = "placing" /\ id[g] \in JobIds /\ stage'[g] # stage[g]
      BY <1>7, Placed DEF Create, AfterPlacing, Move, FetchInv, WellKept
    <2>2. \A j \in JobIds \ {id[g]} : dirs'[j] = dirs[j]
      BY <1>7, <2>1 DEF Create, FetchInv, WellKept
    <2> QED
      BY <1>1, <1>4, <1>5, <2>1, <2>2
  <1>8. CASE Adopt(g)
    <2>1. /\ stage[g] = "placing" /\ id[g] \in JobIds /\ stage'[g] # stage[g]
          /\ dirs'[id[g]] = dirs[from[g]]
          /\ \A j \in JobIds \ {id[g]} : dirs'[j] = IF j = from[g] THEN Nothing ELSE dirs[j]
      BY <1>8, Placed DEF Adopt, AfterPlacing, Move, FetchInv, WellKept
    <2>2. i # from[g]
      BY <1>1, <2>1
    <2> QED
      BY <1>1, <1>4, <1>5, <2>1, <2>2
  <1>9. CASE Fail(g)
    <2>1. /\ stage[g] \in {"placing", "claiming", "ready"} /\ stage'[g] # stage[g]
          /\ dirs' = [dirs EXCEPT ![id[g]] = Nothing]
      BY <1>2, <1>9 DEF Fail, FetchInv, WellKept
    <2>2. \A j \in JobIds \ {id[g]} : dirs'[j] = dirs[j]
      BY <2>1 DEF FetchInv, WellKept
    <2> QED
      BY <1>1, <1>4, <1>5, <2>1, <2>2
  <1>10. CASE WriteClaim(g)
    <2>1. stage[g] = "claiming" /\ stage'[g] # stage[g]
      BY <1>10 DEF WriteClaim, Move, FetchInv, WellKept
    <2>2. \A j \in JobIds \ {id[g]} : dirs'[j] = dirs[j]
      BY <1>10 DEF WriteClaim, FetchInv, WellKept
    <2> QED
      BY <1>1, <1>4, <1>5, <2>1, <2>2
  <1>11. CASE DownloadPart(g) \/ Download(g)
    <2>1. stage[g] = "downloading" /\ id[g] \in JobIds /\ up
      BY <1>11, <1>5, Placed DEF DownloadPart, Download, Move
    <2>2. \A j \in JobIds \ {id[g]} : dirs'[j] = dirs[j]
      <3>1. Receive(g, FALSE) \/ Receive(g, TRUE)
        BY <1>11 DEF DownloadPart, Download
      <3> QED
        BY <3>1, <2>1, Received
    <2>3. i = id[g]
      BY <1>1, <2>2
    <2>4. dirs[i].claim = Claim(g, version[g])
      BY <1>1, <1>5, <2>1, <2>3 DEF FetchInv, OwnDirectory, HoldersOf, Reusable
    <2>5. f = g
      BY <2>4 DEF Lost, Current, Claim
    <2> QED
      BY <1>1, <1>5, <2>1, <2>5 DEF FetchInv, OneHolder
  <1>12. CASE Convert(g)
    <2>1. /\ stage[g] = "ready" /\ stage'[g] # stage[g]
          /\ \A j \in JobIds \ {id[g]} : dirs'[j] = dirs[j]
      BY <1>12 DEF Convert, Move, FetchInv, WellKept
    <2> QED
      BY <1>1, <1>4, <1>5, <2>1
  <1> QED
    BY <1>2, <1>4, <1>6, <1>7, <1>8, <1>9, <1>10, <1>11, <1>12 DEF Job, Number

(* A file's own job, on its way to its download, leaves it.                *)
LEMMA OwnJobKeeps ==
  ASSUME FetchInv, StagingNext, NEW f \in Files, NEW i \in JobIds, Lost(f, i),
         Job(f), up, id[f] = i, stage[f] # "idle"
  PROVE  FALSE
  <1>1. /\ \A j \in JobIds : dirs'[j] # dirs[i]
        /\ version'[f] = version[f] /\ i \in HoldersOf(f) /\ dirs[i] # Nothing
    BY StillThere
  <1>2. stage[f] \in {"numbered", "placing"}
    BY <1>1 DEF Lost, Waits, FetchInv, WellKept, Stages, OneHolder
  <1>3. CASE stage[f] = "numbered"
    <2>1. TakeSalvaged(f) /\ salvaged[f] = i
      BY <1>1, <1>3
      DEF Job, Number, TakeSalvaged, Create, Adopt, AfterPlacing, Fail, WriteClaim,
          DownloadPart, Download, Convert, Move, FetchInv, OneHolder
    <2>2. StillMatches(f, dirs[i])
      BY DEF StillMatches, Lost, Current, Claim, Reusable
    <2> QED
      BY <1>1, <2>1, <2>2, NumbersAreNumbers DEF TakeSalvaged
  <1>4. CASE stage[f] = "placing"
    <2>1. from[f] = i
      BY <1>1, <1>4 DEF FetchInv, OneHolder
    <2>2. Adopt(f)
      BY <1>1, <1>4, <2>1, NumbersAreNumbers
      DEF Job, Number, TakeSalvaged, Create, Fail, WriteClaim, DownloadPart, Download, Convert, Move
    <2> QED
      BY <1>1, <2>1, <2>2 DEF Adopt
  <1> QED
    BY <1>2, <1>3, <1>4

(* A whole and current download waits for its file's next job over any     *)
(* runs and kills, with any number of jobs at work; what destroys it is a  *)
(* job of another file under the number of its directory (staging.rs,      *)
(* lines 52-73 and 139-143).                                               *)
THEOREM Kept == StagingSpec => DownloadsKept
  <1>1. FetchInv /\ [StagingNext]_stagingVars =>
          [\A f \in Files : \A i \in JobIds : Lost(f, i) =>
             \E g \in Files \ {f} : id[g] = i /\ stage'[g] # stage[g]]_stagingVars
    <2> SUFFICES ASSUME FetchInv, StagingNext, NEW f \in Files, NEW i \in JobIds, Lost(f, i)
                 PROVE  \E g \in Files \ {f} : id[g] = i /\ stage'[g] # stage[g]
      OBVIOUS
    <2>1. PICK g \in Files : Job(g) /\ up /\ id[g] = i /\ stage[g] # "idle" /\ stage'[g] # stage[g]
      BY TakenByNumber
    <2>2. g # f
      BY <2>1, OwnJobKeeps
    <2> QED
      BY <2>1, <2>2
  <1>2. StagingSpec => []FetchInv
    BY StagingInvariance, PTL
  <1> QED
    BY <1>1, <1>2, PTL DEF StagingSpec, DownloadsKept
=============================================================================
