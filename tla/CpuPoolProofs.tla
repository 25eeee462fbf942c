--------------------------- MODULE CpuPoolProofs ---------------------------
(***************************************************************************)
(* For any set of jobs and any number of cores.  First, that no core is    *)
(* pinned by two encoders and none is lost: this does not use the          *)
(* semaphores, for the list behind the mutex is enough, because a lease    *)
(* takes core ids only while it holds none.  Then, that a lease has as     *)
(* many cores as it was promised, which takes the count of the permits.    *)
(***************************************************************************)
EXTENDS CpuPool, FiniteSetTheorems, WellFoundedInduction, TLAPS

(* The part of the state the argument is about, and the reason a lease     *)
(* never overwrites cores it holds: only a working job holds any.          *)
LeaseInv ==
  /\ freeCores \subseteq Cores
  /\ stage \in [Jobs -> Stages]
  /\ cores \in [Jobs -> SUBSET Cores]
  /\ \A j \in Jobs : stage[j] # "working" => cores[j] = {}
  /\ EachCoreOnce

(* A step that leaves the free list and the leases alone, and moves a job  *)
(* neither into nor out of "working", preserves the invariant.             *)
LEMMA MoveKeeps ==
  ASSUME LeaseInv, NEW j \in Jobs, NEW a \in Stages, NEW b \in Stages \ {"working"},
         Move(j, a, b), UNCHANGED <<freeCores, cores>>, a # "working"
  PROVE  LeaseInv'
BY DEF LeaseInv, EachCoreOnce, Move, Cores

(* Cores are free at first.                                                *)
LEMMA LeaseInit == Init => LeaseInv
BY DEF Init, LeaseInv, EachCoreOnce, Cores, Stages

(* Taking core ids: from the free list to a lease that names none.         *)
LEMMA LeaseTake ==
  ASSUME LeaseInv, NEW j \in Jobs, TakeCores(j)
  PROVE  LeaseInv'
<1>1. PICK some \in SUBSET freeCores :
        /\ cores' = [cores EXCEPT ![j] = some]
        /\ freeCores' = freeCores \ some
  BY DEF TakeCores
<1>2. stage[j] = "permitted" /\ stage' = [stage EXCEPT ![j] = "working"]
  BY DEF TakeCores, Move
<1>3. cores[j] = {}
  BY <1>2 DEF LeaseInv
<1>4. /\ freeCores' \subseteq Cores
      /\ stage' \in [Jobs -> Stages]
      /\ cores' \in [Jobs -> SUBSET Cores]
      /\ \A k \in Jobs : stage'[k] # "working" => cores'[k] = {}
  BY <1>1, <1>2 DEF LeaseInv, Stages
<1>5. EachCoreOnce'
  <2> SUFFICES ASSUME NEW c \in Cores
               PROVE  LET holders == {k \in Jobs : c \in cores'[k]} IN
                      IF c \in freeCores' THEN holders = {} ELSE \E k \in Jobs : holders = {k}
    BY DEF EachCoreOnce, Cores
  <2> DEFINE before == {k \in Jobs : c \in cores[k]}
             after  == {k \in Jobs : c \in cores'[k]}
  <2>1. IF c \in freeCores THEN before = {} ELSE \E k \in Jobs : before = {k}
    BY DEF LeaseInv, EachCoreOnce
  <2>2. CASE c \in some
    <3>1. before = {} /\ c \notin freeCores'
      BY <1>1, <2>1, <2>2
    <3>2. after = {j}
      BY <1>1, <2>2, <3>1 DEF LeaseInv
    <3> QED BY <3>1, <3>2
  <2>3. CASE c \notin some
    <3>1. after = before
      BY <1>1, <1>3, <2>3 DEF LeaseInv
    <3> QED BY <1>1, <2>1, <2>3, <3>1
  <2> QED BY <2>2, <2>3
<1> QED BY <1>4, <1>5 DEF LeaseInv

(* The drop of a lease: all of its cores back to the free list.            *)
LEMMA LeaseReturn ==
  ASSUME LeaseInv, NEW j \in Jobs, ReturnCores(j)
  PROVE  LeaseInv'
<1>1. /\ freeCores' = freeCores \cup cores[j]
      /\ cores' = [cores EXCEPT ![j] = {}]
      /\ stage[j] = "working" /\ stage' = [stage EXCEPT ![j] = "returning"]
  BY DEF ReturnCores, Move
<1>2. /\ freeCores' \subseteq Cores
      /\ stage' \in [Jobs -> Stages]
      /\ cores' \in [Jobs -> SUBSET Cores]
      /\ \A k \in Jobs : stage'[k] # "working" => cores'[k] = {}
  BY <1>1 DEF LeaseInv, Stages
<1>3. EachCoreOnce'
  <2> SUFFICES ASSUME NEW c \in Cores
               PROVE  LET holders == {k \in Jobs : c \in cores'[k]} IN
                      IF c \in freeCores' THEN holders = {} ELSE \E k \in Jobs : holders = {k}
    BY DEF EachCoreOnce, Cores
  <2> DEFINE before == {k \in Jobs : c \in cores[k]}
             after  == {k \in Jobs : c \in cores'[k]}
  <2>1. IF c \in freeCores THEN before = {} ELSE \E k \in Jobs : before = {k}
    BY DEF LeaseInv, EachCoreOnce
  <2>2. CASE c \in cores[j]
    <3>1. before = {j}
      BY <2>1, <2>2
    <3>2. after = {}
      BY <1>1, <3>1 DEF LeaseInv
    <3> QED BY <1>1, <2>2, <3>2
  <2>3. CASE c \notin cores[j]
    <3>1. after = before
      BY <1>1, <2>3 DEF LeaseInv
    <3> QED BY <1>1, <2>1, <2>3, <3>1
  <2> QED BY <2>2, <2>3
<1> QED BY <1>2, <1>3 DEF LeaseInv

(* Every step of the governor preserves the invariant.                     *)
LEMMA LeaseNext == LeaseInv /\ [Next]_vars => LeaseInv'
<1> SUFFICES ASSUME LeaseInv, [Next]_vars PROVE LeaseInv'
  OBVIOUS
<1>1. ASSUME NEW j \in Jobs, AskVideo(j) PROVE LeaseInv'
  BY <1>1, MoveKeeps DEF AskVideo, Stages
<1>2. ASSUME NEW j \in Jobs, TryOther(j) PROVE LeaseInv'
  BY <1>2, MoveKeeps DEF TryOther, Permitted, Stages
<1>3. ASSUME NEW j \in Jobs, TryVideo(j) PROVE LeaseInv'
  BY <1>3, MoveKeeps DEF TryVideo, Permitted, Stages
<1>4. ASSUME NEW j \in Jobs, Granted(j) PROVE LeaseInv'
  BY <1>4, MoveKeeps DEF Granted, Stages
<1>5. ASSUME NEW j \in Jobs, ReleasePermit(j) PROVE LeaseInv'
  BY <1>5, MoveKeeps DEF ReleasePermit, Stages
<1>6. CASE UNCHANGED vars
  BY <1>6 DEF vars, LeaseInv, EachCoreOnce, Cores
<1> QED
  BY <1>1, <1>2, <1>3, <1>4, <1>5, <1>6, LeaseTake, LeaseReturn DEF Next, Proceed

(* No core is pinned by two encoders at once, and none is lost: a core is  *)
(* free or named by exactly one lease, for any number of jobs and cores    *)
(* (governor.rs, lines 268-282 and 82-104).                                *)
THEOREM NoCoreTwice == Spec => []EachCoreOnce
<1>1. LeaseInv => EachCoreOnce
  BY DEF LeaseInv
<1> QED BY <1>1, LeaseInit, LeaseNext, PTL DEF Spec

-----------------------------------------------------------------------------
(* The invariant the leases rest on.  A semaphore's queue holds one request *)
(* of each job that waits at it, all of one size: permits are counted in    *)
(* units of one kind of lease.                                              *)
Requests == [who : Jobs, n : Nat]

InLine(q, jobs, n) ==
  /\ q \in Seq(Requests)
  /\ \A i \in 1 .. Len(q) : q[i].who \in jobs /\ q[i].n = n
  /\ \A i, k \in 1 .. Len(q) : q[i].who = q[k].who => i = k
  /\ \A j \in jobs : \E i \in 1 .. Len(q) : q[i].who = j

Lined(sem, jobs, n) ==
  /\ sem = [permits |-> sem.permits, queue |-> sem.queue]
  /\ sem.permits \in Nat
  /\ InLine(sem.queue, jobs, n)

Queued(s) == {j \in Jobs : stage[j] = "queued" /\ from[j] = s}

Holding == {"permitted", "working", "returning"}

VideoHolders == {j \in VideoJobs : stage[j] \in Holding}

Borrowers == {j \in Jobs \ VideoJobs : from[j] = "video" /\ stage[j] \in Holding}

Singles == {j \in Jobs \ VideoJobs : stage[j] = "working"}

Lines ==
  /\ Lined(cpuVideo, Queued("video"), VideoCores)
  /\ Lined(cpuOther, Queued("other"), 1)

(* Where a job's permits are from; a video has them from its own pool.      *)
Origin ==
  /\ from \in [Jobs -> {"none", "video", "other"}]
  /\ \A j \in Jobs :
        /\ from[j] = "none" <=> stage[j] \in {"idle", "tryVideo"}
        /\ j \in VideoJobs => stage[j] # "tryVideo" /\ from[j] # "other"
        /\ stage[j] = "queued" /\ from[j] = "video" => j \in VideoJobs

(* Every permit of the reserve is free or with one job, ...                 *)
ReserveCount ==
  /\ IsFiniteSet(HoldsReserve)
  /\ cpuOther.permits + Cardinality(HoldsReserve) = NonVideoCores

(* ... those of video are free or with one borrower each, or all of them    *)
(* are with one video, ...                                                  *)
VideoCount ==
  /\ IsFiniteSet(Borrowers)
  /\ \/ VideoHolders = {} /\ cpuVideo.permits + Cardinality(Borrowers) = VideoCores
     \/ /\ cpuVideo.permits = 0 /\ Borrowers = {}
        /\ \E v \in VideoJobs : VideoHolders = {v}

(* ... and the core ids that are not free are those of the leases at work.  *)
InVideo == IF \E j \in VideoJobs : stage[j] = "working" THEN VideoCores ELSE 0

CoreCount ==
  /\ IsFiniteSet(Singles)
  /\ Cardinality(freeCores) + Cardinality(Singles) + InVideo = CpuCores

ShareInv ==
  /\ LeaseInv /\ Lines /\ Origin
  /\ ReserveCount /\ VideoCount /\ CoreCount /\ FullGrant

-----------------------------------------------------------------------------
(* Induction over the naturals, stated with a set.                         *)
LEMMA Induction ==
  ASSUME NEW T, 0 \in T, \A m \in Nat : m \in T => m + 1 \in T
  PROVE  Nat \subseteq T
<1> SUFFICES ASSUME Nat \ T # {} PROVE FALSE
  OBVIOUS
<1>1. \E x \in Nat \ T : \A y \in Nat \ T : ~ (<<y, x>> \in OpToRel(<, Nat))
  <2>1. Nat \ T \subseteq Nat /\ Nat \ T # {}
    OBVIOUS
  <2> QED BY <2>1, WFMin, NatLessThanWellFounded, Zenon
<1>2. PICK x \in Nat \ T : \A y \in Nat \ T : ~ (y < x)
  BY <1>1, Zenon DEF OpToRel
<1>3. x - 1 \in Nat /\ x = (x - 1) + 1
  OBVIOUS
<1> QED BY <1>2, <1>3

(* What the first requests of a queue ask for together is a number, and each *)
(* request adds its own share.                                             *)
LEMMA AskedSums ==
  ASSUME NEW sem, Len(sem.queue) \in Nat,
         \A k \in 1 .. Len(sem.queue) : sem.queue[k].n \in Nat
  PROVE  /\ Sem!Asked(sem, 0) = 0
         /\ \A i \in 0 .. Len(sem.queue) : Sem!Asked(sem, i) \in Nat
         /\ \A i \in 1 .. Len(sem.queue) :
              Sem!Asked(sem, i) = Sem!Asked(sem, i - 1) + sem.queue[i].n
<1> DEFINE q == sem.queue
           N == Len(q)
           Sum(g, m) == /\ g \in [0 .. m -> Nat]
                        /\ g[0] = 0
                        /\ \A k \in 1 .. m : g[k] = g[k - 1] + q[k].n
           summed == {m \in Nat : m <= N => \E g : Sum(g, m)}
           step(g) == [k \in 0 .. N |-> IF k = 0 THEN 0 ELSE g[k - 1] + q[k].n]
<1>1. N \in Nat /\ \A k \in 1 .. N : q[k].n \in Nat
  OBVIOUS
<1> HIDE DEF Sum, N, q
<1>2. Nat \subseteq summed
  <2>1. 0 \in summed
    <3>1. Sum([k \in 0 .. 0 |-> 0], 0)
      BY DEF Sum
    <3> QED BY <3>1, Zenon
  <2>2. ASSUME NEW m \in Nat, m \in summed PROVE m + 1 \in summed
    <3>1. ASSUME m + 1 <= N PROVE \E h : Sum(h, m + 1)
      <4>1. m <= N
        BY <1>1, <3>1
      <4>2. \E g : Sum(g, m)
        BY <2>2, <4>1, Zenon
      <4>3. PICK g : Sum(g, m)
        BY <4>2, Zenon
      <4> DEFINE h == [k \in 0 .. m + 1 |-> IF k = m + 1 THEN g[m] + q[m + 1].n ELSE g[k]]
      <4>4. q[m + 1].n \in Nat /\ g[m] \in Nat
        BY <1>1, <3>1, <4>3 DEF Sum
      <4>5. /\ h \in [0 .. m + 1 -> Nat]
            /\ h[0] = 0
            /\ \A k \in 1 .. m + 1 : h[k] = h[k - 1] + q[k].n
        BY <4>3, <4>4 DEF Sum
      <4> QED BY <4>5, Zenon DEF Sum
    <3>2. m + 1 \in Nat
      OBVIOUS
    <3> QED BY <3>1, <3>2, Zenon
  <2> HIDE DEF summed
  <2> QED BY <2>1, <2>2, Induction
<1>3. PICK g : Sum(g, N)
  <2>1. N <= N
    BY <1>1
  <2> QED BY <1>1, <1>2, <2>1
<1>4. g = step(g)
  <2>1. \A k \in 0 .. N : g[k] = step(g)[k]
    BY <1>1, <1>3 DEF Sum
  <2> QED BY <1>3, <2>1 DEF Sum
<1> DEFINE f == CHOOSE h : h = step(h)
<1>5. f = step(f)
  BY <1>4, Zenon
<1>6. \A i : Sem!Asked(sem, i) = f[i]
  BY DEF Sem!Asked, N, q
<1> HIDE DEF f
<1>7. f[0] = 0 /\ \A k \in 1 .. N : f[k] = f[k - 1] + q[k].n
  BY <1>1, <1>5
<1>8. \A i \in 0 .. N : f[i] \in Nat
  <2> DEFINE natural == {i \in Nat : i <= N => f[i] \in Nat}
  <2>1. 0 \in natural
    BY <1>7
  <2>2. \A m \in Nat : m \in natural => m + 1 \in natural
    BY <1>1, <1>7
  <2> HIDE DEF natural
  <2>3. Nat \subseteq natural
    BY <2>1, <2>2, Induction
  <2> QED BY <1>1, <2>3 DEF natural
<1> QED BY <1>6, <1>7, <1>8 DEF N, q

-----------------------------------------------------------------------------
(* The semaphore.                                                          *)

(* What a queue of requests of one size asks for: as much, so many times.  *)
LEMMA LinedAsks ==
  ASSUME NEW jobs, NEW n \in Nat, NEW sem, Lined(sem, jobs, n)
  PROVE  /\ Len(sem.queue) \in Nat
         /\ Sem!Asked(sem, 0) = 0
         /\ Sem!Asked(sem, Len(sem.queue)) \in Nat
         /\ \A i \in 1 .. Len(sem.queue) :
              /\ Sem!Asked(sem, i - 1) \in Nat
              /\ Sem!Asked(sem, i) = Sem!Asked(sem, i - 1) + n
<1>1. Len(sem.queue) \in Nat
  BY DEF Lined, InLine
<1>2. \A i \in 1 .. Len(sem.queue) : sem.queue[i].n = n
  BY DEF Lined, InLine
<1>3. \A i \in 1 .. Len(sem.queue) : i - 1 \in 0 .. Len(sem.queue)
  BY <1>1
<1>4. \A i \in 1 .. Len(sem.queue) : sem.queue[i].n \in Nat
  BY <1>2
<1>5. /\ Sem!Asked(sem, 0) = 0
      /\ \A i \in 0 .. Len(sem.queue) : Sem!Asked(sem, i) \in Nat
      /\ \A i \in 1 .. Len(sem.queue) :
           Sem!Asked(sem, i) = Sem!Asked(sem, i - 1) + sem.queue[i].n
  BY <1>1, <1>4, AskedSums
<1>6. \A i \in 1 .. Len(sem.queue) : Sem!Asked(sem, i) = Sem!Asked(sem, i - 1) + n
  BY <1>2, <1>5
<1>7. Len(sem.queue) \in 0 .. Len(sem.queue)
  BY <1>1
<1> QED BY <1>1, <1>3, <1>5, <1>6, <1>7

(* A try succeeds only on permits that are there.                          *)
LEMMA Tries ==
  ASSUME NEW jobs, NEW n \in Nat, NEW sem, Lined(sem, jobs, n),
         NEW k \in Nat \ {0}, Sem!CanTry(sem, k)
  PROVE  k <= sem.permits
<1>1. Sem!Asked(sem, Len(sem.queue)) \in Nat
  BY LinedAsks
<1> QED BY <1>1 DEF Sem!CanTry, Sem!Available, Lined

(* Permits taken from a semaphore or given to it leave its line alone.     *)
LEMMA Exchanges ==
  ASSUME NEW jobs, NEW n \in Nat, NEW sem, Lined(sem, jobs, n), NEW k \in Nat
  PROVE  /\ Lined(Sem!Give(sem, k), jobs, n)
         /\ Sem!Give(sem, k).permits = sem.permits + k
         /\ k <= sem.permits => /\ Lined(Sem!Take(sem, k), jobs, n)
                                /\ Sem!Take(sem, k).permits = sem.permits - k
<1>1. Sem!Give(sem, k) = [permits |-> sem.permits + k, queue |-> sem.queue]
  BY DEF Lined, Sem!Give
<1>2. Sem!Take(sem, k) = [permits |-> sem.permits - k, queue |-> sem.queue]
  BY DEF Lined, Sem!Take
<1> QED BY <1>1, <1>2 DEF Lined

(* Who joins stands last.                                                  *)
LEMMA Joins ==
  ASSUME NEW jobs, NEW n \in Nat, NEW sem, Lined(sem, jobs, n), NEW j \in Jobs \ jobs
  PROVE  /\ Lined(Sem!Enqueue(sem, j, n), jobs \cup {j}, n)
         /\ Sem!Enqueue(sem, j, n).permits = sem.permits
<1> DEFINE q == sem.queue
           N == Len(q)
           new == [who |-> j, n |-> n]
           r == Append(q, new)
<1>1. Sem!Enqueue(sem, j, n) = [permits |-> sem.permits, queue |-> r]
  BY DEF Sem!Enqueue, Sem!Request, Lined
<1>2. InLine(q, jobs, n)
  BY DEF Lined
<1>3. new \in Requests /\ new.who = j /\ new.n = n
  BY DEF Requests
<1> HIDE DEF q, new
<1>4. q \in Seq(Requests) /\ N \in Nat
  BY <1>2 DEF InLine
<1>5. /\ r \in Seq(Requests) /\ Len(r) = N + 1
      /\ \A i \in 1 .. N : r[i] = q[i]
      /\ r[N + 1] = new
  BY <1>3, <1>4
<1>6. \A i \in 1 .. N : q[i].who \in jobs /\ q[i].n = n
  BY <1>2 DEF InLine
<1>7. \A i, k \in 1 .. N : q[i].who = q[k].who => i = k
  BY <1>2 DEF InLine
<1>8. \A w \in jobs : \E i \in 1 .. N : q[i].who = w
  BY <1>2 DEF InLine
<1> HIDE DEF N, r
<1>9. \A i \in 1 .. N + 1 : i = N + 1 \/ i \in 1 .. N
  BY <1>4
<1>10. N + 1 \in 1 .. N + 1 /\ \A i \in 1 .. N : i \in 1 .. N + 1
  BY <1>4
<1>11. \A i \in 1 .. N + 1 : r[i].who \in jobs \cup {j} /\ r[i].n = n
  BY <1>3, <1>5, <1>6, <1>9
<1>12. \A i, k \in 1 .. N + 1 : r[i].who = r[k].who => i = k
  BY <1>3, <1>5, <1>6, <1>7, <1>9
<1>13. \A w \in jobs \cup {j} : \E i \in 1 .. N + 1 : r[i].who = w
  BY <1>3, <1>5, <1>8, <1>10
<1>14. InLine(r, jobs \cup {j}, n)
  BY <1>5, <1>11, <1>12, <1>13 DEF InLine
<1> QED BY <1>1, <1>14 DEF Lined

(* A sequence without its i-th element.                                    *)
LEMMA Without ==
  ASSUME NEW S, NEW q \in Seq(S), NEW i \in 1 .. Len(q)
  PROVE  LET r == SubSeq(q, 1, i - 1) \o SubSeq(q, i + 1, Len(q)) IN
         /\ r \in Seq(S) /\ Len(r) = Len(q) - 1
         /\ \A k \in 1 .. Len(q) - 1 : r[k] = q[IF k < i THEN k ELSE k + 1]
<1> DEFINE a == SubSeq(q, 1, i - 1)
           b == SubSeq(q, i + 1, Len(q))
<1>1. Len(q) \in Nat
  OBVIOUS
<1>2. /\ a \in Seq(S) /\ Len(a) = i - 1
      /\ \A k \in 1 .. i - 1 : a[k] = q[k]
  BY <1>1
<1>3. /\ b \in Seq(S) /\ Len(b) = Len(q) - i
      /\ \A k \in 1 .. Len(q) - i : b[k] = q[k + i]
  BY <1>1
<1> HIDE DEF a, b
<1>4. a \o b \in Seq(S) /\ Len(a \o b) = Len(q) - 1
  <2>1. a \in Seq(S) /\ b \in Seq(S)
    BY <1>2, <1>3
  <2>2. a \o b \in Seq(S)
    BY <2>1
  <2>3. Len(a \o b) = Len(a) + Len(b)
    BY <2>1
  <2> QED BY <1>1, <1>2, <1>3, <2>2, <2>3
<1>5. \A k \in 1 .. Len(q) - 1 : (a \o b)[k] = q[IF k < i THEN k ELSE k + 1]
  <2> SUFFICES ASSUME NEW k \in 1 .. Len(q) - 1
               PROVE  (a \o b)[k] = q[IF k < i THEN k ELSE k + 1]
    OBVIOUS
  <2>1. CASE k < i
    <3>1. k \in 1 .. Len(a)
      BY <1>1, <1>2, <2>1
    <3>2. (a \o b)[k] = a[k]
      BY <1>2, <1>3, <3>1
    <3> QED BY <1>2, <2>1, <3>1, <3>2
  <2>2. CASE ~ (k < i)
    <3>1. k - (i - 1) \in 1 .. Len(q) - i /\ (k - (i - 1)) + i = k + 1
      BY <1>1, <2>2
    <3>2. (a \o b)[k] = b[k - Len(a)]
      BY <1>1, <1>2, <1>3, <2>2
    <3> QED BY <1>2, <1>3, <2>2, <3>1, <3>2
  <2> QED BY <2>1, <2>2
<1> QED BY <1>4, <1>5 DEF a, b

(* Who leaves had its permits set aside, and they go with it.              *)
LEMMA Leaves ==
  ASSUME NEW jobs, NEW n \in Nat, NEW sem, Lined(sem, jobs, n), NEW j,
         Sem!Granted(sem, j)
  PROVE  /\ n <= sem.permits
         /\ Lined(Sem!Grant(sem, j), jobs \ {j}, n)
         /\ Sem!Grant(sem, j).permits = sem.permits - n
<1> DEFINE q == sem.queue
           N == Len(q)
           r == SubSeq(q, 1, Sem!Position(sem, j) - 1)
                \o SubSeq(q, Sem!Position(sem, j) + 1, N)
<1>1. q \in Seq(Requests) /\ N \in Nat /\ DOMAIN q = 1 .. N
  BY DEF Lined, InLine
<1>2. \A i \in 1 .. N : q[i].who \in jobs /\ q[i].n = n
  BY DEF Lined, InLine
<1>3. \A i, k \in 1 .. N : q[i].who = q[k].who => i = k
  BY DEF Lined, InLine
<1>4. \A w \in jobs : \E i \in 1 .. N : q[i].who = w
  BY DEF Lined, InLine
<1>5. PICK i \in 1 .. N : q[i].who = j /\ Sem!Asked(sem, i) <= sem.permits
  BY <1>1 DEF Sem!Granted
<1>6. Sem!Position(sem, j) = i
  BY <1>1, <1>3, <1>5 DEF Sem!Position
<1>7. n <= sem.permits
  <2>1. Sem!Asked(sem, i - 1) \in Nat /\ Sem!Asked(sem, i) = Sem!Asked(sem, i - 1) + n
    BY LinedAsks
  <2> QED BY <1>5, <2>1 DEF Lined
<1>8. Sem!Grant(sem, j) = [permits |-> sem.permits - n, queue |-> r]
  BY <1>2, <1>6 DEF Sem!Grant
<1> DEFINE at(k) == IF k < i THEN k ELSE k + 1
<1>9. /\ r \in Seq(Requests) /\ Len(r) = N - 1
      /\ \A k \in 1 .. N - 1 : r[k] = q[at(k)]
  BY <1>1, <1>6, Without
<1> HIDE DEF q, N, r
<1>10. \A k \in 1 .. N - 1 : at(k) \in 1 .. N /\ at(k) # i
  BY <1>1, <1>5
<1>11. \A k, m \in 1 .. N - 1 : at(k) = at(m) => k = m
  BY <1>1, <1>5
<1>12. \A m \in 1 .. N : m # i => \E k \in 1 .. N - 1 : at(k) = m
  <2> SUFFICES ASSUME NEW m \in 1 .. N, m # i PROVE \E k \in 1 .. N - 1 : at(k) = m
    OBVIOUS
  <2>1. CASE m < i
    <3>1. m \in 1 .. N - 1 /\ at(m) = m
      BY <1>1, <1>5, <2>1
    <3> QED BY <3>1
  <2>2. CASE m > i
    <3>1. m - 1 \in 1 .. N - 1 /\ at(m - 1) = m
      BY <1>1, <1>5, <2>2
    <3> QED BY <3>1
  <2> QED BY <1>1, <1>5, <2>1, <2>2
<1> HIDE DEF at
<1>13. \A k \in 1 .. N - 1 : r[k].who \in jobs \ {j} /\ r[k].n = n
  BY <1>2, <1>3, <1>5, <1>9, <1>10
<1>14. \A k, m \in 1 .. N - 1 : r[k].who = r[m].who => k = m
  BY <1>3, <1>9, <1>10, <1>11
<1>15. \A w \in jobs \ {j} : \E k \in 1 .. N - 1 : r[k].who = w
  <2> SUFFICES ASSUME NEW w \in jobs \ {j} PROVE \E k \in 1 .. N - 1 : r[k].who = w
    OBVIOUS
  <2>1. PICK m \in 1 .. N : q[m].who = w
    BY <1>4
  <2>2. PICK k \in 1 .. N - 1 : at(k) = m
    BY <1>5, <1>12, <2>1
  <2> QED BY <1>9, <2>1, <2>2
<1>16. InLine(r, jobs \ {j}, n)
  BY <1>9, <1>13, <1>14, <1>15 DEF InLine
<1> QED BY <1>7, <1>8, <1>16 DEF Lined

(* With requests of one permit each, a waiter that is not granted has as    *)
(* many granted ones before it as there are permits.                       *)
LEMMA GrantedFill ==
  ASSUME NEW jobs \in SUBSET Jobs, NEW sem, Lined(sem, jobs, 1),
         NEW j \in jobs, ~ Sem!Granted(sem, j)
  PROVE  Cardinality({k \in Jobs : Sem!Granted(sem, k)}) = sem.permits
<1> DEFINE q == sem.queue
           N == Len(q)
           G == {k \in Jobs : Sem!Granted(sem, k)}
           P == sem.permits
<1>1. q \in Seq(Requests) /\ N \in Nat /\ DOMAIN q = 1 .. N /\ P \in Nat
  BY DEF Lined, InLine
<1>2. \A i \in 1 .. N : q[i].who \in Jobs
  BY DEF Lined, InLine
<1>3. \A i, k \in 1 .. N : q[i].who = q[k].who => i = k
  BY DEF Lined, InLine
<1>4. \E i \in 1 .. N : q[i].who = j
  BY DEF Lined, InLine
<1>5. \A i \in Nat : i <= N => Sem!Asked(sem, i) = i
  <2> DEFINE T == {i \in Nat : i <= N => Sem!Asked(sem, i) = i}
  <2>1. 0 \in T
    BY LinedAsks
  <2>2. ASSUME NEW m \in Nat, m \in T PROVE m + 1 \in T
    <3>1. ASSUME m + 1 <= N PROVE Sem!Asked(sem, m + 1) = m + 1
      <4>1. Sem!Asked(sem, m) = m
        BY <1>1, <2>2, <3>1
      <4>2. m + 1 \in 1 .. N /\ (m + 1) - 1 = m
        BY <1>1, <3>1
      <4>3. Sem!Asked(sem, m + 1) = Sem!Asked(sem, m) + 1
        <5>1. \A i \in 1 .. N : Sem!Asked(sem, i) = Sem!Asked(sem, i - 1) + 1
          BY LinedAsks
        <5>2. Sem!Asked(sem, m + 1) = Sem!Asked(sem, (m + 1) - 1) + 1
          BY <4>2, <5>1
        <5> QED BY <4>2, <5>2
      <4> QED BY <4>1, <4>3
    <3> QED BY <3>1
  <2> HIDE DEF T
  <2>3. Nat \subseteq T
    BY <2>1, <2>2, Induction
  <2> QED BY <2>3 DEF T
<1> HIDE DEF P
<1>6. \A k : Sem!Granted(sem, k) <=> \E i \in 1 .. N : q[i].who = k /\ i <= P
  BY <1>1, <1>5 DEF Sem!Granted, P
<1>7. P < N
  BY <1>1, <1>4, <1>6
<1> HIDE DEF q, N
<1> DEFINE who == [i \in 1 .. P |-> q[i].who]
<1>8. \A i \in 1 .. P : i \in 1 .. N /\ i <= P
  BY <1>1, <1>7
<1>9. \A i \in 1 .. P : q[i].who \in G
  BY <1>2, <1>6, <1>8
<1>10. \A i, k \in 1 .. P : q[i].who = q[k].who => i = k
  BY <1>3, <1>8
<1>11. \A k \in G : \E i \in 1 .. P : q[i].who = k
  BY <1>1, <1>6
<1> HIDE DEF G
<1>12. who \in Bijection(1 .. P, G)
  BY <1>9, <1>10, <1>11 DEF Bijection, Injection, Surjection, IsInjective
<1>13. IsFiniteSet(1 .. P) /\ Cardinality(1 .. P) = P
  BY <1>1, FS_Interval
<1>14. ExistsBijection(1 .. P, G)
  BY <1>12 DEF ExistsBijection
<1>15. Cardinality(G) = Cardinality(1 .. P)
  BY <1>13, <1>14, FS_Bijection
<1> QED BY <1>13, <1>15 DEF G, P

-----------------------------------------------------------------------------
(* The steps of the governor.                                              *)

LEMMA ShareInit == Init => ShareInv
<1> SUFFICES ASSUME Init PROVE ShareInv
  OBVIOUS
<1>1. VideoCores \in Nat /\ VideoCores + NonVideoCores = CpuCores /\ CpuCores \in Nat
  BY CpuPoolAssumption DEF VideoCores
<1>2. \A jobs, n : jobs = {} => InLine(<<>>, jobs, n)
  BY DEF InLine
<1>3. Queued("video") = {} /\ Queued("other") = {}
  BY DEF Init, Queued
<1>4. Lines
  BY <1>1, <1>2, <1>3, CpuPoolAssumption DEF Init, Lines, Lined, Sem!Fresh
<1>5. HoldsReserve = {} /\ VideoHolders = {} /\ Borrowers = {} /\ Singles = {} /\ InVideo = 0
  BY CpuPoolAssumption DEF Init, HoldsReserve, VideoHolders, Borrowers, Singles, InVideo, Holding
<1>6. ReserveCount /\ VideoCount
  BY <1>1, <1>5, FS_EmptySet, CpuPoolAssumption DEF Init, ReserveCount, VideoCount, Sem!Fresh
<1>7. CoreCount
  <2>1. Cardinality(freeCores) = CpuCores
    BY <1>1, FS_Interval DEF Init, Cores
  <2> QED BY <1>1, <1>5, <2>1, FS_EmptySet DEF CoreCount
<1>8. Origin /\ FullGrant
  BY CpuPoolAssumption DEF Init, Origin, FullGrant
<1> QED BY <1>4, <1>6, <1>7, <1>8, LeaseInit DEF ShareInv

(* What every step below uses.                                             *)
LEMMA Facts ==
  ASSUME ShareInv
  PROVE  /\ VideoCores \in Nat \ {0} /\ VideoCores + NonVideoCores = CpuCores
         /\ CpuCores \in Nat /\ NonVideoCores \in Nat
         /\ VideoJobs \subseteq Jobs
         /\ stage \in [Jobs -> Stages]
         /\ from \in [Jobs -> {"none", "video", "other"}]
         /\ cores \in [Jobs -> SUBSET Cores]
         /\ cpuVideo.permits \in Nat /\ cpuOther.permits \in Nat
         /\ Lined(cpuVideo, Queued("video"), VideoCores) /\ Lined(cpuOther, Queued("other"), 1)
         /\ IsFiniteSet(freeCores) /\ Cardinality(freeCores) \in Nat
         /\ Cardinality(Singles) \in Nat
         /\ Cardinality(HoldsReserve) \in Nat /\ Cardinality(Borrowers) \in Nat
<1>1. /\ VideoCores \in Nat \ {0} /\ VideoCores + NonVideoCores = CpuCores
      /\ CpuCores \in Nat /\ NonVideoCores \in Nat /\ VideoJobs \subseteq Jobs
  BY CpuPoolAssumption DEF VideoCores
<1>2. IsFiniteSet(freeCores)
  <2>1. IsFiniteSet(Cores)
    BY <1>1, FS_Interval DEF Cores
  <2> QED BY <2>1, FS_Subset DEF ShareInv, LeaseInv
<1>3. IsFiniteSet(Singles) /\ IsFiniteSet(HoldsReserve) /\ IsFiniteSet(Borrowers)
  BY DEF ShareInv, CoreCount, ReserveCount, VideoCount
<1>4. /\ Cardinality(freeCores) \in Nat /\ Cardinality(Singles) \in Nat
      /\ Cardinality(HoldsReserve) \in Nat /\ Cardinality(Borrowers) \in Nat
  BY <1>2, <1>3, FS_CardinalityType
<1> QED BY <1>1, <1>2, <1>4 DEF ShareInv, LeaseInv, Lines, Lined, Origin

(* A step that neither begins nor ends work on any core.                   *)
LEMMA CoresApart ==
  ASSUME ShareInv, NEW j \in Jobs, NEW a \in Stages \ {"working"},
         NEW b \in Stages \ {"working"}, Move(j, a, b), UNCHANGED <<freeCores, cores>>
  PROVE  CoreCount' /\ FullGrant'
<1>1. \A k \in Jobs : stage'[k] = "working" <=> stage[k] = "working"
  BY Facts DEF Move
<1>2. Singles' = Singles /\ InVideo' = InVideo
  BY <1>1, Facts DEF Singles, InVideo
<1> QED BY <1>1, <1>2 DEF ShareInv, CoreCount, FullGrant

(* Waiting changes no count.                                               *)
LEMMA AskVideoKeeps ==
  ASSUME ShareInv, NEW j \in Jobs, AskVideo(j)
  PROVE  Lines' /\ Origin' /\ ReserveCount' /\ VideoCount'
<1>1. /\ j \in VideoJobs /\ stage[j] = "idle" /\ stage' = [stage EXCEPT ![j] = "queued"]
      /\ from' = [from EXCEPT ![j] = "video"] /\ cpuOther' = cpuOther
      /\ cpuVideo' = Sem!Enqueue(cpuVideo, j, VideoCores)
  BY DEF AskVideo, Move
<1>2. /\ Queued("video")' = Queued("video") \cup {j} /\ j \notin Queued("video")
      /\ Queued("other")' = Queued("other")
  BY <1>1, Facts DEF Queued, ShareInv, Origin
<1>3. /\ HoldsReserve' = HoldsReserve /\ Borrowers' = Borrowers /\ VideoHolders' = VideoHolders
  BY <1>1, Facts DEF HoldsReserve, Borrowers, VideoHolders, Holding
<1>4. /\ Lined(cpuVideo', Queued("video") \cup {j}, VideoCores)
      /\ cpuVideo'.permits = cpuVideo.permits
  BY <1>1, <1>2, Facts, Joins
<1>5. Lines'
  BY <1>1, <1>2, <1>4, Facts DEF Lines
<1>6. Origin'
  BY <1>1, Facts DEF ShareInv, Origin
<1>7. ReserveCount' /\ VideoCount'
  BY <1>1, <1>3, <1>4 DEF ShareInv, ReserveCount, VideoCount
<1> QED BY <1>5, <1>6, <1>7

(* A core of the reserve: a permit fewer, a holder more.                   *)
LEMMA ReserveTaken ==
  ASSUME ShareInv, NEW j \in Jobs \ VideoJobs, stage[j] \notin Holding, 1 <= cpuOther.permits,
         stage' = [stage EXCEPT ![j] = "permitted"],
         from' = [from EXCEPT ![j] = "other"],
         cpuOther'.permits = cpuOther.permits - 1,
         cpuVideo' = cpuVideo
  PROVE  ReserveCount' /\ VideoCount' /\ Origin'
<1>1. HoldsReserve' = HoldsReserve \cup {j} /\ j \notin HoldsReserve
  BY Facts DEF HoldsReserve, Holding
<1>2. Borrowers' = Borrowers /\ VideoHolders' = VideoHolders
  BY Facts DEF Borrowers, VideoHolders, Holding
<1>3. IsFiniteSet(HoldsReserve') /\ Cardinality(HoldsReserve') = Cardinality(HoldsReserve) + 1
  BY <1>1, FS_AddElement DEF ShareInv, ReserveCount
<1>4. ReserveCount'
  BY <1>3, Facts DEF ShareInv, ReserveCount
<1>5. VideoCount'
  BY <1>2 DEF ShareInv, VideoCount
<1>6. Origin'
  BY Facts DEF ShareInv, Origin
<1> QED BY <1>4, <1>5, <1>6

LEMMA TryOtherKeeps ==
  ASSUME ShareInv, NEW j \in Jobs, TryOther(j)
  PROVE  Lines' /\ Origin' /\ ReserveCount' /\ VideoCount'
<1>1. j \notin VideoJobs /\ stage[j] = "idle" /\ cpuVideo' = cpuVideo
  BY DEF TryOther, Permitted, Move
<1>2. CASE Sem!CanTry(cpuOther, 1)
  <2>1. /\ cpuOther' = Sem!Take(cpuOther, 1)
        /\ stage' = [stage EXCEPT ![j] = "permitted"] /\ from' = [from EXCEPT ![j] = "other"]
    BY <1>2 DEF TryOther, Permitted, Move
  <2>2. 1 <= cpuOther.permits
    BY <1>2, Facts, Tries
  <2>3. /\ Lined(cpuOther', Queued("other"), 1)
        /\ cpuOther'.permits = cpuOther.permits - 1
    <3>1. Lined(cpuOther, Queued("other"), 1) /\ 1 \in Nat
      BY Facts
    <3>2. /\ Lined(Sem!Take(cpuOther, 1), Queued("other"), 1)
          /\ Sem!Take(cpuOther, 1).permits = cpuOther.permits - 1
      BY <2>2, <3>1, Exchanges
    <3> QED BY <2>1, <3>2
  <2>4. Queued("video")' = Queued("video") /\ Queued("other")' = Queued("other")
    <3>1. \A k \in Jobs \ {j} : stage'[k] = stage[k] /\ from'[k] = from[k]
      BY <2>1, Facts
    <3>2. stage[j] # "queued" /\ stage'[j] # "queued"
      BY <1>1, <2>1, Facts
    <3> QED BY <3>1, <3>2 DEF Queued
  <2>5. Lines'
    BY <1>1, <2>3, <2>4, Facts DEF Lines
  <2>6. stage[j] \notin Holding
    BY <1>1 DEF Holding
  <2> QED BY <1>1, <2>1, <2>2, <2>3, <2>5, <2>6, ReserveTaken
<1>3. CASE ~ Sem!CanTry(cpuOther, 1)
  <2>1. cpuOther' = cpuOther /\ from' = from /\ stage' = [stage EXCEPT ![j] = "tryVideo"]
    BY <1>3 DEF TryOther, Move
  <2>2. /\ Queued("video")' = Queued("video") /\ Queued("other")' = Queued("other")
        /\ HoldsReserve' = HoldsReserve /\ Borrowers' = Borrowers
        /\ VideoHolders' = VideoHolders
    BY <1>1, <2>1, Facts DEF Queued, HoldsReserve, Borrowers, VideoHolders, Holding
  <2>3. Origin'
    BY <1>1, <2>1, Facts DEF ShareInv, Origin
  <2> QED BY <1>1, <2>1, <2>2, <2>3, Facts DEF ShareInv, Lines, ReserveCount, VideoCount
<1> QED BY <1>2, <1>3

LEMMA TryVideoKeeps ==
  ASSUME ShareInv, NEW j \in Jobs, TryVideo(j)
  PROVE  Lines' /\ Origin' /\ ReserveCount' /\ VideoCount'
<1>1. stage[j] = "tryVideo" /\ j \notin VideoJobs
  BY Facts DEF TryVideo, Permitted, Move, ShareInv, Origin
<1>2. CASE Sem!CanTry(cpuVideo, 1)
  <2>1. /\ cpuVideo' = Sem!Take(cpuVideo, 1) /\ cpuOther' = cpuOther
        /\ stage' = [stage EXCEPT ![j] = "permitted"] /\ from' = [from EXCEPT ![j] = "video"]
    BY <1>2 DEF TryVideo, Permitted, Move
  <2>2. 1 <= cpuVideo.permits
    BY <1>2, Facts, Tries
  <2>3. /\ Lined(cpuVideo', Queued("video"), VideoCores)
        /\ cpuVideo'.permits = cpuVideo.permits - 1
    BY <2>1, <2>2, Facts, Exchanges
  <2>4. /\ Queued("video")' = Queued("video") /\ Queued("other")' = Queued("other")
        /\ HoldsReserve' = HoldsReserve /\ VideoHolders' = VideoHolders
    BY <1>1, <2>1, Facts DEF Queued, HoldsReserve, VideoHolders, Holding
  <2>5. Borrowers' = Borrowers \cup {j} /\ j \notin Borrowers
    BY <1>1, <2>1, Facts DEF Borrowers, Holding
  <2>6. /\ VideoHolders = {} /\ IsFiniteSet(Borrowers)
        /\ cpuVideo.permits + Cardinality(Borrowers) = VideoCores
    BY <2>2, Facts DEF ShareInv, VideoCount
  <2>7. IsFiniteSet(Borrowers') /\ Cardinality(Borrowers') = Cardinality(Borrowers) + 1
    BY <2>5, <2>6, FS_AddElement
  <2>8. VideoCount'
    BY <2>3, <2>4, <2>6, <2>7, Facts DEF VideoCount
  <2>9. ReserveCount'
    BY <2>1, <2>4 DEF ShareInv, ReserveCount
  <2>10. Lines'
    BY <2>1, <2>3, <2>4, Facts DEF Lines
  <2>11. Origin'
    BY <1>1, <2>1, Facts DEF ShareInv, Origin
  <2> QED BY <2>8, <2>9, <2>10, <2>11
<1>3. CASE ~ Sem!CanTry(cpuVideo, 1)
  <2>1. /\ cpuOther' = Sem!Enqueue(cpuOther, j, 1) /\ cpuVideo' = cpuVideo
        /\ stage' = [stage EXCEPT ![j] = "queued"] /\ from' = [from EXCEPT ![j] = "other"]
    BY <1>3 DEF TryVideo, Move
  <2>2. /\ Queued("other")' = Queued("other") \cup {j} /\ j \notin Queued("other")
        /\ Queued("video")' = Queued("video")
    BY <1>1, <2>1, Facts DEF Queued
  <2>3. HoldsReserve' = HoldsReserve /\ Borrowers' = Borrowers /\ VideoHolders' = VideoHolders
    BY <1>1, <2>1, Facts DEF HoldsReserve, Borrowers, VideoHolders, Holding
  <2>4. /\ Lined(cpuOther', Queued("other") \cup {j}, 1)
        /\ cpuOther'.permits = cpuOther.permits
    BY <2>1, <2>2, Facts, Joins
  <2>5. Lines'
    BY <2>1, <2>2, <2>4, Facts DEF Lines
  <2>6. Origin'
    BY <1>1, <2>1, Facts DEF ShareInv, Origin
  <2> QED BY <2>1, <2>3, <2>4, <2>5, <2>6 DEF ShareInv, ReserveCount, VideoCount
<1> QED BY <1>2, <1>3

(* A video is granted all of its pool, which nobody may then hold a part   *)
(* of.                                                                     *)
LEMMA GrantedKeeps ==
  ASSUME ShareInv, NEW j \in Jobs, Granted(j)
  PROVE  Lines' /\ Origin' /\ ReserveCount' /\ VideoCount'
<1>1. stage[j] = "queued" /\ stage' = [stage EXCEPT ![j] = "permitted"] /\ from' = from
  BY DEF Granted, Move
<1>2. CASE from[j] = "video"
  <2>1. /\ Sem!Granted(cpuVideo, j) /\ cpuVideo' = Sem!Grant(cpuVideo, j)
        /\ cpuOther' = cpuOther
    BY <1>2 DEF Granted
  <2>2. j \in VideoJobs
    BY <1>1, <1>2 DEF ShareInv, Origin
  <2>3. /\ VideoCores <= cpuVideo.permits
        /\ Lined(cpuVideo', Queued("video") \ {j}, VideoCores)
        /\ cpuVideo'.permits = cpuVideo.permits - VideoCores
    BY <2>1, Facts, Leaves
  <2>4. /\ VideoHolders = {} /\ IsFiniteSet(Borrowers)
        /\ cpuVideo.permits + Cardinality(Borrowers) = VideoCores
    BY <2>3, Facts DEF ShareInv, VideoCount
  <2>5. Cardinality(Borrowers) = 0 /\ cpuVideo'.permits = 0
    BY <2>3, <2>4, Facts
  <2>6. Borrowers = {}
    BY <2>4, <2>5, FS_EmptySet
  <2>7. /\ Queued("video")' = Queued("video") \ {j} /\ Queued("other")' = Queued("other")
        /\ HoldsReserve' = HoldsReserve
    BY <1>1, <1>2, Facts DEF Queued, HoldsReserve
  <2>8. Borrowers' = {} /\ VideoHolders' = {j}
    BY <1>1, <2>2, <2>4, <2>6, Facts DEF Borrowers, VideoHolders, Holding
  <2>9. VideoCount'
    BY <2>2, <2>5, <2>8, FS_EmptySet DEF VideoCount
  <2>10. Lines'
    BY <2>1, <2>3, <2>7, Facts DEF Lines
  <2>11. Origin'
    BY <1>1, Facts DEF ShareInv, Origin
  <2> QED BY <2>1, <2>7, <2>9, <2>10, <2>11 DEF ShareInv, ReserveCount
<1>3. CASE from[j] = "other"
  <2>1. /\ Sem!Granted(cpuOther, j) /\ cpuOther' = Sem!Grant(cpuOther, j)
        /\ cpuVideo' = cpuVideo
    BY <1>3 DEF Granted
  <2>2. j \notin VideoJobs
    BY <1>3 DEF ShareInv, Origin
  <2>3. /\ 1 <= cpuOther.permits
        /\ Lined(cpuOther', Queued("other") \ {j}, 1)
        /\ cpuOther'.permits = cpuOther.permits - 1
    BY <2>1, Facts, Leaves
  <2>4. Queued("other")' = Queued("other") \ {j} /\ Queued("video")' = Queued("video")
    BY <1>1, <1>3, Facts DEF Queued
  <2>5. Lines'
    BY <2>1, <2>3, <2>4, Facts DEF Lines
  <2>6. from' = [from EXCEPT ![j] = "other"] /\ stage[j] \notin Holding
    BY <1>1, <1>3, Facts DEF Holding
  <2> QED BY <1>1, <2>1, <2>2, <2>3, <2>5, <2>6, ReserveTaken
<1> QED BY <1>2, <1>3 DEF Granted

(* What holds core ids has permits for them, and permits say how many ids  *)
(* are free.                                                               *)
LEMMA CoresSuffice ==
  ASSUME ShareInv, NEW j \in Jobs, stage[j] = "permitted"
  PROVE  /\ CoresFor(j) <= Cardinality(freeCores)
         /\ j \in VideoJobs => InVideo = 0
<1>1. Singles \subseteq HoldsReserve \cup Borrowers
  BY Facts DEF Singles, HoldsReserve, Borrowers, Holding, ShareInv, Origin
<1>2. HoldsReserve \cap Borrowers = {}
  BY DEF HoldsReserve, Borrowers
<1>3. /\ IsFiniteSet(HoldsReserve) /\ IsFiniteSet(Borrowers)
      /\ cpuOther.permits + Cardinality(HoldsReserve) = NonVideoCores
      /\ Cardinality(freeCores) + Cardinality(Singles) + InVideo = CpuCores
  BY DEF ShareInv, ReserveCount, VideoCount, CoreCount
<1>4. /\ IsFiniteSet(HoldsReserve \cup Borrowers)
      /\ Cardinality(HoldsReserve \cup Borrowers)
           = Cardinality(HoldsReserve) + Cardinality(Borrowers)
  BY <1>2, <1>3, Facts, FS_Union, FS_EmptySet
<1>5. CASE j \in VideoJobs
  <2>1. j \in VideoHolders
    BY <1>5 DEF VideoHolders, Holding
  <2>2. Borrowers = {} /\ VideoHolders = {j}
    BY <2>1 DEF ShareInv, VideoCount
  <2>3. InVideo = 0
    BY <2>2 DEF InVideo, VideoHolders, Holding
  <2>4. Cardinality(Singles) <= Cardinality(HoldsReserve)
    BY <1>1, <1>3, <2>2, FS_Subset
  <2>5. CoresFor(j) = VideoCores
    BY <1>5 DEF CoresFor
  <2> QED BY <1>3, <2>3, <2>4, <2>5, Facts
<1>6. CASE j \notin VideoJobs
  <2>1. j \in (HoldsReserve \cup Borrowers) /\ j \notin Singles
    BY <1>6, Facts DEF HoldsReserve, Borrowers, Singles, Holding, ShareInv, Origin
  <2>2. /\ IsFiniteSet(Singles \cup {j})
        /\ Cardinality(Singles \cup {j}) = Cardinality(Singles) + 1
    BY <2>1, FS_AddElement DEF ShareInv, CoreCount
  <2>3. Singles \cup {j} \in SUBSET (HoldsReserve \cup Borrowers)
    BY <1>1, <2>1
  <2>4. Cardinality(Singles) + 1 <= Cardinality(HoldsReserve) + Cardinality(Borrowers)
    BY <1>4, <2>2, <2>3, FS_Subset
  <2>5. InVideo + Cardinality(Borrowers) <= VideoCores
    <3>1. CASE VideoHolders = {} /\ cpuVideo.permits + Cardinality(Borrowers) = VideoCores
      <4>1. InVideo = 0
        BY <3>1 DEF InVideo, VideoHolders, Holding
      <4> QED BY <3>1, <4>1, Facts
    <3>2. CASE Borrowers = {}
      BY <3>2, FS_EmptySet, Facts DEF InVideo
    <3> QED BY <3>1, <3>2 DEF ShareInv, VideoCount
  <2>6. CoresFor(j) = 1 /\ InVideo \in Nat
    BY <1>6, Facts DEF CoresFor, InVideo
  <2> QED BY <1>3, <1>6, <2>4, <2>5, <2>6, Facts
<1> QED BY <1>5, <1>6

(* A step among the stages of a holder changes neither line nor count of   *)
(* permits.                                                                *)
LEMMA HolderStays ==
  ASSUME ShareInv, NEW j \in Jobs, stage[j] \in Holding, NEW b \in Holding,
         stage' = [stage EXCEPT ![j] = b], UNCHANGED <<from, cpuVideo, cpuOther>>
  PROVE  Lines' /\ Origin' /\ ReserveCount' /\ VideoCount'
<1>1. /\ Queued("video")' = Queued("video") /\ Queued("other")' = Queued("other")
      /\ HoldsReserve' = HoldsReserve /\ Borrowers' = Borrowers
      /\ VideoHolders' = VideoHolders
  BY Facts DEF Queued, HoldsReserve, Borrowers, VideoHolders, Holding
<1>2. Origin'
  BY Facts DEF ShareInv, Origin, Holding
<1> QED BY <1>1, <1>2 DEF ShareInv, Lines, ReserveCount, VideoCount

(* The list is long enough for the lease, so that the lease is whole.      *)
LEMMA TakeCoresKeeps ==
  ASSUME ShareInv, NEW j \in Jobs, TakeCores(j)
  PROVE  ShareInv'
<1>1. /\ stage[j] = "permitted" /\ stage' = [stage EXCEPT ![j] = "working"]
      /\ UNCHANGED <<from, cpuVideo, cpuOther>>
  BY DEF TakeCores, Move
<1>2. CoresFor(j) <= Cardinality(freeCores) /\ (j \in VideoJobs => InVideo = 0)
  BY <1>1, CoresSuffice
<1>3. CoresFor(j) \in Nat
  BY Facts DEF CoresFor
<1>4. PICK some \in SUBSET freeCores :
        /\ Cardinality(some) = CoresFor(j)
        /\ cores' = [cores EXCEPT ![j] = some]
        /\ freeCores' = freeCores \ some
  <2>1. (IF Cardinality(freeCores) < CoresFor(j) THEN Cardinality(freeCores) ELSE CoresFor(j))
          = CoresFor(j)
    BY <1>2, <1>3, Facts
  <2> QED BY <2>1, Zenon DEF TakeCores
<1>5. Cardinality(freeCores') = Cardinality(freeCores) - CoresFor(j)
  <2>1. Cardinality(freeCores \ some) = Cardinality(freeCores) - Cardinality(freeCores \cap some)
    BY Facts, FS_Difference, Zenon
  <2>2. freeCores \cap some = some
    OBVIOUS
  <2> QED BY <1>4, <2>1, <2>2, Zenon
<1>6. FullGrant'
  BY <1>1, <1>4, Facts DEF ShareInv, FullGrant, CoresFor
<1>7. CoreCount'
  <2>1. CASE j \in VideoJobs
    <3>1. Singles' = Singles
      BY <1>1, <2>1, Facts DEF Singles
    <3>2. InVideo' = VideoCores
      BY <1>1, <2>1, Facts DEF InVideo
    <3> QED BY <1>2, <1>5, <2>1, <3>1, <3>2, Facts DEF ShareInv, CoreCount, CoresFor
  <2>2. CASE j \notin VideoJobs
    <3>1. Singles' = Singles \cup {j} /\ j \notin Singles
      BY <1>1, <2>2, Facts DEF Singles
    <3>2. IsFiniteSet(Singles') /\ Cardinality(Singles') = Cardinality(Singles) + 1
      BY <3>1, FS_AddElement DEF ShareInv, CoreCount
    <3>3. InVideo' = InVideo /\ InVideo \in Nat
      BY <1>1, <2>2, Facts DEF InVideo
    <3> QED BY <1>5, <2>2, <3>2, <3>3, Facts DEF ShareInv, CoreCount, CoresFor
  <2> QED BY <2>1, <2>2
<1>8. Lines' /\ Origin' /\ ReserveCount' /\ VideoCount'
  BY <1>1, HolderStays DEF Holding
<1> QED BY <1>6, <1>7, <1>8, LeaseTake DEF ShareInv

LEMMA ReturnCoresKeeps ==
  ASSUME ShareInv, NEW j \in Jobs, ReturnCores(j)
  PROVE  ShareInv'
<1>1. /\ stage[j] = "working" /\ stage' = [stage EXCEPT ![j] = "returning"]
      /\ freeCores' = freeCores \cup cores[j] /\ cores' = [cores EXCEPT ![j] = {}]
      /\ UNCHANGED <<from, cpuVideo, cpuOther>>
  BY DEF ReturnCores, Move
<1>2. Cardinality(cores[j]) = CoresFor(j)
  BY <1>1 DEF ShareInv, FullGrant
<1>3. freeCores \cap cores[j] = {}
  BY Facts DEF ShareInv, LeaseInv, EachCoreOnce
<1>4. IsFiniteSet(cores[j])
  <2>1. IsFiniteSet(Cores)
    BY Facts, FS_Interval DEF Cores
  <2> QED BY <2>1, Facts, FS_Subset
<1>5. Cardinality(freeCores') = Cardinality(freeCores) + CoresFor(j)
  <2>1. Cardinality(freeCores \cup cores[j])
          = Cardinality(freeCores) + Cardinality(cores[j]) - Cardinality(freeCores \cap cores[j])
    BY <1>4, Facts, FS_Union
  <2>2. CoresFor(j) \in Nat
    BY Facts DEF CoresFor
  <2> QED BY <1>1, <1>2, <1>3, <2>1, <2>2, FS_EmptySet, Facts
<1>6. FullGrant'
  BY <1>1, Facts DEF ShareInv, FullGrant
<1>7. CoreCount'
  <2>1. CASE j \in VideoJobs
    <3>1. Singles' = Singles
      BY <1>1, <2>1, Facts DEF Singles
    <3>2. InVideo = VideoCores
      BY <1>1, <2>1 DEF InVideo
    <3>3. VideoHolders = {j}
      BY <1>1, <2>1 DEF ShareInv, VideoCount, VideoHolders, Holding
    <3>4. InVideo' = 0
      BY <1>1, <3>3, Facts DEF InVideo, VideoHolders, Holding
    <3> QED BY <1>5, <2>1, <3>1, <3>2, <3>4, Facts DEF ShareInv, CoreCount, CoresFor
  <2>2. CASE j \notin VideoJobs
    <3>1. Singles' = Singles \ {j} /\ j \in Singles
      BY <1>1, <2>2, Facts DEF Singles
    <3>2. IsFiniteSet(Singles') /\ Cardinality(Singles') = Cardinality(Singles) - 1
      BY <3>1, FS_RemoveElement DEF ShareInv, CoreCount
    <3>3. InVideo' = InVideo /\ InVideo \in Nat
      BY <1>1, <2>2, Facts DEF InVideo
    <3> QED BY <1>5, <2>2, <3>2, <3>3, Facts DEF ShareInv, CoreCount, CoresFor
  <2> QED BY <2>1, <2>2
<1>8. Lines' /\ Origin' /\ ReserveCount' /\ VideoCount'
  BY <1>1, HolderStays DEF Holding
<1> QED BY <1>6, <1>7, <1>8, LeaseReturn DEF ShareInv

(* Permits go back to the semaphore they are from.                         *)
LEMMA ReleaseKeeps ==
  ASSUME ShareInv, NEW j \in Jobs, ReleasePermit(j)
  PROVE  Lines' /\ Origin' /\ ReserveCount' /\ VideoCount'
<1>1. /\ stage[j] = "returning" /\ stage' = [stage EXCEPT ![j] = "idle"]
      /\ from' = [from EXCEPT ![j] = "none"]
  BY DEF ReleasePermit, Move
<1>2. Queued("video")' = Queued("video") /\ Queued("other")' = Queued("other")
  BY <1>1, Facts DEF Queued
<1>3. Origin'
  BY <1>1, Facts DEF ShareInv, Origin
<1>4. CoresFor(j) \in Nat
  BY Facts DEF CoresFor
<1>5. CASE from[j] = "video"
  <2>1. cpuVideo' = Sem!Give(cpuVideo, CoresFor(j)) /\ cpuOther' = cpuOther
    BY <1>5 DEF ReleasePermit
  <2>2. /\ Lined(cpuVideo', Queued("video"), VideoCores)
        /\ cpuVideo'.permits = cpuVideo.permits + CoresFor(j)
    BY <1>4, <2>1, Facts, Exchanges
  <2>3. HoldsReserve' = HoldsReserve
    BY <1>1, <1>5, Facts DEF HoldsReserve
  <2>4. CASE j \in VideoJobs
    <3>1. VideoHolders = {j} /\ Borrowers = {} /\ cpuVideo.permits = 0
      BY <1>1, <2>4 DEF ShareInv, VideoCount, VideoHolders, Holding
    <3>2. VideoHolders' = {}
      BY <1>1, <3>1, Facts DEF VideoHolders, Holding
    <3>3. Borrowers' = {}
      BY <1>1, <3>1, Facts DEF Borrowers, Holding
    <3>4. cpuVideo'.permits = VideoCores
      BY <2>2, <2>4, <3>1, Facts DEF CoresFor
    <3> QED BY <1>2, <1>3, <2>1, <2>2, <2>3, <3>2, <3>3, <3>4, Facts, FS_EmptySet
            DEF ShareInv, Lines, ReserveCount, VideoCount
  <2>5. CASE j \notin VideoJobs
    <3>1. j \in Borrowers /\ Borrowers' = Borrowers \ {j}
      BY <1>1, <1>5, <2>5, Facts DEF Borrowers, Holding
    <3>2. /\ VideoHolders = {} /\ IsFiniteSet(Borrowers)
          /\ cpuVideo.permits + Cardinality(Borrowers) = VideoCores
      BY <3>1 DEF ShareInv, VideoCount
    <3>3. VideoHolders' = {}
      BY <1>1, <3>2, Facts DEF VideoHolders, Holding
    <3>4. IsFiniteSet(Borrowers') /\ Cardinality(Borrowers') = Cardinality(Borrowers) - 1
      BY <3>1, <3>2, FS_RemoveElement
    <3>5. VideoCount'
      BY <2>2, <2>5, <3>2, <3>3, <3>4, Facts DEF VideoCount, CoresFor
    <3> QED BY <1>2, <1>3, <2>1, <2>2, <2>3, <3>5, Facts DEF ShareInv, Lines, ReserveCount
  <2> QED BY <2>4, <2>5
<1>6. CASE from[j] = "other"
  <2>1. cpuOther' = Sem!Give(cpuOther, 1) /\ cpuVideo' = cpuVideo
    BY <1>6 DEF ReleasePermit
  <2>2. /\ Lined(cpuOther', Queued("other"), 1)
        /\ cpuOther'.permits = cpuOther.permits + 1
    BY <2>1, Facts, Exchanges
  <2>3. HoldsReserve' = HoldsReserve \ {j} /\ j \in HoldsReserve
    BY <1>1, <1>6, Facts DEF HoldsReserve
  <2>4. j \notin VideoJobs
    BY <1>6 DEF ShareInv, Origin
  <2>5. Borrowers' = Borrowers /\ VideoHolders' = VideoHolders
    BY <1>1, <1>6, <2>4, Facts DEF Borrowers, VideoHolders
  <2>6. IsFiniteSet(HoldsReserve') /\ Cardinality(HoldsReserve') = Cardinality(HoldsReserve) - 1
    BY <2>3, FS_RemoveElement DEF ShareInv, ReserveCount
  <2>7. /\ cpuOther.permits + Cardinality(HoldsReserve) = NonVideoCores
        /\ cpuOther.permits \in Nat /\ Cardinality(HoldsReserve) \in Nat
    BY Facts DEF ShareInv, ReserveCount
  <2>8. cpuOther'.permits + Cardinality(HoldsReserve') = NonVideoCores
    BY <2>2, <2>6, <2>7
  <2>9. ReserveCount'
    BY <2>6, <2>8 DEF ReserveCount
  <2> QED BY <1>2, <1>3, <2>1, <2>2, <2>5, <2>9, Facts DEF ShareInv, Lines, VideoCount
<1>7. from[j] \in {"video", "other"}
  BY <1>1, Facts DEF ShareInv, Origin
<1> QED BY <1>5, <1>6, <1>7

(* Every step of the governor keeps the count.                             *)
LEMMA ShareNext == ShareInv /\ [Next]_vars => ShareInv'
<1> SUFFICES ASSUME ShareInv, [Next]_vars PROVE ShareInv'
  OBVIOUS
<1>1. LeaseInv'
  BY LeaseNext DEF ShareInv
<1> USE <1>1 DEF ShareInv
<1>2. ASSUME NEW j \in Jobs, AskVideo(j) PROVE ShareInv'
  BY <1>2, AskVideoKeeps, CoresApart DEF AskVideo, Stages
<1>3. ASSUME NEW j \in Jobs, TryOther(j) PROVE ShareInv'
  BY <1>3, TryOtherKeeps, CoresApart DEF TryOther, Permitted, Stages
<1>4. ASSUME NEW j \in Jobs, TryVideo(j) PROVE ShareInv'
  BY <1>4, TryVideoKeeps, CoresApart DEF TryVideo, Permitted, Stages
<1>5. ASSUME NEW j \in Jobs, Granted(j) PROVE ShareInv'
  BY <1>5, GrantedKeeps, CoresApart DEF Granted, Stages
<1>6. ASSUME NEW j \in Jobs, ReleasePermit(j) PROVE ShareInv'
  BY <1>6, ReleaseKeeps, CoresApart DEF ReleasePermit, Stages
<1>7. ASSUME NEW j \in Jobs, TakeCores(j) \/ ReturnCores(j) PROVE ShareInv'
  BY <1>7, TakeCoresKeeps, ReturnCoresKeeps
<1>8. CASE UNCHANGED vars
  BY <1>8 DEF vars, Lines, Lined, Queued, Origin, ReserveCount, HoldsReserve, VideoCount,
              Borrowers, VideoHolders, CoreCount, Singles, InVideo, FullGrant
<1> QED BY <1>2, <1>3, <1>4, <1>5, <1>6, <1>7, <1>8 DEF Next, Proceed

(* The inductive invariant of the core pool.                               *)
THEOREM Invariance == Spec => []ShareInv
  BY ShareInit, ShareNext, PTL DEF Spec

(* Neither semaphore ever offers more permits than its pool has cores, and *)
(* who waits at it is a job (governor.rs, lines 186-192).                  *)
THEOREM TypeCorrect == Spec => []TypeOK
<1>1. ShareInv => TypeOK
  <2> SUFFICES ASSUME ShareInv PROVE TypeOK
    OBVIOUS
  <2>1. cpuVideo.permits \in 0 .. VideoCores
    BY Facts DEF ShareInv, VideoCount
  <2>2. cpuOther.permits \in 0 .. NonVideoCores
    BY Facts DEF ShareInv, ReserveCount
  <2>3. ASSUME NEW sem, NEW jobs \in SUBSET Jobs, NEW n, Lined(sem, jobs, n)
        PROVE  Sem!Waiting(sem) \subseteq Jobs
    BY <2>3 DEF Lined, InLine, Sem!Waiting
  <2>4. Sem!Waiting(cpuVideo) \subseteq Jobs /\ Sem!Waiting(cpuOther) \subseteq Jobs
    <3>1. Queued("video") \in SUBSET Jobs /\ Queued("other") \in SUBSET Jobs
      BY DEF Queued
    <3> QED BY <2>3, <3>1, Facts
  <2> QED BY <2>1, <2>2, <2>4, Facts DEF ShareInv, LeaseInv, TypeOK
<1> QED BY <1>1, Invariance, PTL

(* "The permit guarantees availability, so the pool cannot be short", and  *)
(* who needs one core waits only while the whole reserve is with its like  *)
(* (governor.rs, lines 272 and 123-131): for any number of jobs and cores. *)
THEOREM Promised == Spec => []LeasesAsPromised
<1>1. ShareInv => ReserveIsForOthers
  <2> SUFFICES ASSUME ShareInv, NEW j \in Jobs \ VideoJobs, stage[j] = "queued",
                      ~ Sem!Granted(cpuOther, j)
               PROVE  Cardinality(HoldsReserve)
                        + Cardinality({k \in Jobs : Sem!Granted(cpuOther, k)}) = NonVideoCores
    BY DEF ReserveIsForOthers
  <2>1. j \in Queued("other") /\ Queued("other") \in SUBSET Jobs
    BY Facts DEF Queued, ShareInv, Origin
  <2>2. Cardinality({k \in Jobs : Sem!Granted(cpuOther, k)}) = cpuOther.permits
    BY <2>1, Facts, GrantedFill
  <2> QED BY <2>2, Facts DEF ShareInv, ReserveCount
<1>2. ShareInv => LeasesAsPromised
  BY <1>1 DEF ShareInv, LeasesAsPromised
<1> QED BY <1>2, Invariance, PTL
=============================================================================
