----------------------------- MODULE Semaphore -----------------------------
(***************************************************************************)
(* The counting semaphore of tokio the budgets are made of, as the code    *)
(* relies on it: requests are served in the order they were made, whatever *)
(* their size, so permits that come free are set aside for the first       *)
(* request that waits even while they are too few for it.                  *)
(*                                                                         *)
(* A semaphore is the permits that nobody holds and the requests not yet   *)
(* granted.                                                                *)
(***************************************************************************)
EXTENDS Sequences, Integers

Fresh(n) == [permits |-> n, queue |-> <<>>]

Request(who, n) == [who |-> who, n |-> n]

(* What the first i requests ask for together.                             *)
Asked(sem, i) ==
  LET asked[k \in 0 .. Len(sem.queue)] ==
        IF k = 0 THEN 0 ELSE asked[k - 1] + sem.queue[k].n
  IN  asked[i]

(* available_permits: what is left once every waiting request has had its  *)
(* share set aside.                                                        *)
Available(sem) ==
  LET left == sem.permits - Asked(sem, Len(sem.queue)) IN IF left > 0 THEN left ELSE 0

CanTry(sem, n) == Available(sem) >= n

Take(sem, n) == [sem EXCEPT !.permits = @ - n]

Give(sem, n) == [sem EXCEPT !.permits = @ + n]

(* acquire_many: join the queue, and leave it once the permits are there.  *)
Enqueue(sem, who, n) == [sem EXCEPT !.queue = Append(@, Request(who, n))]

Granted(sem, who) ==
  \E i \in DOMAIN sem.queue : sem.queue[i].who = who /\ Asked(sem, i) <= sem.permits

Position(sem, who) == CHOOSE i \in DOMAIN sem.queue : sem.queue[i].who = who

Grant(sem, who) ==
  LET i == Position(sem, who) IN
  [ permits |-> sem.permits - sem.queue[i].n,
    queue   |-> SubSeq(sem.queue, 1, i - 1) \o SubSeq(sem.queue, i + 1, Len(sem.queue)) ]

Waiting(sem) == {sem.queue[i].who : i \in DOMAIN sem.queue}
=============================================================================
