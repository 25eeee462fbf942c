---------------------------- MODULE QuotaProofs ----------------------------
(***************************************************************************)
(* For any files, sizes and deployments (module Quota): what emptying the  *)
(* trash mid-run leaves of an original, and that the budget accounts for   *)
(* every MiB that is free, leased, stored or destroyed.                    *)
(***************************************************************************)
EXTENDS Quota, FiniteSetTheorems, Folds, WellFoundedInduction, TLAPS

Reclaiming == {"checking", "queueing", "purging", "crediting"}

(* WayBack is not inductive: it does not say that what is in the trash was *)
(* copied, nor that a job had its copy taken before it got this far, nor   *)
(* that a run without a floor never reclaims.                              *)
KeepInv ==
  /\ setup \in Setups
  /\ stage \in [Files -> Stages]
  /\ setup.floor = NoFloor =>
       purged = {} /\ \A f \in Files : stage[f] \notin Reclaiming
  /\ setup.floor # NoFloor =>
       /\ \A f \in Files : stage[f] # "todo" => f \in kept
       /\ trash \cup purged \subseteq kept \cup setup.trash

LEMMA InitKeep == Init => KeepInv
  BY DEF Init, KeepInv, Stages, Reclaiming

(* A job moves to another stage, and only its own.                         *)
LEMMA NextKeep ==
  ASSUME KeepInv, [Next]_vars
  PROVE  KeepInv'
  <1> USE DEF KeepInv, Stages, Reclaiming, Move
  <1>1. ASSUME NEW f \in Files, Arrive(f)
        PROVE  KeepInv'
    <2>1. setup.floor # NoFloor => setup.keep
      BY QuotaAssumption
    <2> QED
      BY <1>1, <2>1 DEF Arrive
  <1>2. ASSUME NEW f \in Files, Check(f) \/ Lock(f)
        PROVE  KeepInv'
    BY <1>2 DEF Check, Lock
  <1>3. ASSUME NEW f \in Files, Purge(f) \/ PurgeFails(f)
        PROVE  KeepInv'
    <2>1. setup.floor # NoFloor
      BY <1>3 DEF Purge, PurgeFails
    <2>2. trash' \cup purged' \subseteq trash \cup purged
      BY <1>3 DEF Purge, PurgeFails, Empties
    <2> QED
      BY <1>3, <2>1, <2>2 DEF Purge, PurgeFails
  <1>4. ASSUME NEW f \in Files, Credit(f) \/ CreditFails(f)
        PROVE  KeepInv'
    BY <1>4 DEF Credit, CreditFails
  <1>5. ASSUME NEW f \in Files, Ask(f) \/ Lease(f) \/ Upload(f) \/ Record(f)
        PROVE  KeepInv'
    BY <1>5 DEF Ask, Lease, Upload, Record
  <1>6. ASSUME NEW f \in Files, Delete(f) \/ BreaksOff(f)
        PROVE  KeepInv'
    <2>1. stage[f] # "todo" /\ trash' \subseteq trash \cup {f}
      BY <1>6 DEF Delete, BreaksOff
    <2> QED
      BY <1>6, <2>1 DEF Delete, BreaksOff
  <1>7. CASE UNCHANGED vars
    BY <1>7 DEF vars
  <1> QED
    BY <1>1, <1>2, <1>3, <1>4, <1>5, <1>6, <1>7 DEF Next, Proceed

(* An original the tool destroys mid-run was copied to keep_originals,     *)
(* unless an earlier run put it into the trash (pipeline.rs, 232-234).     *)
THEOREM OneWayBack == Spec => []WayBack
  <1>1. KeepInv => WayBack
    BY DEF KeepInv, WayBack
  <1> QED
    BY <1>1, InitKeep, NextKeep, PTL DEF Spec

-----------------------------------------------------------------------------
(* Sums over finite sets.                                                  *)

(* Induction over the naturals, stated with a set.                         *)
LEMMA Induction ==
  ASSUME NEW T, 0 \in T, \A m \in Nat : m \in T => m + 1 \in T
  PROVE  Nat \subseteq T
  <1> SUFFICES ASSUME Nat \ T # {} PROVE FALSE
    OBVIOUS
  <1>1. \E x \in Nat \ T : \A y \in Nat \ T : ~ (<<y, x>> \in OpToRel(<, Nat))
    <2>1. Nat \ T \subseteq Nat /\ Nat \ T # {}
      OBVIOUS
    <2> QED
      BY <2>1, WFMin, NatLessThanWellFounded, Zenon
  <1>2. PICK x \in Nat \ T : \A y \in Nat \ T : ~ (y < x)
    BY <1>1, Zenon DEF OpToRel
  <1>3. x - 1 \in Nat /\ x = (x - 1) + 1
    OBVIOUS
  <1> QED
    BY <1>2, <1>3

(* Induction over the subsets of a finite set, one element at a time.      *)
LEMMA SetInduction ==
  ASSUME NEW D, IsFiniteSet(D), NEW P,
         \A T \in SUBSET D : (\A x \in T : T \ {x} \in P) => T \in P
  PROVE  \A T \in SUBSET D : T \in P
  <1> DEFINE good == {m \in Nat : \A T \in SUBSET D : Cardinality(T) = m => T \in P}
  <1>1. \A T \in SUBSET D : IsFiniteSet(T) /\ Cardinality(T) \in Nat
    BY FS_Subset, FS_CardinalityType
  <1>2. 0 \in good
    <2>1. ASSUME NEW T \in SUBSET D, Cardinality(T) = 0 PROVE T \in P
      <3>1. T = {}
        BY <1>1, <2>1, FS_EmptySet
      <3> QED
        BY <3>1
    <2> QED
      BY <2>1
  <1>3. ASSUME NEW m \in Nat, m \in good PROVE m + 1 \in good
    <2>1. ASSUME NEW T \in SUBSET D, Cardinality(T) = m + 1 PROVE T \in P
      <3>1. \A x \in T : Cardinality(T \ {x}) = m
        BY <1>1, <2>1, FS_RemoveElement
      <3> QED
        BY <1>3, <3>1
    <2> QED
      BY <2>1
  <1> HIDE DEF good
  <1>4. Nat \subseteq good
    BY <1>2, <1>3, Induction
  <1> QED
    BY <1>1, <1>4 DEF good

Pick(s) == CHOOSE x \in s : TRUE

(* A function that sums the subsets of a set by taking out the element     *)
(* CHOOSE names.                                                           *)
Sums(g, size, S) ==
  g = [s \in SUBSET S |-> IF s = {} THEN 0 ELSE size[Pick(s)] + g[s \ {Pick(s)}]]

LEMMA SumsExist ==
  ASSUME NEW S, IsFiniteSet(S), NEW size, \A x \in S : size[x] \in Nat
  PROVE  \E g \in [SUBSET S -> Nat] : Sums(g, size, S)
  <1> DEFINE small(n) == {s \in SUBSET S : Cardinality(s) <= n}
             value(g, s) == IF s = {} THEN 0 ELSE size[Pick(s)] + g[s \ {Pick(s)}]
             summed == {n \in Nat : \E g \in [small(n) -> Nat] :
                                      \A s \in small(n) : g[s] = value(g, s)}
  <1>1. \A T \in SUBSET S : IsFiniteSet(T) /\ Cardinality(T) \in Nat
    BY FS_Subset, FS_CardinalityType
  <1>2. \A s \in SUBSET S : s # {} => Pick(s) \in s /\ size[Pick(s)] \in Nat
    BY DEF Pick
  <1>3. \A s \in SUBSET S : s # {} => Cardinality(s \ {Pick(s)}) = Cardinality(s) - 1
    BY <1>1, <1>2, FS_RemoveElement
  <1>4. \A n \in Nat : \A s \in small(n + 1) : s # {} => s \ {Pick(s)} \in small(n)
    BY <1>1, <1>2, <1>3
  <1>5. 0 \in summed
    <2>1. \A s \in small(0) : s = {}
      BY <1>1, FS_EmptySet
    <2> DEFINE g == [s \in small(0) |-> 0]
    <2>2. g \in [small(0) -> Nat] /\ \A s \in small(0) : g[s] = value(g, s)
      BY <2>1
    <2> QED
      BY <2>2
  <1>6. ASSUME NEW n \in Nat, n \in summed PROVE n + 1 \in summed
    <2>1. PICK g \in [small(n) -> Nat] : \A s \in small(n) : g[s] = value(g, s)
      BY <1>6
    <2> DEFINE h == [s \in small(n + 1) |-> value(g, s)]
    <2> HIDE DEF small
    <2>2. h \in [small(n + 1) -> Nat]
      <3>1. \A s \in small(n + 1) : value(g, s) \in Nat
        BY <1>2, <1>4 DEF small
      <3> QED
        BY <3>1
    <2>3. small(n) \subseteq small(n + 1)
      BY <1>1 DEF small
    <2>4. \A s \in small(n) : h[s] = g[s]
      BY <2>1, <2>3
    <2>5. \A s \in small(n + 1) : h[s] = value(h, s)
      BY <1>4, <2>4
    <2> HIDE DEF value, h
    <2>6. \E f \in [small(n + 1) -> Nat] : \A s \in small(n + 1) : f[s] = value(f, s)
      BY <2>2, <2>5, Zenon
    <2> QED
      BY <2>6
  <1> DEFINE N == Cardinality(S)
  <1>7. N \in summed
    <2> HIDE DEF summed
    <2>1. Nat \subseteq summed
      BY <1>5, <1>6, Induction
    <2> QED
      BY <1>1, <2>1
  <1>8. small(N) = SUBSET S
    BY <1>1, FS_Subset
  <1>9. PICK g \in [SUBSET S -> Nat] : \A s \in SUBSET S : g[s] = value(g, s)
    BY <1>7, <1>8
  <1>10. g = [s \in SUBSET S |-> value(g, s)]
    BY <1>9
  <1> QED
    BY <1>9, <1>10 DEF Sums

(* What the sum of a set is made of, whatever order CHOOSE takes.          *)
LEMMA TotalFacts ==
  ASSUME NEW S, IsFiniteSet(S), NEW size, \A x \in S : size[x] \in Nat
  PROVE  /\ Total(size, {}) = 0
         /\ \A T \in SUBSET S : Total(size, T) \in Nat
         /\ \A T \in SUBSET S : \A x \in T : Total(size, T) = size[x] + Total(size, T \ {x})
  <1>1. PICK g \in [SUBSET S -> Nat] : Sums(g, size, S)
    BY SumsExist
  <1>2. \A s \in SUBSET S :
          g[s] = IF s = {} THEN 0 ELSE size[Pick(s)] + g[s \ {Pick(s)}]
    BY <1>1 DEF Sums
  <1>3. \A s \in SUBSET S : s # {} => Pick(s) \in s
    BY DEF Pick
  <1>4. \A T \in SUBSET S : Total(size, T) = g[T]
    <2> SUFFICES ASSUME NEW T \in SUBSET S PROVE Total(size, T) = g[T]
      OBVIOUS
    <2> DEFINE f == CHOOSE f : Sums(f, size, T)
    <2>1. IsFiniteSet(T)
      BY FS_Subset
    <2>2. Sums(f, size, T)
      BY <2>1, SumsExist
    <2>3. Total(size, T) = f[T]
      BY DEF Total, SumFunctionOnSet, FoldFunctionOnSet, MapThenFoldSet, Sums, Pick
    <2> HIDE DEF f
    <2>4. \A s \in SUBSET T :
            f[s] = IF s = {} THEN 0 ELSE size[Pick(s)] + f[s \ {Pick(s)}]
      BY <2>2 DEF Sums
    <2> DEFINE P == {U \in SUBSET T : f[U] = g[U]}
    <2>5. ASSUME NEW U \in SUBSET T, \A x \in U : U \ {x} \in P PROVE U \in P
      <3>1. U \in SUBSET S
        OBVIOUS
      <3>2. U # {} => f[U \ {Pick(U)}] = g[U \ {Pick(U)}]
        BY <1>3, <2>5, <3>1
      <3> QED
        BY <1>2, <2>4, <3>1, <3>2
    <2> HIDE DEF P
    <2>6. \A U \in SUBSET T : U \in P
      BY <2>1, <2>5, SetInduction
    <2> QED
      BY <2>3, <2>6 DEF P
  <1> DEFINE Parts == {T \in SUBSET S : \A x \in T : g[T] = size[x] + g[T \ {x}]}
  <1>5. ASSUME NEW T \in SUBSET S, \A x \in T : T \ {x} \in Parts PROVE T \in Parts
    <2> SUFFICES ASSUME NEW x \in T PROVE g[T] = size[x] + g[T \ {x}]
      OBVIOUS
    <2> DEFINE c == Pick(T)
    <2>1. c \in T /\ g[T] = size[c] + g[T \ {c}]
      BY <1>2, <1>3
    <2>2. CASE x = c
      BY <2>1, <2>2
    <2>3. CASE x # c
      <3> HIDE DEF c
      <3>1. g[T \ {c}] = size[x] + g[(T \ {c}) \ {x}]
        BY <1>5, <2>1, <2>3
      <3>2. g[T \ {x}] = size[c] + g[(T \ {x}) \ {c}]
        BY <1>5, <2>1, <2>3
      <3> DEFINE rest == g[(T \ {c}) \ {x}]
      <3>3. g[(T \ {x}) \ {c}] = rest
        <4>1. (T \ {c}) \ {x} = (T \ {x}) \ {c}
          OBVIOUS
        <4> QED
          BY <4>1, Zenon
      <3>4. rest \in Nat /\ size[c] \in Nat /\ size[x] \in Nat
        BY <2>1
      <3> HIDE DEF rest
      <3>5. g[T] = size[c] + (size[x] + rest) /\ g[T \ {x}] = size[c] + rest
        BY <2>1, <3>1, <3>2, <3>3 DEF rest
      <3> QED
        BY <3>4, <3>5
    <2> QED
      BY <2>2, <2>3
  <1> HIDE DEF Parts
  <1>6. \A T \in SUBSET S : T \in Parts
    BY <1>5, SetInduction
  <1>7. Total(size, {}) = 0
    BY <1>2, <1>4
  <1>8. \A T \in SUBSET S : \A x \in T : Total(size, T) = size[x] + Total(size, T \ {x})
    BY <1>4, <1>6 DEF Parts
  <1> QED
    BY <1>4, <1>7, <1>8

(* Sums of disjoint sets add up, and a part sums to no more than the whole. *)
LEMMA TotalParts ==
  ASSUME NEW S, IsFiniteSet(S), NEW size, \A x \in S : size[x] \in Nat
  PROVE  /\ \A T, U \in SUBSET S :
              T \cap U = {} => Total(size, T \cup U) = Total(size, T) + Total(size, U)
         /\ \A T \in SUBSET S : \A U \in SUBSET T : Total(size, U) <= Total(size, T)
  <1>1. ASSUME NEW T \in SUBSET S, NEW U \in SUBSET S, T \cap U = {}
        PROVE  Total(size, T \cup U) = Total(size, T) + Total(size, U)
    <2> DEFINE P == {V \in SUBSET U : Total(size, T \cup V) = Total(size, T) + Total(size, V)}
    <2>1. ASSUME NEW V \in SUBSET U, \A x \in V : V \ {x} \in P PROVE V \in P
      <3>1. CASE V = {}
        BY <3>1, TotalFacts
      <3>2. CASE V # {}
        <4>1. PICK x \in V : TRUE
          BY <3>2
        <4>2. Total(size, T \cup (V \ {x})) = Total(size, T) + Total(size, V \ {x})
          BY <2>1, <4>1
        <4>3. Total(size, V) = size[x] + Total(size, V \ {x})
          BY <4>1, TotalFacts
        <4>4. (T \cup V) \ {x} = T \cup (V \ {x})
          BY <1>1, <4>1
        <4>5. T \cup V \in SUBSET S /\ x \in T \cup V
          BY <4>1
        <4>6. Total(size, T \cup V) = size[x] + Total(size, T \cup (V \ {x}))
          BY <4>4, <4>5, TotalFacts
        <4>7. size[x] \in Nat /\ Total(size, T) \in Nat /\ Total(size, V \ {x}) \in Nat
          BY <4>1, TotalFacts
        <4> QED
          BY <4>2, <4>3, <4>6, <4>7
      <3> QED
        BY <3>1, <3>2
    <2>2. IsFiniteSet(U)
      BY FS_Subset
    <2> HIDE DEF P
    <2>3. \A V \in SUBSET U : V \in P
      BY <2>1, <2>2, SetInduction
    <2> QED
      BY <2>3 DEF P
  <1>2. ASSUME NEW T \in SUBSET S, NEW U \in SUBSET T
        PROVE  Total(size, U) <= Total(size, T)
    <2>1. U \cup (T \ U) = T /\ U \cap (T \ U) = {}
      OBVIOUS
    <2>2. Total(size, T) = Total(size, U) + Total(size, T \ U)
      BY <1>1, <2>1
    <2>3. Total(size, U) \in Nat /\ Total(size, T \ U) \in Nat
      BY TotalFacts
    <2> QED
      BY <2>2, <2>3
  <1> QED
    BY <1>1, <1>2

-----------------------------------------------------------------------------
(* The budget.  Each file that waits has one request in the queue, for its *)
(* own output; ...                                                         *)
Requests == [who : Files, n : Nat]

InLine(q, who) ==
  /\ q \in Seq(Requests)
  /\ \A i \in 1 .. Len(q) : q[i].who \in who /\ q[i].n = Output[q[i].who]
  /\ \A i, k \in 1 .. Len(q) : q[i].who = q[k].who => i = k
  /\ \A f \in who : \E i \in 1 .. Len(q) : q[i].who = f

Lined(sem, who) ==
  /\ sem = [permits |-> sem.permits, queue |-> sem.queue]
  /\ sem.permits \in Nat
  /\ InLine(sem.queue, who)

Waits == {f \in Files : stage[f] = "waiting"}

Held == {f \in Files : stage[f] \in {"leased", "uploaded", "deleted"}}

Ended == {f \in Files : stage[f] = "ended"}

Recorded == setup.owed \cup Ended

(* ... whoever purges has the mutex, and a run of one job at a time has    *)
(* one job in flight; ...                                                  *)
Mutex ==
  /\ \A f \in Files : stage[f] \in {"purging", "crediting"} => purger = f
  /\ Alone => \A f, g \in InFlight : f = g

(* ... a lease and what its replacement is owed for come out of what was   *)
(* there at first and the files that are through; ...                      *)
Bounded ==
  /\ owed \subseteq Recorded
  /\ cloud.permits + Total(Output, Held) + Total(Size, owed)
       <= setup.capacity + Total(Size, Recorded)

(* ... as long as no call fails, every MiB is free or taken by an output,  *)
(* or was credited for an original that a run has on record, ...           *)
Balanced ==
  ~setup.fails =>
    /\ stored = {f \in Files : stage[f] \in {"uploaded", "deleted", "ended"}}
    /\ Recorded \cup {f \in Files : stage[f] = "deleted"} \subseteq trash \cup purged \cup Stale
    /\ cloud.permits + Total(Output, Held \cup Ended)
         = setup.capacity + Total(Size, Recorded \ owed)
    /\ setup.floor = NoFloor => owed = Recorded

(* ... that is really gone if the run has one job at a time, unless its    *)
(* row was stale from the start; ...                                       *)
Credited ==
  ~setup.fails /\ Alone =>
    /\ Recorded \ owed \subseteq purged \cup Stale
    /\ \A f \in Files : stage[f] = "crediting" => owed \subseteq purged \cup Stale

(* ... and nothing returns to the budget between the look under the mutex  *)
(* and the purge.                                                          *)
OnlyLow == ~setup.fails => \A f \in Files : stage[f] = "purging" => Low

WellFormed ==
  /\ purger \in Files \cup {Nobody}
  /\ trash \cup purged \subseteq Files \cup setup.trash
  /\ stored \cup kept \subseteq Files
  /\ Lined(cloud, Waits)

BudgetInv == KeepInv /\ WellFormed /\ Mutex /\ Bounded /\ Balanced /\ Credited /\ OnlyLow

-----------------------------------------------------------------------------
(* The semaphore.                                                          *)

(* What the first requests of a queue ask for together is a number, and each *)
(* request adds its own share.                                             *)
LEMMA AskedSums ==
  ASSUME NEW sem, Len(sem.queue) \in Nat,
         \A k \in 1 .. Len(sem.queue) : sem.queue[k].n \in Nat
  PROVE  /\ Sem!Asked(sem, 0) = 0
         /\ \A i \in 0 .. Len(sem.queue) : Sem!Asked(sem, i) \in Nat
         /\ \A i \in 1 .. Len(sem.queue) :
              Sem!Asked(sem, i) = Sem!Asked(sem, i - 1) + sem.queue[i].n
<1> DEFINE q == sem.queue
           N == Len(q)
           Sum(g, m) == /\ g \in [0 .. m -> Nat]
                        /\ g[0] = 0
                        /\ \A k \in 1 .. m : g[k] = g[k - 1] + q[k].n
           summed == {m \in Nat : m <= N => \E g : Sum(g, m)}
           step(g) == [k \in 0 .. N |-> IF k = 0 THEN 0 ELSE g[k - 1] + q[k].n]
<1>1. N \in Nat /\ \A k \in 1 .. N : q[k].n \in Nat
  OBVIOUS
<1> HIDE DEF Sum, N, q
<1>2. Nat \subseteq summed
  <2>1. 0 \in summed
    <3>1. Sum([k \in 0 .. 0 |-> 0], 0)
      BY DEF Sum
    <3> QED BY <3>1, Zenon
  <2>2. ASSUME NEW m \in Nat, m \in summed PROVE m + 1 \in summed
    <3>1. ASSUME m + 1 <= N PROVE \E h : Sum(h, m + 1)
      <4>1. m <= N
        BY <1>1, <3>1
      <4>2. \E g : Sum(g, m)
        BY <2>2, <4>1, Zenon
      <4>3. PICK g : Sum(g, m)
        BY <4>2, Zenon
      <4> DEFINE h == [k \in 0 .. m + 1 |-> IF k = m + 1 THEN g[m] + q[m + 1].n ELSE g[k]]
      <4>4. q[m + 1].n \in Nat /\ g[m] \in Nat
        BY <1>1, <3>1, <4>3 DEF Sum
      <4>5. /\ h \in [0 .. m + 1 -> Nat]
            /\ h[0] = 0
            /\ \A k \in 1 .. m + 1 : h[k] = h[k - 1] + q[k].n
        BY <4>3, <4>4 DEF Sum
      <4> QED BY <4>5, Zenon DEF Sum
    <3>2. m + 1 \in Nat
      OBVIOUS
    <3> QED BY <3>1, <3>2, Zenon
  <2> HIDE DEF summed
  <2> QED BY <2>1, <2>2, Induction
<1>3. PICK g : Sum(g, N)
  <2>1. N <= N
    BY <1>1
  <2> QED BY <1>1, <1>2, <2>1
<1>4. g = step(g)
  <2>1. \A k \in 0 .. N : g[k] = step(g)[k]
    BY <1>1, <1>3 DEF Sum
  <2> QED BY <1>3, <2>1 DEF Sum
<1> DEFINE f == CHOOSE h : h = step(h)
<1>5. f = step(f)
  BY <1>4, Zenon
<1>6. \A i : Sem!Asked(sem, i) = f[i]
  BY DEF Sem!Asked, N, q
<1> HIDE DEF f
<1>7. f[0] = 0 /\ \A k \in 1 .. N : f[k] = f[k - 1] + q[k].n
  BY <1>1, <1>5
<1>8. \A i \in 0 .. N : f[i] \in Nat
  <2> DEFINE natural == {i \in Nat : i <= N => f[i] \in Nat}
  <2>1. 0 \in natural
    BY <1>7
  <2>2. \A m \in Nat : m \in natural => m + 1 \in natural
    BY <1>1, <1>7
  <2> HIDE DEF natural
  <2>3. Nat \subseteq natural
    BY <2>1, <2>2, Induction
  <2> QED BY <1>1, <2>3 DEF natural
<1> QED BY <1>6, <1>7, <1>8 DEF N, q

(* What a queue asks for grows by each request, ...                        *)
LEMMA LinedAsks ==
  ASSUME NEW who, NEW sem, Lined(sem, who)
  PROVE  /\ Len(sem.queue) \in Nat
         /\ \A i \in 1 .. Len(sem.queue) : sem.queue[i].n \in Nat
         /\ Sem!Asked(sem, 0) = 0
         /\ \A i \in 0 .. Len(sem.queue) : Sem!Asked(sem, i) \in Nat
         /\ \A i \in 1 .. Len(sem.queue) :
              Sem!Asked(sem, i) = Sem!Asked(sem, i - 1) + sem.queue[i].n
  <1>1. Len(sem.queue) \in Nat
    BY DEF Lined, InLine
  <1>2. \A i \in 1 .. Len(sem.queue) : sem.queue[i].n \in Nat
    <2>1. sem.queue \in Seq(Requests)
      BY DEF Lined, InLine
    <2>2. \A i \in 1 .. Len(sem.queue) : sem.queue[i] \in Requests
      BY <2>1
    <2> QED
      BY <2>2 DEF Requests
  <1> QED
    BY <1>1, <1>2, AskedSums

Spare(sem) == sem.permits - Sem!Asked(sem, Len(sem.queue))

(* ... so that who joins leaves the less to spare, ...                     *)
LEMMA Joins ==
  ASSUME NEW who, NEW sem, Lined(sem, who), NEW f \in Files \ who
  PROVE  LET new == Sem!Enqueue(sem, f, Output[f]) IN
         /\ Lined(new, who \cup {f})
         /\ new.permits = sem.permits
         /\ Spare(new) = Spare(sem) - Output[f]
  <1> DEFINE q == sem.queue
             N == Len(q)
             last == [who |-> f, n |-> Output[f]]
             r == Append(q, last)
             new == Sem!Enqueue(sem, f, Output[f])
  <1>1. new = [permits |-> sem.permits, queue |-> r]
    BY DEF Sem!Enqueue, Sem!Request, Lined
  <1>2. InLine(q, who)
    BY DEF Lined
  <1>3. last \in Requests /\ last.who = f /\ last.n = Output[f] /\ Output[f] \in Nat
    BY QuotaAssumption DEF Requests
  <1> HIDE DEF q, last, new
  <1>4. q \in Seq(Requests) /\ N \in Nat
    BY <1>2 DEF InLine
  <1>5. /\ r \in Seq(Requests) /\ Len(r) = N + 1
        /\ \A i \in 1 .. N : r[i] = q[i]
        /\ r[N + 1] = last
    BY <1>3, <1>4
  <1>6. \A i \in 1 .. N : q[i].who \in who /\ q[i].n = Output[q[i].who]
    BY <1>2 DEF InLine
  <1>7. \A i, k \in 1 .. N : q[i].who = q[k].who => i = k
    BY <1>2 DEF InLine
  <1>8. \A g \in who : \E i \in 1 .. N : q[i].who = g
    BY <1>2 DEF InLine
  <1> HIDE DEF N, r
  <1>9. \A i \in 1 .. N + 1 : i = N + 1 \/ i \in 1 .. N
    BY <1>4
  <1>10. N + 1 \in 1 .. N + 1 /\ \A i \in 1 .. N : i \in 1 .. N + 1
    BY <1>4
  <1>11. \A i \in 1 .. N + 1 : r[i].who \in who \cup {f} /\ r[i].n = Output[r[i].who]
    BY <1>3, <1>5, <1>6, <1>9
  <1>12. \A i, k \in 1 .. N + 1 : r[i].who = r[k].who => i = k
    BY <1>3, <1>5, <1>6, <1>7, <1>9
  <1>13. \A g \in who \cup {f} : \E i \in 1 .. N + 1 : r[i].who = g
    BY <1>3, <1>5, <1>8, <1>10
  <1>14. InLine(r, who \cup {f})
    BY <1>5, <1>11, <1>12, <1>13 DEF InLine
  <1>15. Lined(new, who \cup {f}) /\ new.permits = sem.permits /\ new.queue = r
    BY <1>1, <1>14 DEF Lined
  <1>16. \A i \in Nat : i <= N => Sem!Asked(new, i) = Sem!Asked(sem, i)
    <2> DEFINE T == {i \in Nat : i <= N => Sem!Asked(new, i) = Sem!Asked(sem, i)}
    <2>1. 0 \in T
      BY <1>15, LinedAsks
    <2>2. ASSUME NEW m \in Nat, m \in T PROVE m + 1 \in T
      <3>1. ASSUME m + 1 <= N PROVE Sem!Asked(new, m + 1) = Sem!Asked(sem, m + 1)
        <4>1. m + 1 \in 1 .. N /\ m + 1 \in 1 .. N + 1 /\ (m + 1) - 1 = m
          BY <1>4, <3>1
        <4>2. Sem!Asked(sem, m + 1) = Sem!Asked(sem, m) + q[m + 1].n
          BY <4>1, LinedAsks DEF q, N
        <4>3. Sem!Asked(new, m + 1) = Sem!Asked(new, m) + r[m + 1].n
          BY <1>5, <1>15, <4>1, LinedAsks
        <4>4. Sem!Asked(new, m) = Sem!Asked(sem, m)
          BY <1>4, <2>2, <3>1
        <4> QED
          BY <1>5, <4>1, <4>2, <4>3, <4>4
      <3> QED
        BY <3>1
    <2> HIDE DEF T
    <2>3. Nat \subseteq T
      BY <2>1, <2>2, Induction
    <2> QED
      BY <2>3 DEF T
  <1>17. Sem!Asked(new, N + 1) = Sem!Asked(sem, N) + Output[f]
    <2>1. N + 1 \in 1 .. Len(new.queue) /\ (N + 1) - 1 = N /\ N <= N
      BY <1>4, <1>5, <1>15
    <2>2. Sem!Asked(new, N + 1) = Sem!Asked(new, N) + r[N + 1].n
      BY <1>15, <2>1, LinedAsks
    <2> QED
      BY <1>3, <1>4, <1>5, <1>16, <2>1, <2>2
  <1>18. Spare(new) = Spare(sem) - Output[f]
    <2>1. Len(sem.queue) = N /\ N \in 0 .. N /\ sem.permits \in Nat
      BY <1>4 DEF Lined, N, q
    <2>2. Sem!Asked(sem, N) \in Nat
      BY <2>1, LinedAsks
    <2>3. Spare(sem) = sem.permits - Sem!Asked(sem, N)
      BY <2>1 DEF Spare
    <2>4. Spare(new) = sem.permits - Sem!Asked(new, N + 1)
      BY <1>5, <1>15 DEF Spare
    <2> QED
      BY <1>3, <1>17, <2>1, <2>2, <2>3, <2>4
  <1> QED
    BY <1>15, <1>18 DEF new

(* A sequence without its i-th element.                                    *)
LEMMA Without ==
  ASSUME NEW S, NEW q \in Seq(S), NEW i \in 1 .. Len(q)
  PROVE  LET r == SubSeq(q, 1, i - 1) \o SubSeq(q, i + 1, Len(q)) IN
         /\ r \in Seq(S) /\ Len(r) = Len(q) - 1
         /\ \A k \in 1 .. Len(q) - 1 : r[k] = q[IF k < i THEN k ELSE k + 1]
<1> DEFINE a == SubSeq(q, 1, i - 1)
           b == SubSeq(q, i + 1, Len(q))
<1>1. Len(q) \in Nat
  OBVIOUS
<1>2. /\ a \in Seq(S) /\ Len(a) = i - 1
      /\ \A k \in 1 .. i - 1 : a[k] = q[k]
  BY <1>1
<1>3. /\ b \in Seq(S) /\ Len(b) = Len(q) - i
      /\ \A k \in 1 .. Len(q) - i : b[k] = q[k + i]
  BY <1>1
<1> HIDE DEF a, b
<1>4. a \o b \in Seq(S) /\ Len(a \o b) = Len(q) - 1
  <2>1. a \in Seq(S) /\ b \in Seq(S)
    BY <1>2, <1>3
  <2>2. a \o b \in Seq(S)
    BY <2>1
  <2>3. Len(a \o b) = Len(a) + Len(b)
    BY <2>1
  <2> QED BY <1>1, <1>2, <1>3, <2>2, <2>3
<1>5. \A k \in 1 .. Len(q) - 1 : (a \o b)[k] = q[IF k < i THEN k ELSE k + 1]
  <2> SUFFICES ASSUME NEW k \in 1 .. Len(q) - 1
               PROVE  (a \o b)[k] = q[IF k < i THEN k ELSE k + 1]
    OBVIOUS
  <2>1. CASE k < i
    <3>1. k \in 1 .. Len(a)
      BY <1>1, <1>2, <2>1
    <3>2. (a \o b)[k] = a[k]
      BY <1>2, <1>3, <3>1
    <3> QED BY <1>2, <2>1, <3>1, <3>2
  <2>2. CASE ~ (k < i)
    <3>1. k - (i - 1) \in 1 .. Len(q) - i /\ (k - (i - 1)) + i = k + 1
      BY <1>1, <2>2
    <3>2. (a \o b)[k] = b[k - Len(a)]
      BY <1>1, <1>2, <1>3, <2>2
    <3> QED BY <1>2, <1>3, <2>2, <3>1, <3>2
  <2> QED BY <2>1, <2>2
<1> QED BY <1>4, <1>5 DEF a, b

(* ... and who leaves had its permits set aside and leaves as much to      *)
(* spare.                                                                  *)
LEMMA Leaves ==
  ASSUME NEW who \in SUBSET Files, NEW sem, Lined(sem, who), NEW f, Sem!Granted(sem, f)
  PROVE  LET new == Sem!Grant(sem, f) IN
         /\ f \in who /\ Output[f] <= sem.permits
         /\ Lined(new, who \ {f})
         /\ new.permits = sem.permits - Output[f]
         /\ Spare(new) = Spare(sem)
  <1> DEFINE q == sem.queue
             N == Len(q)
             r == SubSeq(q, 1, Sem!Position(sem, f) - 1)
                  \o SubSeq(q, Sem!Position(sem, f) + 1, N)
             new == Sem!Grant(sem, f)
  <1>1. q \in Seq(Requests) /\ N \in Nat /\ DOMAIN q = 1 .. N /\ sem.permits \in Nat
    BY DEF Lined, InLine
  <1>2. \A i \in 1 .. N : q[i].who \in who /\ q[i].n = Output[q[i].who]
    BY DEF Lined, InLine
  <1>3. \A i, k \in 1 .. N : q[i].who = q[k].who => i = k
    BY DEF Lined, InLine
  <1>4. \A g \in who : \E i \in 1 .. N : q[i].who = g
    BY DEF Lined, InLine
  <1>5. PICK i \in 1 .. N : q[i].who = f /\ Sem!Asked(sem, i) <= sem.permits
    BY <1>1 DEF Sem!Granted
  <1>6. Sem!Position(sem, f) = i
    BY <1>1, <1>3, <1>5 DEF Sem!Position
  <1>7. f \in who /\ q[i].n = Output[f] /\ Output[f] \in Nat
    BY <1>2, <1>5, QuotaAssumption
  <1>8. Output[f] <= sem.permits
    <2>1. Sem!Asked(sem, i - 1) \in Nat /\ Sem!Asked(sem, i) = Sem!Asked(sem, i - 1) + q[i].n
      <3>1. i - 1 \in 0 .. N
        BY <1>1
      <3> QED
        BY <3>1, LinedAsks
    <2> QED
      BY <1>1, <1>5, <1>7, <2>1
  <1>9. new = [permits |-> sem.permits - Output[f], queue |-> r]
    BY <1>6, <1>7 DEF Sem!Grant
  <1> DEFINE at(k) == IF k < i THEN k ELSE k + 1
  <1>10. /\ r \in Seq(Requests) /\ Len(r) = N - 1
         /\ \A k \in 1 .. N - 1 : r[k] = q[at(k)]
    BY <1>1, <1>6, Without
  <1> HIDE DEF q, N, r, new
  <1>11. \A k \in 1 .. N - 1 : at(k) \in 1 .. N /\ at(k) # i
    BY <1>1, <1>5
  <1>12. \A k, m \in 1 .. N - 1 : at(k) = at(m) => k = m
    BY <1>1, <1>5
  <1>13. \A m \in 1 .. N : m # i => \E k \in 1 .. N - 1 : at(k) = m
    <2> SUFFICES ASSUME NEW m \in 1 .. N, m # i PROVE \E k \in 1 .. N - 1 : at(k) = m
      OBVIOUS
    <2>1. CASE m < i
      <3>1. m \in 1 .. N - 1 /\ at(m) = m
        BY <1>1, <1>5, <2>1
      <3> QED
        BY <3>1
    <2>2. CASE m > i
      <3>1. m - 1 \in 1 .. N - 1 /\ at(m - 1) = m
        BY <1>1, <1>5, <2>2
      <3> QED
        BY <3>1
    <2> QED
      BY <1>1, <1>5, <2>1, <2>2
  <1>14. InLine(r, who \ {f})
    <2> HIDE DEF at
    <2>1. \A k \in 1 .. N - 1 : r[k].who \in who \ {f} /\ r[k].n = Output[r[k].who]
      BY <1>2, <1>3, <1>5, <1>10, <1>11
    <2>2. \A k, m \in 1 .. N - 1 : r[k].who = r[m].who => k = m
      BY <1>3, <1>10, <1>11, <1>12
    <2>3. \A g \in who \ {f} : \E k \in 1 .. N - 1 : r[k].who = g
      <3> SUFFICES ASSUME NEW g \in who \ {f} PROVE \E k \in 1 .. N - 1 : r[k].who = g
        OBVIOUS
      <3>1. PICK m \in 1 .. N : q[m].who = g
        BY <1>4
      <3>2. PICK k \in 1 .. N - 1 : at(k) = m
        BY <1>5, <1>13, <3>1
      <3> QED
        BY <1>10, <3>1, <3>2
    <2> QED
      BY <1>10, <2>1, <2>2, <2>3 DEF InLine
  <1>15. sem.permits - Output[f] \in Nat
    BY <1>1, <1>7, <1>8
  <1>16. Lined(new, who \ {f}) /\ new.permits = sem.permits - Output[f] /\ new.queue = r
    BY <1>9, <1>14, <1>15 DEF Lined
  <1> DEFINE old(k) == IF k < i THEN Sem!Asked(sem, k) ELSE Sem!Asked(sem, k + 1) - Output[f]
  <1>17. /\ \A k \in 0 .. N : Sem!Asked(sem, k) \in Nat
         /\ \A k \in 1 .. N : Sem!Asked(sem, k) = Sem!Asked(sem, k - 1) + q[k].n
         /\ \A k \in 1 .. N : q[k].n \in Nat
         /\ Sem!Asked(sem, 0) = 0
    BY LinedAsks DEF q, N
  <1>18. /\ Sem!Asked(new, 0) = 0
         /\ \A k \in 1 .. N - 1 : Sem!Asked(new, k) = Sem!Asked(new, k - 1) + r[k].n
    BY <1>10, <1>16, LinedAsks
  <1>19. \A k \in Nat : k <= N - 1 => Sem!Asked(new, k) = old(k)
    <2> DEFINE T == {k \in Nat : k <= N - 1 => Sem!Asked(new, k) = old(k)}
    <2>1. 0 \in T
      BY <1>17, <1>18
    <2>2. ASSUME NEW m \in Nat, m \in T PROVE m + 1 \in T
      <3>1. ASSUME m + 1 <= N - 1 PROVE Sem!Asked(new, m + 1) = old(m + 1)
        <4>1. /\ m + 1 \in 1 .. N - 1 /\ (m + 1) - 1 = m /\ m <= N - 1
              /\ m + 1 \in 1 .. N /\ m + 2 \in 1 .. N /\ (m + 2) - 1 = m + 1 /\ (m + 1) + 1 = m + 2
              /\ m \in 0 .. N /\ m + 1 \in 0 .. N /\ m + 2 \in 0 .. N
          BY <1>1, <3>1
        <4>2. Sem!Asked(new, m + 1) = old(m) + q[at(m + 1)].n
          BY <1>10, <1>18, <2>2, <4>1
        <4>3. /\ Sem!Asked(sem, m + 1) = Sem!Asked(sem, m) + q[m + 1].n
              /\ Sem!Asked(sem, m + 2) = Sem!Asked(sem, m + 1) + q[m + 2].n
              /\ Sem!Asked(sem, m) \in Nat /\ q[m + 1].n \in Nat /\ q[m + 2].n \in Nat
              /\ Sem!Asked(sem, m + 1) \in Nat
          <5>1. Sem!Asked(sem, m + 1) = Sem!Asked(sem, (m + 1) - 1) + q[m + 1].n
            BY <1>17, <4>1
          <5>2. Sem!Asked(sem, m + 2) = Sem!Asked(sem, (m + 2) - 1) + q[m + 2].n
            BY <1>17, <4>1
          <5> QED
            BY <1>17, <4>1, <5>1, <5>2
        <4>4. CASE m + 1 < i
          BY <4>1, <4>2, <4>3, <4>4
        <4>5. CASE m + 1 = i
          <5>1. at(m + 1) = m + 2 /\ old(m) = Sem!Asked(sem, m)
            BY <4>1, <4>5
          <5>2. old(m + 1) = Sem!Asked(sem, m + 2) - Output[f]
            BY <4>1, <4>5
          <5>3. q[m + 1].n = Output[f]
            BY <1>7, <4>5
          <5> HIDE DEF at, old
          <5> QED
            BY <1>7, <4>2, <4>3, <5>1, <5>2, <5>3
        <4>6. CASE m + 1 > i
          BY <1>7, <4>1, <4>2, <4>3, <4>6
        <4> QED
          BY <1>5, <4>4, <4>5, <4>6
      <3> QED
        BY <3>1
    <2> HIDE DEF T
    <2>3. Nat \subseteq T
      BY <2>1, <2>2, Induction
    <2> QED
      BY <2>3 DEF T
  <1>20. Sem!Asked(new, N - 1) = Sem!Asked(sem, N) - Output[f]
    <2>1. N - 1 \in Nat /\ N - 1 <= N - 1 /\ (N - 1) + 1 = N /\ N \in 1 .. N
      BY <1>1, <1>5
    <2>2. Sem!Asked(new, N - 1) = old(N - 1)
      BY <1>19, <2>1
    <2>3. CASE N - 1 < i
      <3>1. N = i
        BY <1>1, <1>5, <2>3
      <3>2. Sem!Asked(sem, N) = Sem!Asked(sem, N - 1) + Output[f]
        BY <1>7, <1>17, <2>1, <3>1
      <3>3. Sem!Asked(sem, N - 1) \in Nat
        BY <1>1, <1>17, <2>1
      <3> QED
        BY <1>7, <2>2, <2>3, <3>2, <3>3
    <2>4. CASE ~ (N - 1 < i)
      BY <2>1, <2>2, <2>4
    <2> QED
      BY <2>3, <2>4
  <1>21. Spare(new) = Spare(sem)
    <2>1. Sem!Asked(sem, N) \in Nat
      BY <1>1, <1>17
    <2>2. Spare(sem) = sem.permits - Sem!Asked(sem, N)
      BY DEF Spare, N, q
    <2>3. Spare(new) = (sem.permits - Output[f]) - Sem!Asked(new, N - 1)
      BY <1>10, <1>16 DEF Spare
    <2> QED
      BY <1>1, <1>7, <1>20, <2>1, <2>2, <2>3
  <1> QED
    BY <1>7, <1>8, <1>16, <1>21 DEF new

-----------------------------------------------------------------------------
(* What the constants and the sets of a state are.                         *)
LEMMA Finite ==
  /\ IsFiniteSet(DOMAIN Size) /\ \A f \in DOMAIN Size : Size[f] \in Nat
  /\ IsFiniteSet(Files) /\ Files \subseteq DOMAIN Size
  /\ \A f \in Files : Output[f] \in Nat /\ Output[f] <= Size[f]
  <1>1. IsFiniteSet(Files)
    BY QuotaAssumption, FS_Subset
  <1>2. ASSUME NEW f \in Files PROVE Output[f] \in Nat /\ Output[f] <= Size[f]
    BY QuotaAssumption
  <1> QED
    BY <1>1, <1>2, QuotaAssumption

LEMMA SetupFacts ==
  ASSUME setup \in Setups
  PROVE  /\ setup.capacity \in Nat /\ setup.inFlight \in Nat \ {0}
         /\ setup.floor # NoFloor => setup.floor \in Nat
         /\ setup.trash \cup setup.owed \subseteq DOMAIN Size
         /\ setup.owed \cap Files = {}
         /\ Recorded \subseteq DOMAIN Size
  BY QuotaAssumption DEF Recorded, Ended

(* The sum of a set with one more element.                                 *)
LEMMA TotalAdds ==
  ASSUME NEW S, IsFiniteSet(S), NEW size, \A x \in S : size[x] \in Nat,
         NEW T \in SUBSET S, NEW x \in S \ T
  PROVE  Total(size, T \cup {x}) = Total(size, T) + size[x]
  <1>1. T \cup {x} \in SUBSET S /\ x \in T \cup {x} /\ (T \cup {x}) \ {x} = T
    OBVIOUS
  <1>2. Total(size, T \cup {x}) = size[x] + Total(size, T)
    BY <1>1, TotalFacts
  <1>3. size[x] \in Nat /\ Total(size, T) \in Nat
    BY TotalFacts
  <1> QED
    BY <1>2, <1>3

LEMMA TotalsAreNat ==
  /\ Total(Output, {}) = 0 /\ Total(Size, {}) = 0
  /\ \A T \in SUBSET Files : Total(Output, T) \in Nat
  /\ \A T \in SUBSET DOMAIN Size : Total(Size, T) \in Nat
  BY Finite, TotalFacts

(* The initial state.                                                      *)
LEMMA BudgetInit == Init => BudgetInv
  <1> SUFFICES ASSUME Init PROVE BudgetInv
    OBVIOUS
  <1>1. KeepInv
    BY InitKeep
  <1>2. setup \in Setups /\ setup.capacity \in Nat
    BY SetupFacts DEF Init
  <1>3. /\ Waits = {} /\ Held = {} /\ Ended = {} /\ InFlight = {}
        /\ Recorded = setup.owed
        /\ \A f \in Files : stage[f] = "todo"
    BY DEF Init, Waits, Held, Ended, InFlight, Recorded
  <1>4. Lined(cloud, Waits)
    BY <1>2, <1>3 DEF Init, Sem!Fresh, Lined, InLine
  <1>5. WellFormed
    BY <1>4 DEF Init, WellFormed
  <1>6. Mutex
    BY <1>3 DEF Mutex
  <1>7. cloud.permits = setup.capacity /\ owed = Recorded
    BY <1>3 DEF Init, Sem!Fresh
  <1>8. Total(Size, Recorded) \in Nat
    BY <1>2, SetupFacts, TotalsAreNat
  <1>9. Bounded
    BY <1>2, <1>3, <1>7, <1>8, TotalsAreNat DEF Bounded
  <1>10. Balanced
    <2>1. Recorded \ owed = {} /\ Held \cup Ended = {}
      BY <1>3, <1>7
    <2>2. stored = {f \in Files : stage[f] \in {"uploaded", "deleted", "ended"}}
      BY <1>3 DEF Init
    <2>3. Recorded \cup {f \in Files : stage[f] = "deleted"} \subseteq trash \cup purged \cup Stale
      BY <1>3 DEF Init, Stale
    <2> QED
      BY <1>2, <1>7, <2>1, <2>2, <2>3, TotalsAreNat DEF Balanced
  <1>11. Credited /\ OnlyLow
    BY <1>3, <1>7 DEF Credited, OnlyLow
  <1> QED
    BY <1>1, <1>5, <1>6, <1>9, <1>10, <1>11 DEF BudgetInv

-----------------------------------------------------------------------------
(* The steps.  Before a job asks for its lease, ...                        *)
Early == {"todo", "checking", "queueing", "purging", "crediting", "asking"}

(* ... it moves nothing that is counted.                                   *)
LEMMA EarlyKeeps ==
  ASSUME BudgetInv, NEW f \in Files, NEW a \in Early, NEW b \in Early, Move(f, a, b),
         UNCHANGED <<cloud, stored, owed>>, trash' \cup purged' = trash \cup purged
  PROVE  Lined(cloud', Waits') /\ Bounded' /\ Balanced' /\ Recorded' = Recorded
  <1>1. /\ stage \in [Files -> Stages] /\ stage[f] = a /\ setup' = setup
        /\ stage' = [stage EXCEPT ![f] = b]
    BY DEF BudgetInv, KeepInv, Move
  <1>2. \A g \in Files : stage'[g] = stage[g] \/ {stage[g], stage'[g]} \subseteq Early
    BY <1>1
  <1>3. /\ Waits' = Waits /\ Held' = Held /\ Ended' = Ended /\ Recorded' = Recorded
        /\ {g \in Files : stage'[g] \in {"uploaded", "deleted", "ended"}}
             = {g \in Files : stage[g] \in {"uploaded", "deleted", "ended"}}
        /\ {g \in Files : stage'[g] = "deleted"} = {g \in Files : stage[g] = "deleted"}
    BY <1>1, <1>2 DEF Waits, Held, Ended, Recorded, Early
  <1>4. Lined(cloud', Waits')
    BY <1>3 DEF BudgetInv, WellFormed
  <1>5. Bounded'
    BY <1>1, <1>3 DEF BudgetInv, Bounded
  <1>6. Balanced'
    BY <1>1, <1>3 DEF BudgetInv, Balanced, Stale
  <1> QED
    BY <1>3, <1>4, <1>5, <1>6

(* A job that is under way stays the only one, if it was; and the mutex    *)
(* stays with who purges as long as only its holder lets go of it.         *)
LEMMA MutexKeeps ==
  ASSUME BudgetInv, NEW f \in Files, NEW a \in Stages \ {"todo", "ended"}, NEW b \in Stages,
         Move(f, a, b), purger' = purger \/ purger \in {Nobody, f},
         b \in {"purging", "crediting"} => purger' = f
  PROVE  Mutex'
  <1>1. /\ stage \in [Files -> Stages] /\ stage[f] = a /\ setup' = setup
        /\ stage' = [stage EXCEPT ![f] = b]
    BY DEF BudgetInv, KeepInv, Move
  <1>2. InFlight' \subseteq InFlight
    BY <1>1 DEF InFlight
  <1>3. Nobody \notin Files
    BY QuotaAssumption
  <1>4. \A g \in Files \ {f} : stage'[g] = stage[g]
    BY <1>1
  <1>5. \A g \in Files : stage[g] \in {"purging", "crediting"} => purger = g
    BY DEF BudgetInv, Mutex
  <1>6. ASSUME NEW g \in Files, stage'[g] \in {"purging", "crediting"} PROVE purger' = g
    <2>1. CASE g = f
      BY <1>1, <1>6, <2>1
    <2>2. CASE g # f
      <3>1. purger = g
        BY <1>4, <1>5, <1>6, <2>2
      <3> QED
        BY <1>3, <2>2, <3>1
    <2> QED
      BY <2>1, <2>2
  <1>7. Alone' => \A g, h \in InFlight' : g = h
    BY <1>1, <1>2 DEF BudgetInv, Mutex, Alone
  <1> QED
    BY <1>6, <1>7 DEF Mutex

(* What leaves the budget no larger leaves it low.                         *)
LEMMA LowKeeps ==
  ASSUME NEW sem, NEW new, NEW who, NEW now, Lined(sem, who), Lined(new, now),
         Spare(new) <= Spare(sem), NEW n \in Nat, Sem!Available(sem) < n
  PROVE  Sem!Available(new) < n
  <1>1. Spare(sem) \in Int /\ Spare(new) \in Int
    <2>1. sem.permits \in Nat /\ new.permits \in Nat
      BY DEF Lined
    <2>2. Sem!Asked(sem, Len(sem.queue)) \in Nat
      BY LinedAsks
    <2>3. Sem!Asked(new, Len(new.queue)) \in Nat
      BY LinedAsks
    <2> QED
      BY <2>1, <2>2, <2>3 DEF Spare
  <1>2. Sem!Available(sem) = IF Spare(sem) > 0 THEN Spare(sem) ELSE 0
    BY DEF Sem!Available, Spare
  <1>3. Sem!Available(new) = IF Spare(new) > 0 THEN Spare(new) ELSE 0
    BY DEF Sem!Available, Spare
  <1> QED
    BY <1>1, <1>2, <1>3

(* A purge under way stays justified.                                      *)
LEMMA OnlyLowKeeps ==
  ASSUME BudgetInv, NEW f \in Files, NEW a \in Stages, NEW b \in Stages \ {"purging"},
         Move(f, a, b), Lined(cloud', Waits'), Spare(cloud') <= Spare(cloud)
  PROVE  OnlyLow'
  <1>1. /\ stage \in [Files -> Stages] /\ setup \in Setups /\ setup' = setup
        /\ stage' = [stage EXCEPT ![f] = b]
    BY DEF BudgetInv, KeepInv, Move
  <1>2. SUFFICES ASSUME ~setup.fails, NEW g \in Files, stage'[g] = "purging"
                 PROVE  Sem!Available(cloud') < setup.floor
    BY <1>1 DEF OnlyLow, Low
  <1>3. stage[g] = "purging"
    BY <1>1, <1>2
  <1>4. Sem!Available(cloud) < setup.floor
    BY <1>2, <1>3 DEF BudgetInv, OnlyLow, Low
  <1>5. setup.floor \in Nat
    <2>1. setup.floor # NoFloor
      BY <1>3 DEF BudgetInv, KeepInv, Reclaiming
    <2> QED
      BY <1>1, <2>1, SetupFacts
  <1>6. Lined(cloud, Waits)
    BY DEF BudgetInv, WellFormed
  <1> QED
    BY <1>4, <1>5, <1>6, LowKeeps

(* What is credited stays destroyed.                                       *)
LEMMA CreditedKeeps ==
  ASSUME BudgetInv, NEW f \in Files, NEW a \in Stages, NEW b \in Stages \ {"crediting"},
         Move(f, a, b), purged \subseteq purged', owed' \subseteq owed,
         Recorded' \ owed' \subseteq Recorded \ owed
  PROVE  Credited'
  <1>1. /\ stage \in [Files -> Stages] /\ setup' = setup
        /\ stage' = [stage EXCEPT ![f] = b]
    BY DEF BudgetInv, KeepInv, Move
  <1>2. \A g \in Files : stage'[g] = "crediting" => stage[g] = "crediting"
    BY <1>1
  <1>3. ~setup'.fails /\ Alone' =>
          /\ Recorded \ owed \subseteq purged \cup Stale
          /\ \A g \in Files : stage[g] = "crediting" => owed \subseteq purged \cup Stale
    BY <1>1 DEF BudgetInv, Credited, Alone
  <1>4. Stale' = Stale
    BY <1>1 DEF Stale
  <1> QED
    BY <1>2, <1>3, <1>4 DEF Credited

(* Whoever purges, or credits what was purged, holds the mutex.            *)
LEMMA Purger ==
  ASSUME BudgetInv, NEW f \in Files, stage[f] \in {"purging", "crediting"}
  PROVE  purger = f /\ setup.floor # NoFloor
  BY DEF BudgetInv, Mutex, KeepInv, Reclaiming

(* A semaphore left alone has as much to spare.                            *)
LEMMA SpareStays ==
  ASSUME BudgetInv, cloud' = cloud
  PROVE  Spare(cloud') <= Spare(cloud)
  <1>1. Lined(cloud, Waits)
    BY DEF BudgetInv, WellFormed
  <1>2. cloud.permits \in Nat
    BY <1>1 DEF Lined
  <1>3. Sem!Asked(cloud, Len(cloud.queue)) \in Nat
    BY <1>1, LinedAsks
  <1> QED
    BY <1>2, <1>3 DEF Spare

(* A job that arrives alone finds nobody in flight.                        *)
LEMMA ArriveBudget ==
  ASSUME BudgetInv, NEW f \in Files, Arrive(f)
  PROVE  WellFormed' /\ Mutex' /\ Bounded' /\ Balanced' /\ Credited' /\ OnlyLow'
  <1> DEFINE b == IF setup.floor = NoFloor THEN "asking" ELSE "checking"
  <1>1. /\ Move(f, "todo", b) /\ b \in {"asking", "checking"}
        /\ UNCHANGED <<setup, cloud, purger, trash, purged, stored, owed>>
        /\ kept' \subseteq kept \cup {f}
        /\ Cardinality(InFlight) < setup.inFlight
    BY DEF Arrive, Move
  <1> HIDE DEF b
  <1>2. Lined(cloud', Waits') /\ Bounded' /\ Balanced' /\ Recorded' = Recorded
    BY <1>1, EarlyKeeps DEF Early
  <1>3. WellFormed'
    BY <1>1, <1>2 DEF WellFormed, BudgetInv
  <1>4. stage \in [Files -> Stages] /\ stage' = [stage EXCEPT ![f] = b] /\ stage[f] = "todo"
    BY <1>1 DEF BudgetInv, KeepInv, Move
  <1>5. Mutex'
    <2>1. \A g \in Files : stage'[g] \in {"purging", "crediting"} => purger' = g
      BY <1>1, <1>4 DEF BudgetInv, Mutex
    <2>2. ASSUME Alone PROVE \A g, h \in InFlight' : g = h
      <3>1. IsFiniteSet(InFlight)
        BY Finite, FS_Subset DEF InFlight
      <3>2. Cardinality(InFlight) = 0
        BY <1>1, <2>2, <3>1, FS_CardinalityType DEF Alone
      <3>3. InFlight = {}
        BY <3>1, <3>2, FS_EmptySet
      <3>4. InFlight' \subseteq {f}
        BY <1>4, <3>3 DEF InFlight
      <3> QED
        BY <3>4
    <2> QED
      BY <1>1, <2>1, <2>2 DEF Mutex, Alone
  <1>6. Credited'
    BY <1>1, <1>2, CreditedKeeps DEF Stages
  <1>7. OnlyLow'
    BY <1>1, <1>2, SpareStays, OnlyLowKeeps DEF Stages
  <1> QED
    BY <1>2, <1>3, <1>5, <1>6, <1>7

LEMMA CheckBudget ==
  ASSUME BudgetInv, NEW f \in Files, Check(f)
  PROVE  WellFormed' /\ Mutex' /\ Bounded' /\ Balanced' /\ Credited' /\ OnlyLow'
  <1> DEFINE b == IF Low THEN "queueing" ELSE "asking"
  <1>1. /\ Move(f, "checking", b) /\ b \in {"queueing", "asking"}
        /\ UNCHANGED <<cloud, purger, trash, purged, stored, owed, kept>>
    BY DEF Check
  <1> HIDE DEF b
  <1>2. Lined(cloud', Waits') /\ Bounded' /\ Balanced' /\ Recorded' = Recorded
    BY <1>1, EarlyKeeps DEF Early
  <1>3. WellFormed'
    BY <1>1, <1>2 DEF WellFormed, BudgetInv, Move
  <1>4. Mutex'
    BY <1>1, MutexKeeps DEF Stages
  <1>5. Credited'
    BY <1>1, <1>2, CreditedKeeps DEF Stages
  <1>6. OnlyLow'
    BY <1>1, <1>2, SpareStays, OnlyLowKeeps DEF Stages
  <1> QED
    BY <1>2, <1>3, <1>4, <1>5, <1>6

(* The look under the mutex is what justifies the purge.                   *)
LEMMA LockBudget ==
  ASSUME BudgetInv, NEW f \in Files, Lock(f)
  PROVE  WellFormed' /\ Mutex' /\ Bounded' /\ Balanced' /\ Credited' /\ OnlyLow'
  <1> DEFINE b == IF Low THEN "purging" ELSE "asking"
  <1>1. /\ Move(f, "queueing", b) /\ b \in {"purging", "asking"}
        /\ UNCHANGED <<setup, cloud, trash, purged, stored, owed, kept>>
        /\ purger = Nobody /\ purger' \in {Nobody, f}
        /\ b = "purging" => purger' = f /\ Low
    BY DEF Lock, Move
  <1> HIDE DEF b
  <1>2. Lined(cloud', Waits') /\ Bounded' /\ Balanced' /\ Recorded' = Recorded
    BY <1>1, EarlyKeeps DEF Early
  <1>3. WellFormed'
    BY <1>1, <1>2 DEF WellFormed, BudgetInv
  <1>4. Mutex'
    BY <1>1, MutexKeeps DEF Stages
  <1>5. Credited'
    BY <1>1, <1>2, CreditedKeeps DEF Stages
  <1>6. OnlyLow'
    <2>1. stage \in [Files -> Stages] /\ stage' = [stage EXCEPT ![f] = b]
      BY <1>1 DEF BudgetInv, KeepInv, Move
    <2>2. Low' <=> Low
      BY <1>1 DEF Low
    <2>3. \A g \in Files : stage'[g] = "purging" =>
            stage[g] = "purging" \/ (g = f /\ b = "purging")
      BY <2>1
    <2> QED
      BY <1>1, <2>2, <2>3 DEF BudgetInv, OnlyLow
  <1> QED
    BY <1>2, <1>3, <1>4, <1>5, <1>6

(* Everything on record that was still in the trash is destroyed.          *)
LEMMA PurgeBudget ==
  ASSUME BudgetInv, NEW f \in Files, Purge(f)
  PROVE  WellFormed' /\ Mutex' /\ Bounded' /\ Balanced' /\ Credited' /\ OnlyLow'
  <1>1. /\ Move(f, "purging", "crediting")
        /\ UNCHANGED <<setup, cloud, purger, stored, owed, kept>>
        /\ trash' = {} /\ purged' = purged \cup trash
        /\ stage[f] = "purging"
    BY DEF Purge, Empties, Move
  <1>2. Lined(cloud', Waits') /\ Bounded' /\ Balanced' /\ Recorded' = Recorded
    BY <1>1, EarlyKeeps DEF Early
  <1>3. WellFormed'
    BY <1>1, <1>2 DEF WellFormed, BudgetInv
  <1>4. Mutex'
    BY <1>1, Purger, MutexKeeps DEF Stages
  <1>5. Credited'
    <2>1. ~setup.fails => Recorded \cup owed \subseteq purged' \cup Stale
      BY <1>1 DEF BudgetInv, Balanced, Bounded
    <2> QED
      BY <1>1, <1>2, <2>1 DEF Credited, Stale
  <1>6. OnlyLow'
    BY <1>1, <1>2, SpareStays, OnlyLowKeeps DEF Stages
  <1> QED
    BY <1>2, <1>3, <1>4, <1>5, <1>6

LEMMA FailBudget ==
  ASSUME BudgetInv, NEW f \in Files, PurgeFails(f) \/ CreditFails(f)
  PROVE  WellFormed' /\ Mutex' /\ Bounded' /\ Balanced' /\ Credited' /\ OnlyLow'
  <1>1. PICK a \in {"purging", "crediting"} :
          /\ Move(f, a, "asking")
          /\ setup.fails
          /\ UNCHANGED <<setup, cloud, stored, owed, kept>>
          /\ trash' \cup purged' = trash \cup purged
          /\ purged \subseteq purged'
          /\ purger' = Nobody
          /\ stage[f] = a
    BY DEF PurgeFails, CreditFails, Empties, Move
  <1>2. Lined(cloud', Waits') /\ Bounded' /\ Balanced' /\ Recorded' = Recorded
    BY <1>1, EarlyKeeps DEF Early
  <1>3. WellFormed'
    BY <1>1, <1>2 DEF WellFormed, BudgetInv
  <1>4. Mutex'
    BY <1>1, Purger, MutexKeeps DEF Stages
  <1>5. Credited' /\ OnlyLow'
    BY <1>1 DEF Credited, OnlyLow
  <1> QED
    BY <1>2, <1>3, <1>4, <1>5

(* Permits given to the budget.                                            *)
LEMMA Gives ==
  ASSUME NEW sem, NEW who, Lined(sem, who), NEW n \in Nat
  PROVE  Lined(Sem!Give(sem, n), who) /\ Sem!Give(sem, n).permits = sem.permits + n
  <1>1. Sem!Give(sem, n) = [permits |-> sem.permits + n, queue |-> sem.queue]
    BY DEF Sem!Give, Lined
  <1> QED
    BY <1>1 DEF Lined

(* What is owed returns to the budget, and is on record as destroyed.      *)
LEMMA CreditBudget ==
  ASSUME BudgetInv, NEW f \in Files, Credit(f)
  PROVE  WellFormed' /\ Mutex' /\ Bounded' /\ Balanced' /\ Credited' /\ OnlyLow'
  <1>1. /\ Move(f, "crediting", "asking") /\ stage[f] = "crediting"
        /\ stage' = [stage EXCEPT ![f] = "asking"]
        /\ cloud' = Sem!Give(cloud, Total(Size, owed))
        /\ owed' = {} /\ purger' = Nobody
        /\ UNCHANGED <<setup, trash, purged, stored, kept>>
    BY DEF Credit, Move
  <1>2. stage \in [Files -> Stages] /\ setup \in Setups
    BY DEF BudgetInv, KeepInv
  <1>3. /\ Waits' = Waits /\ Held' = Held /\ Ended' = Ended /\ Recorded' = Recorded
        /\ {g \in Files : stage'[g] \in {"uploaded", "deleted", "ended"}}
             = {g \in Files : stage[g] \in {"uploaded", "deleted", "ended"}}
        /\ {g \in Files : stage'[g] = "deleted"} = {g \in Files : stage[g] = "deleted"}
    BY <1>1, <1>2 DEF Waits, Held, Ended, Recorded
  <1>4. /\ Total(Size, owed) \in Nat
        /\ Total(Size, Recorded) \in Nat /\ Total(Size, Recorded \ owed) \in Nat
        /\ Total(Output, Held) \in Nat /\ Total(Output, Held \cup Ended) \in Nat
        /\ setup.capacity \in Nat
    <2>1. owed \subseteq DOMAIN Size /\ Recorded \subseteq DOMAIN Size
      BY <1>2, SetupFacts DEF BudgetInv, Bounded
    <2>2. Held \subseteq Files /\ Ended \subseteq Files
      BY DEF Held, Ended
    <2> QED
      BY <1>2, <2>1, <2>2, SetupFacts, TotalsAreNat
  <1>5. Lined(cloud, Waits) /\ cloud.permits \in Nat
    BY DEF BudgetInv, WellFormed, Lined
  <1>6. Lined(cloud', Waits') /\ cloud'.permits = cloud.permits + Total(Size, owed)
    BY <1>1, <1>3, <1>4, <1>5, Gives
  <1>7. WellFormed'
    BY <1>1, <1>6 DEF BudgetInv, WellFormed
  <1>8. Mutex'
    BY <1>1, Purger, MutexKeeps DEF Stages
  <1>9. Bounded'
    <2>1. cloud.permits + Total(Output, Held) + Total(Size, owed)
            <= setup.capacity + Total(Size, Recorded)
      BY DEF BudgetInv, Bounded
    <2>2. cloud'.permits + Total(Output, Held) + 0 <= setup.capacity + Total(Size, Recorded)
      BY <1>4, <1>5, <1>6, <2>1
    <2> QED
      BY <1>1, <1>3, <2>2, TotalsAreNat DEF Bounded
  <1>10. Balanced'
    <2>1. setup.floor # NoFloor
      BY <1>1, Purger
    <2>2. Total(Size, Recorded) = Total(Size, Recorded \ owed) + Total(Size, owed)
      <3>1. owed \subseteq Recorded
        BY DEF BudgetInv, Bounded
      <3>2. /\ Recorded \ owed \in SUBSET DOMAIN Size /\ owed \in SUBSET DOMAIN Size
            /\ (Recorded \ owed) \cap owed = {} /\ (Recorded \ owed) \cup owed = Recorded
        BY <1>2, <3>1, SetupFacts
      <3> QED
        BY <3>2, Finite, TotalParts
    <2>3. ASSUME ~setup.fails
          PROVE  cloud'.permits + Total(Output, Held \cup Ended)
                   = setup.capacity + Total(Size, Recorded)
      <3>1. cloud.permits + Total(Output, Held \cup Ended)
              = setup.capacity + Total(Size, Recorded \ owed)
        BY <2>3 DEF BudgetInv, Balanced
      <3> QED
        BY <1>4, <1>5, <1>6, <2>2, <3>1
    <2>4. Recorded \ owed' = Recorded
      BY <1>1
    <2> QED
      BY <1>1, <1>3, <2>1, <2>3, <2>4 DEF BudgetInv, Balanced, Stale
  <1>11. Credited'
    <2>1. ~setup.fails /\ Alone => Recorded \subseteq purged \cup Stale
      BY <1>1 DEF BudgetInv, Credited
    <2> QED
      BY <1>1, <1>3, <2>1 DEF Credited, Alone, Stale
  <1>12. OnlyLow'
    <2>1. ASSUME NEW g \in Files, stage'[g] = "purging" PROVE FALSE
      <3>1. stage[g] = "purging" /\ g # f
        BY <1>1, <1>2, <2>1
      <3> QED
        BY <1>1, <3>1, Purger
    <2> QED
      BY <2>1 DEF OnlyLow
  <1> QED
    BY <1>7, <1>8, <1>9, <1>10, <1>11, <1>12

(* A job that waits has only joined the queue.                             *)
LEMMA AskBudget ==
  ASSUME BudgetInv, NEW f \in Files, Ask(f)
  PROVE  WellFormed' /\ Mutex' /\ Bounded' /\ Balanced' /\ Credited' /\ OnlyLow'
  <1>1. /\ Move(f, "asking", "waiting") /\ stage[f] = "asking"
        /\ stage' = [stage EXCEPT ![f] = "waiting"]
        /\ cloud' = Sem!Enqueue(cloud, f, Output[f])
        /\ UNCHANGED <<setup, purger, trash, purged, stored, owed, kept>>
    BY DEF Ask, Move
  <1>2. stage \in [Files -> Stages]
    BY DEF BudgetInv, KeepInv
  <1>3. /\ f \notin Waits /\ Waits' = Waits \cup {f}
        /\ Held' = Held /\ Ended' = Ended /\ Recorded' = Recorded
        /\ {g \in Files : stage'[g] \in {"uploaded", "deleted", "ended"}}
             = {g \in Files : stage[g] \in {"uploaded", "deleted", "ended"}}
        /\ {g \in Files : stage'[g] = "deleted"} = {g \in Files : stage[g] = "deleted"}
    BY <1>1, <1>2 DEF Waits, Held, Ended, Recorded
  <1>4. Lined(cloud, Waits)
    BY DEF BudgetInv, WellFormed
  <1>5. /\ Lined(cloud', Waits') /\ cloud'.permits = cloud.permits
        /\ Spare(cloud') = Spare(cloud) - Output[f]
    BY <1>1, <1>3, <1>4, Joins
  <1>6. Spare(cloud') <= Spare(cloud)
    <2>1. cloud.permits \in Nat
      BY <1>4 DEF Lined
    <2>2. Sem!Asked(cloud, Len(cloud.queue)) \in Nat
      BY <1>4, LinedAsks
    <2>3. Spare(cloud) \in Int
      BY <2>1, <2>2 DEF Spare
    <2> QED
      BY <1>5, <2>3, Finite
  <1>7. WellFormed'
    BY <1>1, <1>5 DEF BudgetInv, WellFormed
  <1>8. Mutex'
    BY <1>1, MutexKeeps DEF Stages
  <1>9. Bounded' /\ Balanced'
    BY <1>1, <1>3, <1>5 DEF BudgetInv, Bounded, Balanced, Stale
  <1>10. Credited'
    BY <1>1, <1>3, CreditedKeeps DEF Stages
  <1>11. OnlyLow'
    BY <1>1, <1>5, <1>6, OnlyLowKeeps DEF Stages
  <1> QED
    BY <1>7, <1>8, <1>9, <1>10, <1>11

(* The permits of a lease come out of the budget.                          *)
LEMMA LeaseBudget ==
  ASSUME BudgetInv, NEW f \in Files, Lease(f)
  PROVE  WellFormed' /\ Mutex' /\ Bounded' /\ Balanced' /\ Credited' /\ OnlyLow'
  <1>1. /\ Move(f, "waiting", "leased") /\ stage[f] = "waiting"
        /\ stage' = [stage EXCEPT ![f] = "leased"]
        /\ Sem!Granted(cloud, f) /\ cloud' = Sem!Grant(cloud, f)
        /\ UNCHANGED <<setup, purger, trash, purged, stored, owed, kept>>
    BY DEF Lease, Move
  <1>2. stage \in [Files -> Stages]
    BY DEF BudgetInv, KeepInv
  <1>3. /\ Waits' = Waits \ {f} /\ Ended' = Ended /\ Recorded' = Recorded
        /\ Held' = Held \cup {f} /\ f \notin Held /\ f \notin Ended
        /\ {g \in Files : stage'[g] \in {"uploaded", "deleted", "ended"}}
             = {g \in Files : stage[g] \in {"uploaded", "deleted", "ended"}}
        /\ {g \in Files : stage'[g] = "deleted"} = {g \in Files : stage[g] = "deleted"}
    BY <1>1, <1>2 DEF Waits, Held, Ended, Recorded
  <1>4. Lined(cloud, Waits) /\ Waits \in SUBSET Files /\ cloud.permits \in Nat
    BY DEF BudgetInv, WellFormed, Waits, Lined
  <1>5. /\ Lined(cloud', Waits') /\ Output[f] <= cloud.permits
        /\ cloud'.permits = cloud.permits - Output[f]
        /\ Spare(cloud') = Spare(cloud)
    BY <1>1, <1>3, <1>4, Leaves
  <1>6. Spare(cloud') <= Spare(cloud)
    <2>1. Sem!Asked(cloud, Len(cloud.queue)) \in Nat
      BY <1>4, LinedAsks
    <2>2. Spare(cloud) \in Int
      BY <1>4, <2>1 DEF Spare
    <2> QED
      BY <1>5, <2>2
  <1>7. WellFormed'
    BY <1>1, <1>5 DEF BudgetInv, WellFormed
  <1>8. Mutex'
    BY <1>1, MutexKeeps DEF Stages
  <1>9. Total(Output, Held') = Total(Output, Held) + Output[f]
    <2>1. Held \in SUBSET Files /\ f \in Files \ Held
      BY <1>3 DEF Held
    <2> QED
      BY <1>3, <2>1, Finite, TotalAdds
  <1>10. Total(Output, Held' \cup Ended') = Total(Output, Held \cup Ended) + Output[f]
    <2>1. /\ Held \cup Ended \in SUBSET Files /\ f \in Files \ (Held \cup Ended)
          /\ Held' \cup Ended' = (Held \cup Ended) \cup {f}
      BY <1>3 DEF Held, Ended
    <2> QED
      BY <2>1, Finite, TotalAdds
  <1>11. /\ Output[f] \in Nat /\ Total(Output, Held) \in Nat
         /\ Total(Output, Held \cup Ended) \in Nat
    <2>1. Held \subseteq Files /\ Ended \subseteq Files
      BY DEF Held, Ended
    <2> QED
      BY <2>1, Finite, TotalsAreNat
  <1>12. /\ cloud'.permits + Total(Output, Held') = cloud.permits + Total(Output, Held)
         /\ cloud'.permits + Total(Output, Held' \cup Ended')
              = cloud.permits + Total(Output, Held \cup Ended)
    BY <1>4, <1>5, <1>9, <1>10, <1>11
  <1>13. Bounded' /\ Balanced'
    BY <1>1, <1>3, <1>12 DEF BudgetInv, Bounded, Balanced, Stale
  <1>14. Credited'
    BY <1>1, <1>3, CreditedKeeps DEF Stages
  <1>15. OnlyLow'
    BY <1>1, <1>5, <1>6, OnlyLowKeeps DEF Stages
  <1> QED
    BY <1>7, <1>8, <1>13, <1>14, <1>15

(* The stages that rely on the lease leave it alone.                       *)
LEMMA ReplaceBudget ==
  ASSUME BudgetInv, NEW f \in Files, Upload(f) \/ Delete(f)
  PROVE  WellFormed' /\ Mutex' /\ Bounded' /\ Balanced' /\ Credited' /\ OnlyLow'
  <1>1. PICK a \in {"leased", "uploaded"}, b \in {"uploaded", "deleted"} :
          /\ Move(f, a, b) /\ stage[f] = a
          /\ stage' = [stage EXCEPT ![f] = b]
          /\ stored' = IF b = "uploaded" THEN stored \cup {f} ELSE stored
          /\ trash' = IF b = "deleted" THEN trash \cup {f} ELSE trash
          /\ b = "deleted" => a = "uploaded"
          /\ UNCHANGED <<setup, cloud, purger, purged, owed, kept>>
    BY DEF Upload, Delete, Move
  <1>2. stage \in [Files -> Stages]
    BY DEF BudgetInv, KeepInv
  <1>3. /\ Waits' = Waits /\ Ended' = Ended /\ Recorded' = Recorded /\ Held' = Held
        /\ {g \in Files : stage'[g] \in {"uploaded", "deleted", "ended"}}
             = {g \in Files : stage[g] \in {"uploaded", "deleted", "ended"}} \cup {f}
        /\ {g \in Files : stage'[g] = "deleted"}
             = {g \in Files : stage[g] = "deleted"} \cup (IF b = "deleted" THEN {f} ELSE {})
        /\ b = "deleted" => f \in {g \in Files : stage[g] \in {"uploaded", "deleted", "ended"}}
    BY <1>1, <1>2 DEF Waits, Held, Ended, Recorded
  <1>4. Lined(cloud', Waits')
    BY <1>1, <1>3 DEF BudgetInv, WellFormed
  <1>5. WellFormed'
    BY <1>1, <1>4 DEF BudgetInv, WellFormed
  <1>6. Mutex'
    BY <1>1, MutexKeeps DEF Stages
  <1>7. Bounded'
    BY <1>1, <1>3 DEF BudgetInv, Bounded
  <1>8. Balanced'
    <2>1. ASSUME ~setup.fails
          PROVE  /\ stored' = {g \in Files : stage'[g] \in {"uploaded", "deleted", "ended"}}
                 /\ Recorded' \cup {g \in Files : stage'[g] = "deleted"}
                       \subseteq trash' \cup purged' \cup Stale'
      <3>1. /\ stored = {g \in Files : stage[g] \in {"uploaded", "deleted", "ended"}}
            /\ Recorded \cup {g \in Files : stage[g] = "deleted"}
                  \subseteq trash \cup purged \cup Stale
        BY <2>1 DEF BudgetInv, Balanced
      <3>2. CASE b = "uploaded"
        BY <1>1, <1>3, <3>1, <3>2 DEF Stale
      <3>3. CASE b = "deleted"
        BY <1>1, <1>3, <3>1, <3>3 DEF Stale
      <3> QED
        BY <3>2, <3>3
    <2> QED
      BY <1>1, <1>3, <2>1 DEF BudgetInv, Balanced, Stale
  <1>9. Credited'
    BY <1>1, <1>3, CreditedKeeps DEF Stages
  <1>10. OnlyLow'
    BY <1>1, <1>4, SpareStays, OnlyLowKeeps DEF Stages
  <1> QED
    BY <1>5, <1>6, <1>7, <1>8, <1>9, <1>10

(* The files and sums of a job that ends with its lease.                   *)
LEMMA Ends ==
  ASSUME BudgetInv, NEW f \in Files, stage[f] \in {"leased", "uploaded", "deleted"},
         Move(f, stage[f], "ended")
  PROVE  /\ Waits' = Waits /\ f \in Held /\ Held' = Held \ {f} /\ Ended' = Ended \cup {f}
         /\ Recorded' = Recorded \cup {f} /\ f \notin Recorded /\ f \notin owed
         /\ Total(Output, Held) = Total(Output, Held') + Output[f]
         /\ Total(Size, Recorded') = Total(Size, Recorded) + Size[f]
         /\ Total(Output, Held') \in Nat /\ Output[f] \in Nat /\ Size[f] \in Nat
         /\ Output[f] <= Size[f] /\ setup.capacity \in Nat
         /\ owed \subseteq Recorded /\ Recorded \subseteq DOMAIN Size
         /\ Total(Size, Recorded) \in Nat /\ Total(Size, owed) \in Nat
         /\ Lined(cloud, Waits) /\ cloud.permits \in Nat
  <1>1. /\ stage \in [Files -> Stages] /\ setup \in Setups /\ setup' = setup
        /\ stage' = [stage EXCEPT ![f] = "ended"]
    BY DEF BudgetInv, KeepInv, Move
  <1>2. Recorded \subseteq DOMAIN Size /\ setup.owed \cap Files = {} /\ setup.capacity \in Nat
    BY <1>1, SetupFacts
  <1>3. owed \subseteq Recorded
    BY DEF BudgetInv, Bounded
  <1>4. /\ Waits' = Waits /\ f \in Held /\ Held' = Held \ {f} /\ Ended' = Ended \cup {f}
        /\ Recorded' = Recorded \cup {f} /\ f \notin Recorded
    BY <1>1, <1>2 DEF Waits, Held, Ended, Recorded
  <1>5. /\ Output[f] \in Nat /\ Size[f] \in Nat /\ Output[f] <= Size[f]
        /\ Files \subseteq DOMAIN Size
    BY Finite
  <1>6. /\ Total(Output, Held') \in Nat
        /\ Total(Size, Recorded) \in Nat /\ Total(Size, owed) \in Nat
    <2>1. Held' \subseteq Files /\ owed \subseteq DOMAIN Size
      BY <1>2, <1>3, <1>4 DEF Held
    <2> QED
      BY <1>2, <2>1, TotalsAreNat
  <1>7. Total(Output, Held) = Total(Output, Held') + Output[f]
    <2>1. Held' \in SUBSET Files /\ f \in Files \ Held' /\ Held = Held' \cup {f}
      BY <1>4 DEF Held
    <2> QED
      BY <2>1, Finite, TotalAdds
  <1>8. Total(Size, Recorded') = Total(Size, Recorded) + Size[f]
    <2>1. Recorded \in SUBSET DOMAIN Size /\ f \in DOMAIN Size \ Recorded
      BY <1>2, <1>4, <1>5
    <2> QED
      BY <1>4, <2>1, Finite, TotalAdds
  <1>9. Lined(cloud, Waits) /\ cloud.permits \in Nat
    BY DEF BudgetInv, WellFormed, Lined
  <1> QED
    BY <1>2, <1>3, <1>4, <1>5, <1>6, <1>7, <1>8, <1>9

(* The permits of a job that is on record are not given back.              *)
LEMMA RecordBudget ==
  ASSUME BudgetInv, NEW f \in Files, Record(f)
  PROVE  WellFormed' /\ Mutex' /\ Bounded' /\ Balanced' /\ Credited' /\ OnlyLow'
  <1>1. /\ stage[f] = "deleted" /\ Move(f, stage[f], "ended")
        /\ stage' = [stage EXCEPT ![f] = "ended"]
        /\ owed' = owed \cup {f}
        /\ UNCHANGED <<setup, cloud, purger, trash, purged, stored, kept>>
    BY DEF Record, Move
  <1>2. stage \in [Files -> Stages]
    BY DEF BudgetInv, KeepInv
  <1>3. /\ Waits' = Waits /\ f \in Held /\ Held' = Held \ {f} /\ Ended' = Ended \cup {f}
        /\ Recorded' = Recorded \cup {f} /\ f \notin Recorded /\ f \notin owed
    BY <1>1, Ends
  <1>4. Lined(cloud', Waits')
    BY <1>1, <1>3 DEF BudgetInv, WellFormed
  <1>5. WellFormed'
    BY <1>1, <1>4 DEF BudgetInv, WellFormed
  <1>6. Mutex'
    BY <1>1, MutexKeeps DEF Stages
  <1>7. Bounded'
    <2>1. cloud.permits + Total(Output, Held) + Total(Size, owed)
            <= setup.capacity + Total(Size, Recorded)
      BY DEF BudgetInv, Bounded
    <2>2. Total(Size, owed') = Total(Size, owed) + Size[f]
      <3>1. owed \in SUBSET DOMAIN Size /\ f \in DOMAIN Size \ owed
        BY <1>1, <1>3, Ends, Finite
      <3> QED
        BY <1>1, <3>1, Finite, TotalAdds
    <2>3. /\ Total(Output, Held) = Total(Output, Held') + Output[f]
          /\ Total(Size, Recorded') = Total(Size, Recorded) + Size[f]
          /\ Total(Output, Held') \in Nat /\ Output[f] \in Nat /\ Size[f] \in Nat
          /\ Total(Size, Recorded) \in Nat /\ Total(Size, owed) \in Nat
          /\ cloud.permits \in Nat /\ setup.capacity \in Nat
          /\ owed' \subseteq Recorded'
      BY <1>1, <1>3, Ends
    <2>4. cloud.permits + Total(Output, Held') + Total(Size, owed')
            <= setup.capacity + Total(Size, Recorded')
      BY <2>1, <2>2, <2>3
    <2> QED
      BY <1>1, <2>3, <2>4 DEF Bounded
  <1>8. Recorded' \ owed' = Recorded \ owed
    BY <1>1, <1>3
  <1>9. Balanced'
    <2>1. Held' \cup Ended' = Held \cup Ended
      BY <1>3
    <2>2. /\ {g \in Files : stage'[g] \in {"uploaded", "deleted", "ended"}}
               = {g \in Files : stage[g] \in {"uploaded", "deleted", "ended"}}
          /\ {g \in Files : stage'[g] = "deleted"} \cup {f}
               = {g \in Files : stage[g] = "deleted"}
      BY <1>1, <1>2
    <2>3. ~setup.fails => Recorded' \cup {g \in Files : stage'[g] = "deleted"}
                            \subseteq trash \cup purged \cup Stale
      BY <1>3, <2>2 DEF BudgetInv, Balanced
    <2>4. ~setup.fails /\ setup.floor = NoFloor => owed' = Recorded'
      BY <1>1, <1>3 DEF BudgetInv, Balanced, Stale
    <2> QED
      BY <1>1, <1>8, <2>1, <2>2, <2>3, <2>4 DEF BudgetInv, Balanced, Stale
  <1>10. Credited'
    <2>1. ASSUME Alone, NEW g \in Files, stage'[g] = "crediting" PROVE FALSE
      <3>1. stage[g] = "crediting" /\ g # f
        BY <1>1, <1>2, <2>1
      <3>2. f \in InFlight /\ g \in InFlight
        BY <1>1, <3>1 DEF InFlight
      <3> QED
        BY <2>1, <3>1, <3>2 DEF BudgetInv, Mutex
    <2> QED
      BY <1>1, <1>8, <2>1 DEF BudgetInv, Credited, Alone, Stale
  <1>11. OnlyLow'
    BY <1>1, <1>4, SpareStays, OnlyLowKeeps DEF Stages
  <1> QED
    BY <1>5, <1>6, <1>7, <1>9, <1>10, <1>11

(* A lease that is dropped returns its permits, which may overstate the    *)
(* budget, but by no more than the file that was given up.                 *)
LEMMA BreaksOffBudget ==
  ASSUME BudgetInv, NEW f \in Files, BreaksOff(f)
  PROVE  WellFormed' /\ Mutex' /\ Bounded' /\ Balanced' /\ Credited' /\ OnlyLow'
  <1>1. /\ stage[f] \in {"leased", "uploaded", "deleted"} /\ Move(f, stage[f], "ended")
        /\ setup.fails /\ setup' = setup
        /\ cloud' = Sem!Give(cloud, Output[f])
        /\ trash' \subseteq trash \cup {f} /\ stored' \subseteq stored \cup {f}
        /\ UNCHANGED <<purger, purged, owed, kept>>
    BY DEF BreaksOff, Move
  <1>2. /\ Waits' = Waits /\ Recorded' = Recorded \cup {f}
        /\ Total(Output, Held) = Total(Output, Held') + Output[f]
        /\ Total(Size, Recorded') = Total(Size, Recorded) + Size[f]
        /\ Total(Output, Held') \in Nat /\ Output[f] \in Nat /\ Size[f] \in Nat
        /\ setup.capacity \in Nat /\ owed \subseteq Recorded
        /\ Total(Size, Recorded) \in Nat /\ Total(Size, owed) \in Nat
        /\ Lined(cloud, Waits) /\ cloud.permits \in Nat
    BY <1>1, Ends
  <1>3. Lined(cloud', Waits') /\ cloud'.permits = cloud.permits + Output[f]
    BY <1>1, <1>2, Gives
  <1>4. WellFormed'
    BY <1>1, <1>3 DEF BudgetInv, WellFormed
  <1>5. Mutex'
    BY <1>1, MutexKeeps DEF Stages
  <1>6. Bounded'
    <2>1. cloud.permits + Total(Output, Held) + Total(Size, owed)
            <= setup.capacity + Total(Size, Recorded)
      BY DEF BudgetInv, Bounded
    <2>2. cloud'.permits + Total(Output, Held') + Total(Size, owed)
            <= setup.capacity + Total(Size, Recorded')
      BY <1>2, <1>3, <2>1
    <2> QED
      BY <1>1, <1>2, <2>2 DEF Bounded
  <1> QED
    BY <1>1, <1>4, <1>5, <1>6 DEF Balanced, Credited, OnlyLow

LEMMA BudgetNext == BudgetInv /\ [Next]_vars => BudgetInv'
  <1> SUFFICES ASSUME BudgetInv, [Next]_vars PROVE BudgetInv'
    OBVIOUS
  <1>1. KeepInv'
    BY NextKeep DEF BudgetInv
  <1> DEFINE Rest == WellFormed /\ Mutex /\ Bounded /\ Balanced /\ Credited /\ OnlyLow
  <1>2. ASSUME UNCHANGED vars PROVE Rest'
    <2>1. WellFormed' /\ Bounded' /\ Mutex' /\ Credited' /\ OnlyLow'
      BY <1>2 DEF vars, BudgetInv, WellFormed, Bounded, Mutex, Credited, OnlyLow,
                  Waits, Held, Ended, Recorded, Stale, InFlight, Low, Alone
    <2>2. Balanced'
      BY <1>2 DEF vars, BudgetInv, Balanced, Held, Ended, Recorded, Stale
    <2> QED
      BY <2>1, <2>2
  <1>3. ASSUME NEW f \in Files, Arrive(f) \/ Proceed(f) PROVE Rest'
    <2>1. CASE Arrive(f)
      BY <2>1, ArriveBudget
    <2>2. CASE Check(f) \/ Lock(f)
      BY <2>2, CheckBudget, LockBudget
    <2>3. CASE Purge(f) \/ PurgeFails(f) \/ CreditFails(f)
      BY <2>3, PurgeBudget, FailBudget
    <2>4. CASE Credit(f)
      BY <2>4, CreditBudget
    <2>5. CASE Ask(f) \/ Lease(f)
      BY <2>5, AskBudget, LeaseBudget
    <2>6. CASE Upload(f) \/ Delete(f)
      BY <2>6, ReplaceBudget
    <2>7. CASE Record(f) \/ BreaksOff(f)
      BY <2>7, RecordBudget, BreaksOffBudget
    <2> QED
      BY <1>3, <2>1, <2>2, <2>3, <2>4, <2>5, <2>6, <2>7 DEF Proceed
  <1> QED
    BY <1>1, <1>2, <1>3 DEF Next, BudgetInv

THEOREM Invariance == Spec => []BudgetInv
  BY BudgetInit, BudgetNext, PTL DEF Spec

-----------------------------------------------------------------------------
(* The theorems.                                                           *)

(* At any time the budget holds whole permits, and no more than the run    *)
(* began with and the originals it knows of; who waits is in the queue     *)
(* (governor.rs, lines 201-222).                                           *)
THEOREM TypeCorrect == Spec => []TypeOK
  <1>1. BudgetInv => TypeOK
    <2> SUFFICES ASSUME BudgetInv PROVE TypeOK
      OBVIOUS
    <2>1. /\ setup \in Setups /\ stage \in [Files -> Stages]
          /\ Lined(cloud, Waits) /\ owed \subseteq Recorded
          /\ cloud.permits + Total(Output, Held) + Total(Size, owed)
               <= setup.capacity + Total(Size, Recorded)
      BY DEF BudgetInv, KeepInv, WellFormed, Bounded
    <2>2. cloud.permits \in 0 .. setup.capacity + Total(Size, DOMAIN Size)
      <3>1. /\ Recorded \in SUBSET DOMAIN Size /\ DOMAIN Size \in SUBSET DOMAIN Size
            /\ owed \in SUBSET DOMAIN Size /\ Held \in SUBSET Files
            /\ setup.capacity \in Nat
        BY <2>1, SetupFacts DEF Held
      <3>2. Total(Size, Recorded) <= Total(Size, DOMAIN Size)
        BY <3>1, Finite, TotalParts
      <3>3. /\ Total(Size, Recorded) \in Nat /\ Total(Size, DOMAIN Size) \in Nat
            /\ Total(Size, owed) \in Nat /\ Total(Output, Held) \in Nat
        BY <3>1, TotalsAreNat
      <3>4. cloud.permits \in Nat
        BY <2>1 DEF Lined
      <3> QED
        BY <2>1, <3>1, <3>2, <3>3, <3>4
    <2>3. Sem!Waiting(cloud) = {f \in Files : stage[f] = "waiting"}
      <3>1. InLine(cloud.queue, Waits) /\ DOMAIN cloud.queue = 1 .. Len(cloud.queue)
        BY <2>1 DEF Lined, InLine
      <3> QED
        BY <3>1 DEF InLine, Sem!Waiting, Waits
    <2>4. /\ trash \cup purged \subseteq Files \cup setup.trash
          /\ owed \subseteq Files \cup setup.owed
      BY <2>1 DEF BudgetInv, WellFormed, Recorded, Ended
    <2> QED
      BY <2>1, <2>2, <2>3, <2>4 DEF TypeOK, BudgetInv, WellFormed
  <1> QED
    BY <1>1, Invariance, PTL

(* For any files, sizes and rows of earlier runs: what the budget offers   *)
(* and has promised fits into the space that is really free, but for what  *)
(* stale rows were credited for, as long as jobs side by side never purge  *)
(* and no call fails (governor.rs, lines 73-80 and 201-222; pipeline.rs,   *)
(* 250-256 and 580-596).                                                   *)
THEOREM Honest == Spec => []BudgetHonest
  <1> DEFINE over == Stale \ owed
             gone == (Recorded \ owed) \ over
  <1>1. BudgetInv => BudgetHonest
    <2> SUFFICES ASSUME BudgetInv, setup.floor = NoFloor \/ Alone, ~setup.fails
                 PROVE  cloud.permits + Total(Output, Leased) <= FreeSpace + Total(Size, over)
      BY DEF BudgetHonest
    <2>1. /\ setup \in Setups /\ cloud.permits \in Nat
          /\ stored = {f \in Files : stage[f] \in {"uploaded", "deleted", "ended"}}
          /\ cloud.permits + Total(Output, Held \cup Ended)
               = setup.capacity + Total(Size, Recorded \ owed)
      BY DEF BudgetInv, KeepInv, WellFormed, Lined, Balanced
    <2>2. gone \subseteq purged
      BY DEF BudgetInv, Balanced, Credited
    <2>3. /\ setup.capacity \in Nat /\ Recorded \ owed \in SUBSET DOMAIN Size
          /\ purged \in SUBSET DOMAIN Size
      BY <2>1, SetupFacts, Finite DEF BudgetInv, WellFormed
    <2>4. /\ Leased \in SUBSET Files /\ stored \in SUBSET Files
          /\ Leased \cap stored = {} /\ Leased \cup stored = Held \cup Ended
      BY <2>1 DEF Leased, Held, Ended
    <2>5. Total(Output, Held \cup Ended) = Total(Output, Leased) + Total(Output, stored)
      BY <2>4, Finite, TotalParts
    <2>6. /\ gone \in SUBSET DOMAIN Size /\ over \in SUBSET DOMAIN Size
          /\ gone \cap over = {} /\ gone \cup over = Recorded \ owed
      BY <2>3 DEF Recorded, Stale
    <2> HIDE DEF gone, over
    <2>7. Total(Size, Recorded \ owed) = Total(Size, gone) + Total(Size, over)
      BY <2>6, Finite, TotalParts
    <2>8. Total(Size, gone) <= Total(Size, purged)
      BY <2>2, <2>3, <2>6, Finite, TotalParts
    <2>9. /\ Total(Output, Leased) \in Nat /\ Total(Output, stored) \in Nat
          /\ Total(Size, gone) \in Nat /\ Total(Size, over) \in Nat
          /\ Total(Size, purged) \in Nat
      BY <2>3, <2>4, <2>6, TotalsAreNat
    <2> QED
      BY <2>1, <2>3, <2>5, <2>7, <2>8, <2>9 DEF FreeSpace
  <1> QED
    BY <1>1, Invariance, PTL

(* Of the jobs that notice one shortage, only those purge that still find  *)
(* the budget low under the mutex (pipeline.rs, lines 239-243).            *)
THEOREM PurgesWhenLow == Spec => PurgedOnlyWhenLow
  <1>1. ASSUME BudgetInv, [Next]_vars, purged' # purged, ~setup.fails PROVE Low
    <2>1. PICK f \in Files : stage[f] = "purging"
      BY <1>1 DEF Next, Proceed, vars, Arrive, Check, Lock, Purge, PurgeFails, Credit,
                  CreditFails, Ask, Lease, Upload, Delete, Record, BreaksOff, Move
    <2> QED
      BY <1>1, <2>1 DEF BudgetInv, OnlyLow
  <1>2. BudgetInv /\ [Next]_vars => [purged' # purged /\ ~setup.fails => Low]_vars
    BY <1>1
  <1> QED
    BY <1>2, Invariance, PTL DEF Spec, PurgedOnlyWhenLow
=============================================================================
