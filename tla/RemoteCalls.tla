---------------------------- MODULE RemoteCalls ----------------------------
(***************************************************************************)
(* What the commands of the tool rely on in the Remote trait, without      *)
(* saying how a call travels: a call that was answered with success took   *)
(* effect; one that was answered with an error may have taken effect or    *)
(* may still do so; and once a command is over, unless it was killed,      *)
(* nothing it asked for happens any more.                                  *)
(***************************************************************************)
CONSTANTS
  Commands,     \* the processes that make calls
  Calls,        \* the calls that are ever made
  CallerOf      \* the command each is made by

VARIABLES
  answer,       \* what the caller was told
  effect,       \* the calls that took effect
  over,         \* the commands that ended
  killed        \* those that were killed

vars == <<answer, effect, over, killed>>

Gone == over \cup killed

Init ==
  /\ answer = [k \in Calls |-> "unasked"]
  /\ effect = {}
  /\ over = {} /\ killed = {}

Ask(k) ==
  /\ answer[k] = "unasked" /\ CallerOf[k] \notin Gone
  /\ answer' = [answer EXCEPT ![k] = "waiting"]
  /\ UNCHANGED <<effect, over, killed>>

TakeEffect(k) ==
  /\ answer[k] \in {"waiting", "error"} /\ CallerOf[k] \notin over
  /\ effect' = effect \cup {k}
  /\ UNCHANGED <<answer, over, killed>>

Succeed(k) ==
  /\ answer[k] = "waiting" /\ CallerOf[k] \notin Gone
  /\ k \in effect
  /\ answer' = [answer EXCEPT ![k] = "ok"]
  /\ UNCHANGED <<effect, over, killed>>

Fail(k) ==
  /\ answer[k] \in {"unasked", "waiting"} /\ CallerOf[k] \notin Gone
  /\ answer' = [answer EXCEPT ![k] = "error"]
  /\ UNCHANGED <<effect, over, killed>>

End(c) ==
  /\ c \notin Gone
  /\ over' = over \cup {c}
  /\ UNCHANGED <<answer, effect, killed>>

Kill(c) ==
  /\ c \notin Gone
  /\ killed' = killed \cup {c}
  /\ UNCHANGED <<answer, effect, over>>

Next ==
  \/ \E k \in Calls : Ask(k) \/ TakeEffect(k) \/ Succeed(k) \/ Fail(k)
  \/ \E c \in Commands : End(c) \/ Kill(c)

Spec == Init /\ [][Next]_vars
=============================================================================
