----------------------------- MODULE ConsumeOnce -----------------------------
(***************************************************************************)
(* What the coordinator promises of an operation, seen from outside: one   *)
(* approved action at most ever holds it, its effect happens at most once, *)
(* and a definite report is true and final.                                *)
(***************************************************************************)
EXTENDS Integers

CONSTANTS None, Actions, Ops,
          OpOf(_)     \* the operation an action would perform

VARIABLES holder,     \* the action an operation is consumed by, or None
          report,     \* none, pending, unknown, succeeded or failed
          effectCount \* effects at the provider

onceVars == <<holder, report, effectCount>>

Init ==
  /\ holder = [o \in Ops |-> None]
  /\ report = [o \in Ops |-> "none"]
  /\ effectCount = [o \in Ops |-> 0]

\* An action takes a free operation, for good.
Claim(o, a) ==
  /\ holder[o] = None
  /\ OpOf(a) = o
  /\ holder' = [holder EXCEPT ![o] = a]
  /\ report' = [report EXCEPT ![o] = "pending"]
  /\ UNCHANGED effectCount

\* The one effect: only for a holder, and not once failure is reported.
Perform(o) ==
  /\ holder[o] # None
  /\ report[o] \in {"pending", "unknown"}
  /\ effectCount[o] = 0
  /\ effectCount' = [effectCount EXCEPT ![o] = 1]
  /\ UNCHANGED <<holder, report>>

\* A doubt may be reported while nothing else has been, a success only after
\* the effect, a failure only without it.
Report(o, r) ==
  /\ \/ report[o] = "pending" /\ r = "unknown"
     \/ report[o] \in {"pending", "unknown"} /\ r = "succeeded" /\ effectCount[o] = 1
     \/ report[o] \in {"pending", "unknown"} /\ r = "failed" /\ effectCount[o] = 0
  /\ report' = [report EXCEPT ![o] = r]
  /\ UNCHANGED <<holder, effectCount>>

Next ==
  \E o \in Ops :
    \/ \E a \in Actions : Claim(o, a)
    \/ Perform(o)
    \/ \E r \in {"unknown", "succeeded", "failed"} : Report(o, r)

Spec == Init /\ [][Next]_onceVars

=============================================================================
