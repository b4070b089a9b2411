---------------------------- MODULE PlanRegister ----------------------------
(***************************************************************************)
(* What the plan handlers promise: a register of the plans of the comuni.  *)
(* A plan gets into it in two steps that may be far apart.  It is accepted *)
(* when the rules allow it, on that day, in place of a plan the comune has *)
(* at that moment; and it is stored later, or never.                       *)
(*                                                                         *)
(* Nothing is said of tables, statements, requests, files or answers.      *)
(***************************************************************************)
EXTENDS Integers

CONSTANTS
  Comuni,
  NoPlan,                     \* in the place of the plan of a comune without
  Allowed(_, _, _),           \* of a plan, the one it replaces and the day
  AsStored(_)                 \* what is read back of a plan that was stored

VARIABLES
  plans,      \* the plans of each comune: none, one, or by mischance several
  accepted,   \* what may still be stored: comune, plan, and the plan it replaces
  today

vars == <<plans, accepted, today>>

Present(c) == IF plans[c] = {} THEN {NoPlan} ELSE plans[c]

Init ==
  /\ plans = [c \in Comuni |-> {}]
  /\ accepted = {}
  /\ today \in Nat

Accept ==
  /\ \A o \in accepted' \ accepted :
       /\ o.comune \in Comuni
       /\ o.old \in Present(o.comune)
       /\ Allowed(o.plan, o.old, today)
  /\ UNCHANGED <<plans, today>>

\* The plan takes the place of all of them, or its place beside them.
Store(o) ==
  /\ \/ plans' = [plans EXCEPT ![o.comune] = {AsStored(o.plan)}]
     \/ plans' = [plans EXCEPT ![o.comune] = @ \cup {AsStored(o.plan)}]
  /\ accepted' \subseteq accepted
  /\ UNCHANGED today

Day ==
  /\ today' = today + 1
  /\ UNCHANGED <<plans, accepted>>

Next == Accept \/ Day \/ \E o \in accepted : Store(o)

Spec == Init /\ [][Next]_vars

(***************************************************************************)
(* The register of one hand: a plan is stored while the plan it was        *)
(* accepted in place of is still there.                                    *)
(***************************************************************************)
SerialNext == Accept \/ Day \/ \E o \in accepted : o.old \in Present(o.comune) /\ Store(o)

SerialSpec == Init /\ [][SerialNext]_vars
=============================================================================
