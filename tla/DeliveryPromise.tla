--------------------------- MODULE DeliveryPromise ---------------------------
(***************************************************************************)
(* What the delivery queue promises the audience of one publication,       *)
(* without rows, leases, attempts or retries: the posts of a target appear *)
(* in order and each of them once, an operator who has taken a target's    *)
(* posts down may ask for them again, and while "cancel the rest" stands   *)
(* only the targets already part-way out may still grow.                   *)
(***************************************************************************)
EXTENDS Naturals

CONSTANTS Targets, Parts

VARIABLES
  shown,     \* target -> part -> copies in front of the audience
  stopped,   \* "cancel the rest" stands
  finishing  \* the targets it leaves to finish

promiseVars == <<shown, stopped, finishing>>

Init ==
  /\ shown = [t \in Targets |-> [p \in 1 .. Parts[t] |-> 0]]
  /\ stopped = FALSE /\ finishing = {}

Show(t, p) ==
  /\ shown[t][p] = 0
  /\ p > 1 => shown[t][p - 1] = 1
  /\ stopped => t \in finishing
  /\ shown' = [shown EXCEPT ![t][p] = 1]
  /\ UNCHANGED <<stopped, finishing>>

TakenDown(t) == [shown EXCEPT ![t] = [p \in 1 .. Parts[t] |-> 0]]

\* The publication is asked for (again), once what is out has been taken down
\* when that is what the operator means.
Ask ==
  /\ stopped' = FALSE /\ finishing' = {}
  /\ shown' \in {shown} \cup {TakenDown(t) : t \in Targets}

Stop ==
  /\ ~stopped /\ stopped' = TRUE
  /\ finishing' \in SUBSET Targets
  /\ UNCHANGED shown

Next ==
  \/ \E t \in Targets : \E p \in 1 .. Parts[t] : Show(t, p)
  \/ Ask \/ Stop

Spec == Init /\ [][Next]_promiseVars
=============================================================================
