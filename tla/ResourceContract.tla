-------------------------- MODULE ResourceContract --------------------------
(***************************************************************************)
(* What a resource handler promises about the id it keeps in Terraform's   *)
(* state, whatever calls, tasks and failures it is made of:                *)
(*   - an id is recorded only if it names an object the service has        *)
(*     created for this instance and the handler has not taken back;       *)
(*   - a recorded id is given up only when its object no longer exists;    *)
(*   - an instance holds one id at a time.                                 *)
(***************************************************************************)
EXTENDS Naturals

CONSTANTS Objects, None

VARIABLES
  recorded,  \* the id in Terraform's state
  alive,     \* the objects that exist at the service
  offered    \* the object created for this instance and not yet recorded

vars == <<recorded, alive, offered>>

Init ==
  /\ recorded \in Objects \cup {None}
  /\ alive = {recorded} \ {None}
  /\ offered = {}

(* The service creates an object for the instance. *)
Offer(o) ==
  /\ recorded = None /\ offered = {} /\ o \notin alive
  /\ alive' = alive \cup {o} /\ offered' = {o}
  /\ UNCHANGED recorded

(* An object disappears, by a deletion or by somebody else's doing. *)
Vanish(o) ==
  /\ o \in alive /\ alive' = alive \ {o}
  /\ UNCHANGED <<recorded, offered>>

Record(o) ==
  /\ recorded = None /\ o \in offered
  /\ recorded' = o /\ offered' = {}
  /\ UNCHANGED alive

(* The creation is given up, with or without taking the object back. *)
Withdraw ==
  /\ offered # {} /\ offered' = {}
  /\ alive' \in {alive, alive \ offered}
  /\ UNCHANGED recorded

Forget ==
  /\ recorded # None /\ recorded \notin alive
  /\ recorded' = None
  /\ UNCHANGED <<alive, offered>>

Next ==
  \/ \E o \in Objects : Offer(o) \/ Vanish(o) \/ Record(o)
  \/ Withdraw \/ Forget

Spec == Init /\ [][Next]_vars
=============================================================================
