--------------------------- MODULE ResourceUpdate ---------------------------
(***************************************************************************)
(* The attributes of one existing object: what the configuration asks for, *)
(* what Terraform's state says and what the service has.                   *)
(*                                                                         *)
(* A run refreshes the state with the type's Read handler and, if state    *)
(* and configuration differ, calls the type's Update handler.  That is a   *)
(* sequence of calls; each is made if one of certain attributes has        *)
(* changed, sends some of the attributes, and ends the handler if it       *)
(* fails.  Table[kind] gives the calls of a type and the attributes its    *)
(* Read does not write (UpdateTable).                                      *)
(*                                                                         *)
(* A call may fail before, after or, if it stands for several requests, in *)
(* the middle of its work, and the provider may be killed at any of these  *)
(* points: MaxFailures bounds both.  MaxEdits bounds the edits of the      *)
(* configuration, each of at most MaxTogether attributes, MaxDrifts the    *)
(* changes made without Terraform.  A refresh that fails ends the run      *)
(* before it did anything and is left out.                                 *)
(***************************************************************************)
EXTENDS Naturals, Sequences, FiniteSets

CONSTANTS
  Kinds,       \* the resource types
  Table,       \* what the Read and Update handlers of each type do
  Values,      \* values the configuration can give an attribute; only
               \* those of an attribute that can but grow are compared
  Other,       \* any other value: what half of a change leaves, and what
               \* somebody else has let an attribute grow to
  Unnoticed,   \* the attributes (<<type, attribute>>) Read does not look at
  Missed,      \* those an update may leave without their new value
  Redone,      \* those a repeated update takes apart although they are right
  Growing,     \* those an update can only let grow
  MaxFailures,
  MaxDrifts,
  MaxEdits,
  MaxTogether

ASSUME TableAssumption ==
  \A k \in Kinds : /\ Len(Table[k].calls) \in Nat
                   /\ DOMAIN Table[k].calls = 1..Len(Table[k].calls)
ASSUME ValuesAssumption ==
  Values \subseteq Nat /\ Other \in Nat /\ \A v \in Values : Other > v
ASSUME UpdateBoundsAssumption ==
  /\ MaxFailures \in Nat /\ MaxDrifts \in Nat
  /\ MaxEdits \in Nat /\ MaxTogether \in Nat

VARIABLES
  kind,      \* the resource type of the object
  config,    \* its attributes in the configuration
  state,     \* ... in Terraform's state
  remote,    \* ... at the service
  pc,        \* where the run is
  next,      \* the first call of the handler not yet made or passed over
  failures, drifts, edits

counters == <<failures, drifts, edits>>
vars == <<kind, config, state, remote, pc, next, counters>>

Calls == Table[kind].calls
Attrs == DOMAIN config

AttrsOf(k) ==
  Table[k].unsent \cup
    UNION {DOMAIN Table[k].calls[i].sends : i \in DOMAIN Table[k].calls}

TypeOK ==
  /\ kind \in Kinds
  /\ config \in [AttrsOf(kind) -> Values]
  /\ state \in [AttrsOf(kind) -> Values \cup {Other}]
  /\ remote \in [AttrsOf(kind) -> Values \cup {Other}]
  /\ pc \in {"idle", "planned", "updating", "closing"}
  /\ next \in 1..(Len(Calls) + 1)
  /\ failures \in 0..MaxFailures
  /\ drifts \in 0..MaxDrifts
  /\ edits \in 0..MaxEdits

(***************************************************************************)
(* The object has just been created as configured.                         *)
(***************************************************************************)
Init ==
  /\ kind \in Kinds
  /\ \E v \in Values : config = [a \in AttrsOf(kind) |-> v]
  /\ state = config /\ remote = config
  /\ pc = "idle" /\ next = 1
  /\ failures = 0 /\ drifts = 0 /\ edits = 0

-----------------------------------------------------------------------------
(* d.HasChange: the plan of this update touches one of the attributes. *)
HasChange(A) == \E a \in A : state[a] # config[a]

(* An empty condition means always. *)
Made(c) == (c.when = {} \/ HasChange(c.when)) /\ ~HasChange(c.unless)
Sent(c) == {a \in DOMAIN c.sends : c.sends[a] = {} \/ HasChange(c.sends[a])}

(* What d.Set leaves in the state when Read has looked at the object. *)
ReadInto(s) == [a \in Attrs |-> IF a \in Table[kind].unread THEN s[a] ELSE remote[a]]

(* A call that only sends the difference between the state and the *)
(* configuration adds that difference to whatever the service has. *)
Value(c, a) ==
  IF a \in c.relative /\ remote[a] \notin {state[a], config[a]} THEN Other ELSE config[a]

With(A, v(_)) == [a \in Attrs |-> IF a \in A THEN v(a) ELSE remote[a]]
Done(c) == LET value(a) == Value(c, a) IN With(Sent(c), value)
Part(c) == LET value(a) == Other IN With(Sent(c), value)

(* Asked for no more than the service has of an attribute that can only    *)
(* grow, the handler gives up instead of making the call.  It looks at the *)
(* service when it starts; what has grown since, the service refuses.      *)
Refused(c) == \E a \in Sent(c) \cap c.grows : remote[a] >= config[a]

(* What a call that fails, or is cut off, may have done. *)
Remains(c) ==
  IF Refused(c) THEN {remote} ELSE {remote, Done(c)} \cup IF c.atomic THEN {} ELSE {Part(c)}

(* The next call the handler makes, if it makes another one. *)
Due(i) ==
  /\ pc = "updating" /\ i >= next /\ Made(Calls[i])
  /\ \A j \in next..(i - 1) : ~Made(Calls[j])

AllMade == pc = "updating" /\ \A j \in next..Len(Calls) : ~Made(Calls[j])

Back == pc' = "idle" /\ next' = 1
Failure == failures < MaxFailures /\ failures' = failures + 1 /\ UNCHANGED <<drifts, edits>>

-----------------------------------------------------------------------------
Refresh ==
  /\ pc = "idle"
  /\ pc' = "planned" /\ state' = ReadInto(state)
  /\ UNCHANGED <<kind, config, remote, next, counters>>

PlanNothing ==
  /\ pc = "planned" /\ state = config
  /\ Back
  /\ UNCHANGED <<kind, config, state, remote, counters>>

PlanUpdate ==
  /\ pc = "planned" /\ state # config
  /\ pc' = "updating" /\ next' = 1
  /\ UNCHANGED <<kind, config, state, remote, counters>>

CallDone(i) ==
  /\ Due(i) /\ ~Refused(Calls[i])
  /\ remote' = Done(Calls[i]) /\ next' = i + 1
  /\ UNCHANGED <<kind, config, state, pc, counters>>

(* The SDK records the planned values of an update that failed, but for *)
(* those the handler has set back.                                      *)
RecordPlanned ==
  state' = [a \in Attrs |-> IF a \in Table[kind].restored THEN state[a] ELSE config[a]]

CallRefused(i) ==
  /\ Due(i) /\ Refused(Calls[i])
  /\ RecordPlanned
  /\ Back
  /\ UNCHANGED <<kind, config, remote, counters>>

CallFails(i) ==
  /\ Due(i)
  /\ remote' \in Remains(Calls[i])
  /\ RecordPlanned
  /\ Back
  /\ UNCHANGED <<kind, config>> /\ Failure

(* A killed provider leaves the state as the refresh wrote it. *)
KilledIn(i) ==
  /\ Due(i)
  /\ remote' \in Remains(Calls[i])
  /\ Back
  /\ UNCHANGED <<kind, config, state>> /\ Failure

LastCallMade ==
  /\ AllMade
  /\ pc' = "closing"
  /\ UNCHANGED <<kind, config, state, remote, next, counters>>

(* The handler returns the planned values, overwritten by its own Read if *)
(* it ends with one.                                                      *)
Close ==
  /\ pc = "closing"
  /\ state' = IF Table[kind].readback THEN ReadInto(config) ELSE config
  /\ Back
  /\ UNCHANGED <<kind, config, remote, counters>>

CloseFails ==
  /\ pc = "closing" /\ Table[kind].readback
  /\ state' = config
  /\ Back
  /\ UNCHANGED <<kind, config, remote>> /\ Failure

(* The user gives some of the attributes new values. *)
Edit ==
  /\ pc = "idle" /\ edits < MaxEdits
  /\ \E A \in SUBSET Attrs :
       /\ Cardinality(A) \in 1..MaxTogether
       /\ \E new \in [A -> Values] :
            /\ \A a \in A : new[a] # config[a]
            /\ config' = [a \in Attrs |-> IF a \in A THEN new[a] ELSE config[a]]
  /\ edits' = edits + 1
  /\ UNCHANGED <<kind, state, remote, pc, next, failures, drifts>>

(* Somebody else gives an attribute of the object a value of their own. *)
Drift(a) ==
  /\ drifts < MaxDrifts
  /\ remote[a] # Other /\ remote' = [remote EXCEPT ![a] = Other]
  /\ drifts' = drifts + 1
  /\ UNCHANGED <<kind, config, state, pc, next, failures, edits>>

-----------------------------------------------------------------------------
Handler ==
  \/ PlanNothing \/ PlanUpdate
  \/ \E i \in DOMAIN Calls : CallDone(i) \/ CallRefused(i)
  \/ LastCallMade \/ Close

Next ==
  \/ Refresh \/ Handler
  \/ \E i \in DOMAIN Calls : CallFails(i) \/ KilledIn(i)
  \/ CloseFails
  \/ Edit
  \/ \E a \in Attrs : Drift(a)

Spec == Init /\ [][Next]_vars

(* Terraform is run again and again, and a handler that runs goes on. *)
FairSpec == Spec /\ WF_vars(Refresh) /\ WF_vars(Handler)

-----------------------------------------------------------------------------
Differs(a) == remote[a] # config[a]
Undisturbed == edits' = edits /\ drifts' = drifts

(* When the calls of an update have all succeeded, the service has the     *)
(* configured value of every attribute the update was about: whatever runs *)
(* failed before, as long as nobody else changes the object.               *)
UpdateArrives ==
  (pc = "closing" /\ drifts = 0) =>
    \A a \in Attrs : (state[a] # config[a] /\ Differs(a)) => <<kind, a>> \in Missed

(* A call made of several requests sends the attribute only if that has    *)
(* changed, no other call sends it, and Read looks at it.                  *)
Steady(k, a) ==
  \A i \in DOMAIN Table[k].calls :
    LET c == Table[k].calls[i]
    IN  a \in DOMAIN c.sends /\ ~c.atomic =>
          /\ c.when = {a} \/ c.sends[a] = {a}
          /\ \A j \in DOMAIN Table[k].calls \ {i} : a \notin DOMAIN Table[k].calls[j].sends
          /\ a \notin Table[k].unread

(* A run that was killed or failed is repeated; the repetition never       *)
(* breaks an attribute that is already as configured.                      *)
RepeatIsSafe ==
  [][(drifts = 0 /\ Undisturbed) =>
       \A a \in Attrs : (~Differs(a) /\ remote'[a] # config[a]) => <<kind, a>> \in Redone]_vars

(* If only attributes that Read does not look at differ from the           *)
(* configuration, and the state does not say so, no run ever notices: it   *)
(* stays like that until somebody edits the configuration or the object.   *)
Silent ==
  /\ pc \in {"idle", "planned"} /\ state = config
  /\ \E a \in Attrs : Differs(a)
  /\ \A a \in Attrs : Differs(a) => <<kind, a>> \in Unnoticed
SilenceLasts == [][(Silent /\ Undisturbed) => (Silent' /\ remote' = remote)]_vars

(* The call that sends an attribute that can only grow, and what it or a *)
(* later call sends and no call before it.                               *)
Sender(a) == {i \in DOMAIN Calls : a \in DOMAIN Calls[i].sends}
Later(a) ==
  {b \in Attrs : \A i \in Sender(a), j \in DOMAIN Calls :
                   b \in DOMAIN Calls[j].sends => j >= i}

(* The service has more of it than is configured, because somebody let it  *)
(* grow or the configuration was lowered, and the run in hand is not past  *)
(* the call that sends it, nor going to pass it over.                      *)
Barred(a) ==
  /\ <<kind, a>> \in Growing
  /\ remote[a] > config[a]
  /\ pc = "idle" \/ (pc \in {"planned", "updating"} /\ state[a] # config[a])
  /\ \A i \in Sender(a) : next <= i

(* Then neither it nor what the handler would send after it is ever sent, *)
(* by any number of runs: each ends at that call.                         *)
GrownStaysBarred ==
  [][\A a \in Attrs : (Barred(a) /\ Undisturbed) =>
       Barred(a)' /\ \A b \in Later(a) : remote'[b] = remote[b]]_vars
=============================================================================
