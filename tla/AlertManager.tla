---------------------------- MODULE AlertManager ----------------------------
(***************************************************************************)
(* The alert table of src/alert/AlertManager.cpp with the thresholds of    *)
(* src/alert/AlertEvaluator.cpp.  update() runs wholly under mutex_ and    *)
(* reads the steady clock there, so a call is one action; time passes      *)
(* between calls.                                                          *)
(*                                                                         *)
(* A sample is abstracted to where each metric lies relative to its        *)
(* threshold, and a time point to the whole seconds passed since, counted  *)
(* up to FireDuration: beyond it update() no longer tells them apart.      *)
(***************************************************************************)
EXTENDS Naturals

CONSTANTS Hosts,         \* hostnames
          Metrics,       \* "cpu", "memory", "disk"
          FireDuration   \* fireDuration_, in seconds

ASSUME AlertAssumption == FireDuration \in Nat

VARIABLES state,   \* alerts_[key].state, "Absent" when there is no entry
          age,     \* seconds since alerts_[key].firstDetected
          fired,   \* the alerts the last update() returned
          breached \* history: what reached its threshold in each host's last sample

vars == <<state, age, fired, breached>>

Keys == Hosts \X Metrics
States == {"Absent", "Pending", "Firing", "Normal"}
Levels == {"below", "at", "above"}
Samples == [Metrics -> Levels]

-----------------------------------------------------------------------------
(* Mutants.  No behaviour of the code: each is the definition it is named  *)
(* after with one plausible slip, and makes one property below fail.       *)

(* firstDetected renewed by every alert: the delay never ends.             *)
MutantDetectedRenewed(k) == IF state[k] = "Absent" THEN "Pending" ELSE state[k]

(* update() without its second loop: nothing is ever resolved.             *)
MutantUndetectedNever(k) == state[k]

(* Compared with >.                                                        *)
MutantEvaluateAbove(sample) == {m \in Metrics : sample[m] = "above"}

-----------------------------------------------------------------------------
(* evaluate() compares with >=: a metric raises an alert from its          *)
(* threshold upwards.                                                      *)
Evaluate(sample) == {m \in Metrics : sample[m] \in {"at", "above"}}

Init ==
  /\ state = [k \in Keys |-> "Absent"]
  /\ age = [k \in Keys |-> 0]
  /\ fired = {}
  /\ breached = [h \in Hosts |-> {}]

(* First loop of update(): an alert of the sample creates a pending entry, *)
(* or fires an old enough one; firstDetected is set on creation only.      *)
Detected(k) ==
  IF state[k] = "Absent" THEN "Pending"
  ELSE IF age[k] >= FireDuration THEN "Firing"
  ELSE state[k]

(* Second loop, over the whole table: an entry whose key this sample did   *)
(* not raise stops firing.                                                 *)
Undetected(k) == IF state[k] = "Firing" THEN "Normal" ELSE state[k]

Raised(h, sample) == {h} \X Evaluate(sample)

(* hostname and metric mixed up in the result.                             *)
MutantReturnedSwapped(h, sample) ==
  {<<k[2], k[1]>> : k \in {j \in Raised(h, sample) : Detected(j) = "Firing"}}

(* What update() returns: the alerts it just made fire.                    *)
Returned(h, sample) ==
  {k \in Raised(h, sample) : state[k] # "Firing" /\ Detected(k) = "Firing"}

Update(h, sample) ==
  /\ LET raised == Raised(h, sample)
     IN  state' = [k \in Keys |-> IF k \in raised
                                  THEN Detected(k) ELSE Undetected(k)]
  /\ fired' = Returned(h, sample)
  /\ breached' = [breached EXCEPT ![h] = {m \in Metrics : sample[m] # "below"}]
  /\ UNCHANGED age

(* The steady clock: entries grow older, new ones start at zero.           *)
Tick ==
  /\ age' = [k \in Keys |-> IF state[k] # "Absent" /\ age[k] < FireDuration
                            THEN age[k] + 1 ELSE age[k]]
  /\ fired' = {}
  /\ UNCHANGED <<state, breached>>

(* getActiveAlerts(), what GET /api/alerts prints.                         *)
Active == {k \in Keys : state[k] \notin {"Absent", "Normal"}}

Next ==
  \/ \E h \in Hosts, sample \in Samples : Update(h, sample)
  \/ Tick

Spec == Init /\ [][Next]_vars

(* Time passes, and every agent keeps sending.                             *)
FairSpec ==
  /\ Spec
  /\ WF_vars(Tick)
  /\ \A h \in Hosts : WF_vars(\E sample \in Samples : Update(h, sample))

-----------------------------------------------------------------------------
Breached(k) == k[2] \in breached[k[1]]

TypeOK ==
  /\ state \in [Keys -> States]
  /\ age \in [Keys -> 0 .. FireDuration]
  /\ fired \subseteq Keys
  /\ breached \in [Hosts -> SUBSET Metrics]

(* No phantom alert: what fires is breached by the last sample of its own  *)
(* host, whatever other hosts sent since (AlertManager.cpp:262-319), and   *)
(* was first seen fire_duration ago or more (:231-238).                    *)
FiringIsBreached ==
  \A k \in Keys : state[k] = "Firing" => Breached(k) /\ age[k] = FireDuration

(* "Alert resolved: <host> <metric>" (AlertManager.cpp:297-313): an alert  *)
(* is resolved by a sample of its own host in which the metric is back     *)
(* below its threshold.                                                    *)
ResolvedMeansBelow ==
  [][\A k \in Keys : state[k] = "Firing" /\ state'[k] = "Normal"
       => ~Breached(k)']_vars

(* firstDetected is set when the entry is created and never renewed        *)
(* (AlertManager.cpp:179): the delay protects an alert's first firing      *)
(* only, a resolved one fires again with the first breaching sample.       *)
DelayOnlyOnce ==
  [][\A k \in Keys : state[k] = "Normal" /\ state'[k] # "Normal"
       => state'[k] = "Firing" /\ Breached(k)']_vars

(* A host whose samples stay at or above a threshold gets its alert, even  *)
(* while other hosts' samples keep resolving it.                           *)
SustainedBreachFires ==
  \A k \in Keys : Breached(k) ~> (~Breached(k) \/ state[k] = "Firing")

=============================================================================
