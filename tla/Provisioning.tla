---------------------------- MODULE Provisioning ----------------------------
(***************************************************************************)
(* scripts/provision_solace.py: runs of the script against one broker.     *)
(*                                                                         *)
(* A run walks through a fixed plan of broker objects.  For each one it    *)
(* sends a GET, and a POST when the answer is that there is no such        *)
(* object.  Broker and script only meet in these two requests: each is one *)
(* step here.  Several runs may be under way at once (the init job of the  *)
(* chart, docker compose, make provision, validate_pipeline.py), any of    *)
(* them may be cut off, and the init job starts a failed run again, until  *)
(* it has used up its retries.                                             *)
(***************************************************************************)
EXTENDS Topology, FiniteSets

CONSTANTS
    Runs,               \* runs of the script
    Jobs,               \* those that are started again when they fail
    BackoffLimit,       \* how often: backoffLimit of the chart's Job
    MaxFaults           \* bound: requests that fail, and runs cut off

ASSUME ProvisioningAssumption ==
    /\ Jobs \subseteq Runs
    /\ BackoffLimit \in Nat
    /\ MaxFaults \in Nat

-----------------------------------------------------------------------------
(* The plan *)

Queue(name) == [kind |-> "queue", of |-> name, topic |-> << >>]

Subscription(name, topic) == [kind |-> "subscription", of |-> name, topic |-> topic]

AclProfile == [kind |-> "acl profile", of |-> "stripe-bridge-acl", topic |-> << >>]

TopicException ==
    [kind |-> "topic exception", of |-> "stripe-bridge-acl", topic |-> Root \o <<">">>]

ClientProfile ==
    [kind |-> "client profile", of |-> "stripe-bridge-client-profile", topic |-> << >>]

(* Each queue, followed by its subscriptions. *)
QueuePlan ==
    LET plan[n \in 0..Len(QUEUE_DEFINITIONS)] ==
          IF n = 0 THEN << >>
          ELSE LET d == QUEUE_DEFINITIONS[n]
               IN  plan[n - 1] \o <<Queue(d.name)>>
                     \o [i \in DOMAIN d.subscriptions |->
                            Subscription(d.name, d.subscriptions[i])]
    IN  plan[Len(QUEUE_DEFINITIONS)]

WrongPlan ==                    \* seeded fault: the exception before its profile
    QueuePlan \o << TopicException, AclProfile, ClientProfile >>

(* main() *)
Plan == QueuePlan \o << AclProfile, TopicException, ClientProfile >>

Steps == 1..Len(Plan)
Objects == {Plan[i] : i \in Steps}

(* What the broker wants to be there before it creates o. *)
Parents(o) ==
    CASE o.kind = "subscription" -> {Queue(o.of)}
      [] o.kind = "topic exception" -> {AclProfile}
      [] OTHER -> {}

-----------------------------------------------------------------------------
VARIABLES
    objects,            \* what the broker has
    phase,              \* where a run is
    step,               \* the object of the plan it is at
    failures,           \* exits of a run with a status other than 0
    refused,            \* history: refusals of a POST, by reason
    faults              \* counts up to MaxFaults

vars == <<objects, phase, step, failures, refused, faults>>

Phases == {"idle", "get", "post", "succeeded", "failed"}

(* Earlier runs have come this far, with or without the topic exception. *)
LeftBy(n) == {Plan[i] : i \in 1..n}

Init ==
    /\ \E n \in 0..Len(Plan) : objects \in {LeftBy(n), LeftBy(n) \ {TopicException}}
    /\ phase = [r \in Runs |-> "idle"]
    /\ step = [r \in Runs |-> 1]
    /\ failures = [r \in Runs |-> 0]
    /\ refused = {}
    /\ faults = 0

At(r) == Plan[step[r]]

Fault == faults < MaxFaults /\ faults' = faults + 1

Fail(r) ==
    /\ phase' = [phase EXCEPT ![r] = "failed"]
    /\ failures' = [failures EXCEPT ![r] = @ + 1]

WrongProceedPastEnd(r) ==       \* seeded fault: off by one at the end of the plan
    IF step[r] <= Len(Plan)
    THEN /\ step' = [step EXCEPT ![r] = @ + 1]
         /\ phase' = [phase EXCEPT ![r] = "get"]
    ELSE /\ phase' = [phase EXCEPT ![r] = "succeeded"]
         /\ UNCHANGED step

(* The next object of the plan, or the summary and exit status 0. *)
Proceed(r) ==
    IF step[r] < Len(Plan)
    THEN /\ step' = [step EXCEPT ![r] = @ + 1]
         /\ phase' = [phase EXCEPT ![r] = "get"]
    ELSE /\ phase' = [phase EXCEPT ![r] = "succeeded"]
         /\ UNCHANGED step

(* A run starts from the beginning, whatever an earlier one got done. *)
Launch(r) ==
    /\ phase[r] \in {"idle", "failed"}
    /\ phase' = [phase EXCEPT ![r] = "get"]
    /\ step' = [step EXCEPT ![r] = 1]
    /\ UNCHANGED <<objects, failures, refused, faults>>

GivenUp(r) == phase[r] = "failed" /\ failures[r] > BackoffLimit

(* restartPolicy: OnFailure, up to the limit.  The chart sets none, which  *)
(* makes it 6; the container of docker compose knows no limit.             *)
Start(r) == r \in Jobs /\ ~GivenUp(r) /\ Launch(r)

WrongGetFound(r) ==             \* seeded fault: what is there already is an error
    /\ phase[r] = "get"
    /\ At(r) \in objects
    /\ Fail(r)
    /\ UNCHANGED <<objects, step, refused, faults>>

GetFound(r) ==
    /\ phase[r] = "get"
    /\ At(r) \in objects
    /\ Proceed(r)
    /\ UNCHANGED <<objects, failures, refused, faults>>

WrongGetNotFound(r) ==          \* seeded fault: an absent object is passed over
    /\ phase[r] = "get"
    /\ At(r) \notin objects
    /\ Proceed(r)
    /\ UNCHANGED <<objects, failures, refused, faults>>

GetNotFound(r) ==
    /\ phase[r] = "get"
    /\ At(r) \notin objects
    /\ phase' = [phase EXCEPT ![r] = "post"]
    /\ UNCHANGED <<objects, step, failures, refused, faults>>

(* Any other status: raise_for_status() ends the run... *)
GetFails(r) ==
    /\ phase[r] = "get"
    /\ At(r) # TopicException
    /\ Fault
    /\ Fail(r)
    /\ UNCHANGED <<objects, step, refused>>

(* ... save for the topic exception, whose answer is only compared with    *)
(* "not found"; a request that gets no answer at all ends this run as well. *)
TopicCheckFails(r) ==
    /\ phase[r] = "get"
    /\ At(r) = TopicException
    /\ Fault
    /\ \/ Proceed(r) /\ UNCHANGED failures
       \/ Fail(r) /\ UNCHANGED step
    /\ UNCHANGED <<objects, refused>>

Post(r) ==
    /\ phase[r] = "post"
    /\ At(r) \notin objects
    /\ Parents(At(r)) \subseteq objects
    /\ objects' = objects \cup {At(r)}
    /\ Proceed(r)
    /\ UNCHANGED <<failures, refused, faults>>

WrongPostRefused(r) ==          \* seeded fault: a refused POST is sent again
    /\ phase[r] = "post"
    /\ At(r) \in objects \/ ~(Parents(At(r)) \subseteq objects)
    /\ UNCHANGED vars

(* The broker refuses what it has, or what has no parent: raise_for_status(). *)
PostRefused(r) ==
    /\ phase[r] = "post"
    /\ \/ /\ At(r) \in objects
          /\ refused' = refused \cup {"exists"}
       \/ /\ ~(Parents(At(r)) \subseteq objects)
          /\ refused' = refused \cup {"no parent"}
    /\ Fail(r)
    /\ UNCHANGED <<objects, step, faults>>

(* No answer, or an error: the broker may have created the object. *)
PostFails(r) ==
    /\ phase[r] = "post"
    /\ Fault
    /\ \/ UNCHANGED objects
       \/ Parents(At(r)) \subseteq objects /\ objects' = objects \cup {At(r)}
    /\ Fail(r)
    /\ UNCHANGED <<step, refused>>

(* The process is killed, its request in flight or not. *)
Killed(r) ==
    /\ phase[r] \in {"get", "post"}
    /\ Fault
    /\ \/ UNCHANGED objects
       \/ /\ phase[r] = "post" /\ Parents(At(r)) \subseteq objects
          /\ objects' = objects \cup {At(r)}
    /\ Fail(r)
    /\ UNCHANGED <<step, refused>>

RunStep(r) ==
    \/ Start(r)
    \/ GetFound(r) \/ GetNotFound(r) \/ GetFails(r) \/ TopicCheckFails(r)
    \/ Post(r) \/ PostRefused(r) \/ PostFails(r)

Next == \E r \in Runs : RunStep(r) \/ Killed(r)

(* Requests are answered or time out, and a failed job is started again    *)
(* while it has retries left.                                              *)
Fairness == \A r \in Runs : WF_vars(RunStep(r))

Spec == Init /\ [][Next]_vars

FairSpec == Spec /\ Fairness

-----------------------------------------------------------------------------
(* Properties *)

TypeOK ==
    /\ objects \subseteq Objects
    /\ phase \in [Runs -> Phases]
    /\ step \in [Runs -> Steps]
    /\ failures \in [Runs -> Nat]
    /\ refused \subseteq {"exists", "no parent"}
    /\ faults \in 0..MaxFaults

(* A run that exits with status 0 leaves every queue, subscription and     *)
(* profile in place, whatever runs went before it, beside it, or died half *)
(* way: nothing it has passed over is missing, save the topic exception,   *)
(* whose check it does not take seriously.                                 *)
SuccessMeansProvisioned ==
    \A r \in Runs : phase[r] = "succeeded" => Objects \ {TopicException} \subseteq objects

(* ensure_acl_profile: "Ensure ACL profile exists and grants publish to    *)
(* target topic hierarchy."                                                *)
SuccessMeansGranted ==
    \A r \in Runs : phase[r] = "succeeded" => TopicException \in objects

(* No object is sent to the broker before the one it belongs to is there,  *)
(* after whatever interruption and restart.                                *)
ParentsComeFirst == "no parent" \notin refused

(* Starting again always helps: a run fails once for each fault, and once  *)
(* for each object another run creates between its GET and its POST, and   *)
(* never twice over the same object.  So a job that may be restarted as    *)
(* often as there are objects and faults is never given up.                *)
FailuresAreExplained ==
    \A r \in Runs : failures[r] <= faults + Cardinality(objects)

(* Every job comes to an end, those that lost a race or were cut off half  *)
(* way included: it succeeds, or fails once more often than it may be      *)
(* restarted.                                                              *)
EveryJobSettles ==
    \A r \in Jobs : <>(phase[r] = "succeeded" \/ GivenUp(r))

=============================================================================
