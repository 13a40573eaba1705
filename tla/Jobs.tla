-------------------------------- MODULE Jobs --------------------------------
(***************************************************************************)
(* The stress jobs target-exporter keeps in the Kubernetes API: the         *)
(* requests that create them (POST /workloads, POST /job-scenario), the     *)
(* goroutine that starts suspended ones at their date (CheckStartJobs), and *)
(* the requests that delete them (DELETE /workloads/completed and           *)
(* /workloads/pending/last).                                                *)
(*                                                                         *)
(* Every call of the API is one step: it sees or changes the cluster as it  *)
(* is then, and what it returned may be stale at the next.  The API lists   *)
(* jobs by name.  Names are numbers, in the order of the list.              *)
(*                                                                         *)
(* External: a job that is not suspended gets a pod, which may run and      *)
(* succeed.  After a pod that fails (restartPolicy Never) the job gets      *)
(* another one, or fails after a number of them that is left open (the      *)
(* backoffLimit is 4), or past its deadline.  A failed pod stays, but none  *)
(* of this code looks at one, and they are not kept.  Deleting a completed  *)
(* job orphans its pods (the default of the API for batch/v1); deleting a   *)
(* pending one, with foreground propagation, deletes its pods too.          *)
(***************************************************************************)
EXTENDS Naturals, Sequences, FiniteSets, FiniteSetsExt

CONSTANTS
  Posters,                 \* goroutines serving the POST requests
  Cleaners,                \* goroutines serving the DELETE requests
  Pickers,                 \* bound: those that may serve DELETE pending
  Names,                   \* job names, of a scenario or generated
  Payloads,                \* the scenarios posted: sequences of Item
  MaxClock,                \* bound: the last tick of the clock
  MaxJobs                  \* bound: jobs ever created

ASSUME JobsAssumption ==
  /\ Pickers \subseteq Cleaners
  /\ Names \subseteq Nat \ {0}
  /\ IsFiniteSet(Names)
  /\ MaxClock \in Nat
  /\ MaxJobs \in Nat
  /\ Payloads \subseteq Seq([name : Names, start : Nat])

Uids == 1..MaxJobs
Item == [name : Names, start : Nat]

None == [uid |-> 0]

(* start is the date in the annotation, 0 if there is none.                 *)
Job == [uid : Uids, created : 0..MaxClock, suspend : BOOLEAN,
        start : Nat, status : {"open", "succeeded", "failed"}]

VARIABLES
  now,
  jobs,                    \* the API's jobs, by name
  pods,                    \* the latest pod of each job ever created, by the job's uid
  born,                    \* jobs created so far
  sstep, entries, last, got,   \* CheckStartJobs
  adding, left,            \* per poster: is a request served, and its items left
  cstep, listed, todo      \* per cleaner: control, what it listed, what is left

apiVars == <<jobs, pods, born>>
starterVars == <<sstep, entries, last, got>>
posterVars == <<adding, left>>
cleanerVars == <<cstep, listed, todo>>
vars == <<now, apiVars, starterVars, posterVars, cleanerVars>>

PodPhases == {"none", "Pending", "Running", "Succeeded", "gone"}

Init ==
  /\ now = 0
  /\ jobs = [n \in Names |-> None]
  /\ pods = [u \in Uids |-> "none"]
  /\ born = 0
  /\ sstep = "list"
  /\ entries = 0
  /\ last = [name |-> 0, job |-> None]
  /\ got = None
  /\ left = [p \in Posters |-> <<>>]
  /\ adding = [p \in Posters |-> FALSE]
  /\ cstep = [c \in Cleaners |-> "idle"]
  /\ listed = [c \in Cleaners |-> {}]
  /\ todo = [c \in Cleaners |-> {}]

Tick ==
  /\ now < MaxClock
  /\ now' = now + 1
  /\ UNCHANGED <<apiVars, starterVars, posterVars, cleanerVars>>

-----------------------------------------------------------------------------
(* The cluster. *)

Existing == {n \in Names : jobs[n] # None}

Suspended == {n \in Existing : jobs[n].suspend}

PodStarts(n) ==
  /\ n \in Existing \ Suspended
  /\ jobs[n].status = "open"
  /\ pods[jobs[n].uid] = "none"
  /\ pods' = [pods EXCEPT ![jobs[n].uid] = "Pending"]
  /\ UNCHANGED <<now, jobs, born, starterVars, posterVars, cleanerVars>>

PodRuns(u) ==
  /\ pods[u] = "Pending"
  /\ pods' = [pods EXCEPT ![u] = "Running"]
  /\ UNCHANGED <<now, jobs, born, starterVars, posterVars, cleanerVars>>

(* The status of the pod's job, if it has one, follows at once. *)
PodSucceeds(u) ==
  /\ pods[u] = "Running"
  /\ pods' = [pods EXCEPT ![u] = "Succeeded"]
  /\ jobs' = [n \in Names |-> IF jobs[n].uid = u
                              THEN [jobs[n] EXCEPT !.status = "succeeded"]
                              ELSE jobs[n]]
  /\ UNCHANGED <<now, born, starterVars, posterVars, cleanerVars>>

(* Another pod may follow the one that failed. *)
PodFails(u) ==
  /\ pods[u] = "Running"
  /\ pods' = [pods EXCEPT ![u] = "none"]
  /\ UNCHANGED <<now, jobs, born, starterVars, posterVars, cleanerVars>>

(* Too many pods have failed, or activeDeadlineSeconds have passed: its     *)
(* current pod is deleted and the job has failed.                           *)
JobFails(n) ==
  /\ n \in Existing \ Suspended
  /\ jobs[n].status = "open"
  /\ jobs' = [jobs EXCEPT ![n].status = "failed"]
  /\ pods' = [pods EXCEPT ![jobs[n].uid] = "gone"]
  /\ UNCHANGED <<now, born, starterVars, posterVars, cleanerVars>>

Cluster ==
  \/ \E n \in Names : PodStarts(n) \/ JobFails(n)
  \/ \E u \in Uids : PodRuns(u) \/ PodSucceeds(u) \/ PodFails(u)

-----------------------------------------------------------------------------
(* Creating jobs. *)

PostScenario(p, payload) ==
  /\ ~adding[p]
  /\ left' = [left EXCEPT ![p] = payload]
  /\ adding' = [adding EXCEPT ![p] = TRUE]
  /\ UNCHANGED <<now, apiVars, starterVars, cleanerVars>>

(* POST /workloads: one job without a start date, under a generated name.   *)
PostWorkload(p, n) ==
  /\ n \notin Existing
  /\ PostScenario(p, <<[name |-> n, start |-> 0]>>)

(* RenderK8sJob: a start date in the future suspends the job. *)
Rendered(item) ==
  [uid |-> born + 1, created |-> now, suspend |-> item.start > now,
   start |-> IF item.start > now THEN item.start ELSE 0, status |-> "open"]

Create(item) ==
  /\ item.name \notin Existing
  /\ born < MaxJobs
  /\ jobs' = [jobs EXCEPT ![item.name] = Rendered(item)]
  /\ born' = born + 1

AddWorkload(p) ==
  /\ adding[p]
  /\ left[p] # <<>>
  /\ Create(Head(left[p]))
  /\ left' = [left EXCEPT ![p] = Tail(@)]
  /\ UNCHANGED <<now, pods, starterVars, adding, cleanerVars>>

(* The name exists, or a call before the creation failed. *)
AddFails(p) ==
  /\ adding[p]
  /\ left[p] # <<>>
  /\ adding' = [adding EXCEPT ![p] = FALSE]
  /\ left' = [left EXCEPT ![p] = <<>>]
  /\ UNCHANGED <<now, apiVars, starterVars, cleanerVars>>

(* The job is created and the API's reply lost. *)
ReplyLost(p) ==
  /\ adding[p]
  /\ left[p] # <<>>
  /\ Create(Head(left[p]))
  /\ adding' = [adding EXCEPT ![p] = FALSE]
  /\ left' = [left EXCEPT ![p] = <<>>]
  /\ UNCHANGED <<now, pods, starterVars, cleanerVars>>

Added(p) ==
  /\ adding[p]
  /\ left[p] = <<>>
  /\ adding' = [adding EXCEPT ![p] = FALSE]
  /\ UNCHANGED <<now, apiVars, starterVars, left, cleanerVars>>

PosterStep(p) ==
  \/ \E payload \in Payloads : PostScenario(p, payload)
  \/ \E n \in Names : PostWorkload(p, n)
  \/ AddWorkload(p)
  \/ AddFails(p)
  \/ ReplyLost(p)
  \/ Added(p)

-----------------------------------------------------------------------------
(* CheckStartJobs. *)

(* GetSuspendedJobs: one entry per suspended job, and every entry points at *)
(* the loop variable, which ends up as the last job of the list, suspended  *)
(* or not.  (A list that fails is one without entries.)                     *)
ListSuspended ==
  /\ sstep = "list"
  /\ Suspended # {}
  /\ entries' = Cardinality(Suspended)
  /\ last' = [name |-> Max(Existing), job |-> jobs[Max(Existing)]]
  /\ sstep' = "check"
  /\ UNCHANGED <<now, apiVars, got, posterVars, cleanerVars>>

(* Mutant of NextEntry: one entry too many. *)
OneMoreEntry ==
  /\ entries' = entries - 1
  /\ sstep' = IF entries = 0 THEN "list" ELSE "check"
  /\ last' = IF entries = 0 THEN [name |-> 0, job |-> None] ELSE last
  /\ got' = None

(* The next entry, or a sleep and the next list. *)
NextEntry ==
  /\ entries' = entries - 1
  /\ sstep' = IF entries = 1 THEN "list" ELSE "check"
  /\ last' = IF entries = 1 THEN [name |-> 0, job |-> None] ELSE last
  /\ got' = None

(* Mutant of Due: the date is not looked at. *)
Dated(job) == job.start > 0

(* Mutant of Due: the comparison is turned round. *)
NotYetDue(job) == job.start > now

Due(job) == job.start > 0 /\ job.start < now

NotDue ==
  /\ sstep = "check"
  /\ ~Due(last.job)
  /\ NextEntry
  /\ UNCHANGED <<now, apiVars, posterVars, cleanerVars>>

IsDue ==
  /\ sstep = "check"
  /\ Due(last.job)
  /\ sstep' = "get"
  /\ UNCHANGED <<now, apiVars, entries, last, got, posterVars, cleanerVars>>

(* StartSuspendedJob: get the job of that name, *)
GetJob ==
  /\ sstep = "get"
  /\ last.name \in Existing
  /\ got' = jobs[last.name]
  /\ sstep' = "update"
  /\ UNCHANGED <<now, apiVars, entries, last, posterVars, cleanerVars>>

(* and update it; the API refuses if it is no longer what was read. *)
UpdateJob ==
  /\ sstep = "update"
  /\ jobs[last.name] = got
  /\ jobs' = [jobs EXCEPT ![last.name].suspend = FALSE]
  /\ NextEntry
  /\ UNCHANGED <<now, pods, born, posterVars, cleanerVars>>

(* Not found, a conflict, or no connection: logged. *)
StartFails ==
  /\ sstep \in {"get", "update"}
  /\ NextEntry
  /\ UNCHANGED <<now, apiVars, posterVars, cleanerVars>>

StarterStep == ListSuspended \/ NotDue \/ IsDue \/ GetJob \/ UpdateJob \/ StartFails

-----------------------------------------------------------------------------
(* Deleting jobs.  What a request listed is kept by name, with the uid for  *)
(* the properties; an entry with name 0 is a pod.                           *)

Entry(n) == [name |-> n, uid |-> jobs[n].uid, created |-> jobs[n].created]

PodEntry(u) == [name |-> 0, uid |-> u, created |-> 0]

Gone(n) == jobs' = [jobs EXCEPT ![n] = None]

Answer(c) ==
  /\ cstep' = [cstep EXCEPT ![c] = "idle"]
  /\ todo' = [todo EXCEPT ![c] = {}]
  /\ listed' = [listed EXCEPT ![c] = {}]

Goto(c, from, to, entriesLeft) ==
  /\ cstep[c] = from
  /\ cstep' = [cstep EXCEPT ![c] = to]
  /\ todo' = [todo EXCEPT ![c] = entriesLeft]

Completed(n) == jobs[n].status = "succeeded"

(* ClearCompletedWorkloads: list the jobs, *)
ListCompleted(c) ==
  LET completed == {Entry(n) : n \in {m \in Existing : Completed(m)}}
  IN  /\ Goto(c, "idle", "deleteJobs", completed)
      /\ listed' = [listed EXCEPT ![c] = completed]
      /\ UNCHANGED <<now, apiVars, starterVars, posterVars>>

First(c) == CHOOSE x \in todo[c] : \A y \in todo[c] : x.name <= y.name

(* delete the completed ones in turn, by name, *)
DeleteCompleted(c) ==
  /\ todo[c] # {}
  /\ First(c).name \in Existing
  /\ Gone(First(c).name)
  /\ Goto(c, "deleteJobs", "deleteJobs", todo[c] \ {First(c)})
  /\ UNCHANGED <<now, pods, born, starterVars, posterVars, listed>>

(* list the pods, *)
ListSucceededPods(c) ==
  LET succeeded == {PodEntry(u) : u \in {v \in Uids : pods[v] = "Succeeded"}}
  IN  /\ todo[c] = {}
      /\ Goto(c, "deleteJobs", "deletePods", succeeded)
      /\ listed' = [listed EXCEPT ![c] = @ \cup succeeded]
      /\ UNCHANGED <<now, apiVars, starterVars, posterVars>>

(* delete the completed ones, *)
DeletePod(c, x) ==
  /\ x \in todo[c]
  /\ pods[x.uid] # "gone"
  /\ pods' = [pods EXCEPT ![x.uid] = "gone"]
  /\ Goto(c, "deletePods", "deletePods", todo[c] \ {x})
  /\ UNCHANGED <<now, jobs, born, starterVars, posterVars, listed>>

(* and answer: "success" if a pod was deleted.  (Answers leave no state.)    *)
Cleared(c) ==
  /\ cstep[c] = "deletePods"
  /\ todo[c] = {}
  /\ Answer(c)
  /\ UNCHANGED <<now, apiVars, starterVars, posterVars>>

(* DeletePendingWorkload: list the jobs that have not succeeded  *)
(* (if there are none, the request is answered and nothing changes),        *)
ListCandidates(c) ==
  LET candidates == {Entry(n) : n \in {m \in Existing : ~Completed(m)}}
  IN  /\ c \in Pickers
      /\ candidates # {}
      /\ Goto(c, "idle", "pendingPods", candidates)
      /\ listed' = [listed EXCEPT ![c] = {}]
      /\ UNCHANGED <<now, apiVars, starterVars, posterVars>>

(* Mutant of HasPendingPod: the owner of the pending pod is not looked at.  *)
AnyPendingPod(n) == \E m \in Existing : pods[jobs[m].uid] = "Pending"

(* A pending pod has an owner of that name. *)
HasPendingPod(n) == n \in Existing /\ pods[jobs[n].uid] = "Pending"

(* list the pending pods and take the oldest candidate that owns one, *)
ListPendingPods(c) ==
  LET owners == {x \in todo[c] : HasPendingPod(x.name)}
  IN  /\ \E x \in owners :
           /\ \A y \in owners : x.created <= y.created
           /\ Goto(c, "pendingPods", "deletePending", {x})
      /\ UNCHANGED <<now, apiVars, starterVars, posterVars, listed>>

NonePending(c) ==
  /\ cstep[c] = "pendingPods"
  /\ \A x \in todo[c] : ~HasPendingPod(x.name)
  /\ Answer(c)
  /\ UNCHANGED <<now, apiVars, starterVars, posterVars>>

(* and delete it by name. *)
DeletePending(c) ==
  /\ cstep[c] = "deletePending"
  /\ First(c).name \in Existing
  /\ Gone(First(c).name)
  /\ pods' = [pods EXCEPT ![jobs[First(c).name].uid] = "gone"]
  /\ Answer(c)
  /\ UNCHANGED <<now, born, starterVars, posterVars>>

(* Mutant of ClearFails: a deletion that fails is passed over. *)
CarryOn(c) ==
  /\ cstep[c] = "deleteJobs"
  /\ todo[c] # {}
  /\ Goto(c, "deleteJobs", "deleteJobs", todo[c] \ {First(c)})
  /\ UNCHANGED <<now, apiVars, starterVars, posterVars, listed>>

(* A call of ClearCompletedWorkloads failed, perhaps because another        *)
(* request had deleted the job or the pod first: the error is returned.     *)
ClearFails(c) ==
  /\ cstep[c] \in {"deleteJobs", "deletePods"}
  /\ Answer(c)
  /\ UNCHANGED <<now, apiVars, starterVars, posterVars>>

(* The same of DeletePendingWorkload. *)
PendingFails(c) ==
  /\ cstep[c] \in {"pendingPods", "deletePending"}
  /\ Answer(c)
  /\ UNCHANGED <<now, apiVars, starterVars, posterVars>>

CleanerStep(c) ==
  \/ ListCompleted(c)
  \/ DeleteCompleted(c)
  \/ ListSucceededPods(c)
  \/ \E x \in todo[c] : DeletePod(c, x)
  \/ Cleared(c)
  \/ ListCandidates(c)
  \/ ListPendingPods(c)
  \/ NonePending(c)
  \/ DeletePending(c)
  \/ ClearFails(c)
  \/ PendingFails(c)

-----------------------------------------------------------------------------
Next ==
  \/ Tick
  \/ Cluster
  \/ \E p \in Posters : PosterStep(p)
  \/ StarterStep
  \/ \E c \in Cleaners : CleanerStep(c)

(* The starter's goroutine runs, and the API does not fail for ever. *)
Fairness ==
  /\ WF_vars(StarterStep)
  /\ SF_vars(GetJob)
  /\ SF_vars(UpdateJob)

Spec == Init /\ [][Next]_vars

FairSpec == Spec /\ Fairness

-----------------------------------------------------------------------------
(* Properties. *)

Entries == [name : Names \cup {0}, uid : Uids, created : 0..MaxClock]

TypeOK ==
  /\ now \in 0..MaxClock
  /\ jobs \in [Names -> Job \cup {None}]
  /\ pods \in [Uids -> PodPhases]
  /\ born \in 0..MaxJobs
  /\ sstep \in {"list", "check", "get", "update"}
  /\ entries \in Nat
  /\ last \in [name : Names \cup {0}, job : Job \cup {None}]
  /\ got \in Job \cup {None}
  /\ left \in [Posters -> Seq(Item)]
  /\ adding \in [Posters -> BOOLEAN]
  /\ cstep \in [Cleaners -> {"idle", "deleteJobs", "deletePods", "pendingPods", "deletePending"}]
  /\ listed \in [Cleaners -> SUBSET Entries]
  /\ todo \in [Cleaners -> SUBSET Entries]

(* Only the job read is started, and before its date only if another one    *)
(* was created under its name since the list (orchestration.go 300-323).    *)
StartsAtItsDate ==
  [][\A n \in Names :
       jobs[n] # None /\ jobs'[n] # None /\ jobs[n].suspend /\ ~jobs'[n].suspend
         => /\ jobs[n].uid = jobs'[n].uid
            /\ jobs[n] = got
            /\ jobs[n].start < now \/ jobs[n].uid # last.job.uid]_vars

(* However stale its lists, a DELETE request is never about to delete a job *)
(* that is not completed, or one that waits for its date, unless a new job  *)
(* has taken the name (kubeclient.go 100-183).                              *)
DeletesWhatItSaw ==
  \A c \in Cleaners : \A x \in todo[c] :
    x.name > 0 /\ jobs[x.name] # None /\ jobs[x.name].uid = x.uid =>
      /\ cstep[c] = "deleteJobs" => jobs[x.name].status = "succeeded"
      /\ cstep[c] = "deletePending" => ~jobs[x.name].suspend

(* A DELETE completed about to answer without an error has left none of the *)
(* completed jobs it listed, nor the pods these succeeded with, nor the      *)
(* succeeded pods it listed, also when another request did part of the work *)
(* (kubeclient.go 100-135).  Failed pods are left by it, and not meant here. *)
ClearedAll ==
  \A c \in Cleaners : cstep[c] = "deletePods" /\ todo[c] = {} =>
    \A x \in listed[c] :
      /\ pods[x.uid] = "gone"
      /\ x.name > 0 => jobs[x.name] = None \/ jobs[x.name].uid # x.uid

Waiting(n) == n \in Suspended /\ jobs[n].start < now

(* A suspended job that is due is started, as long as it is the last one in *)
(* the list of jobs (kubeclient.go 217-229: every entry is the last job).   *)
LastListedJobStarts == \A n \in Names : ~<>[](Waiting(n) /\ n = Max(Existing))

(* "START_DATE" of each job of a scenario (job_scenario_example.csv:1): no  *)
(* job is kept suspended for ever after its date.                           *)
EveryDueJobStarts == \A n \in Names : ~<>[]Waiting(n)

=============================================================================
