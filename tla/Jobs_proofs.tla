----------------------------- MODULE Jobs_proofs -----------------------------
(***************************************************************************)
(* Theorems about Jobs for any number of POST and DELETE requests at work   *)
(* at once, any names, any scenarios and any number of jobs.                *)
(*                                                                         *)
(* The requests and the starter meet in the API only.  So the proof says    *)
(* once what a step can do to the jobs and pods that exist (ApiMoves), and  *)
(* that what each goroutine knows of them survives such a step.             *)
(***************************************************************************)
EXTENDS Jobs, TLAPS, FiniteSetTheorems, WellFoundedInduction

(* The API: uids are new and distinct, a pod of a job tells that it is      *)
(* started, a job that succeeded has a pod that did, unless it is deleted.  *)
ApiInv ==
  /\ now \in 0..MaxClock
  /\ jobs \in [Names -> Job \cup {None}]
  /\ pods \in [Uids -> PodPhases]
  /\ born \in 0..MaxJobs
  /\ \A n \in Existing : jobs[n].uid <= born
  /\ \A n, m \in Existing : jobs[n].uid = jobs[m].uid => n = m
  /\ \A u \in Uids : u > born => pods[u] = "none"
  /\ \A n \in Existing :
       /\ pods[jobs[n].uid] # "none" => jobs[n].suspend = FALSE
       /\ Completed(n) => pods[jobs[n].uid] \in {"Succeeded", "gone"}

(* The starter: what it read is a job whose uid is taken and whose start    *)
(* does not change, and it goes on only if that was due.                    *)
StarterInv ==
  /\ sstep \in {"list", "check", "get", "update"}
  /\ entries \in Nat
  /\ last \in [name : Names \cup {0}, job : Job \cup {None}]
  /\ got \in Job \cup {None}
  /\ sstep # "list" => /\ entries > 0
                       /\ last.name \in Names /\ last.job \in Job
                       /\ last.job.uid <= born
                       /\ \A n \in Existing : jobs[n].uid = last.job.uid
                                               => jobs[n].start = last.job.start
  /\ sstep \in {"get", "update"} => Due(last.job)
  /\ sstep = "update" => /\ got \in Job
                         /\ got.uid = last.job.uid => got.start = last.job.start

PosterInv ==
  /\ left \in [Posters -> Seq(Item)]
  /\ adding \in [Posters -> BOOLEAN]

(* The job that the entry was made of is still there. *)
Same(x) == x.name \in Existing /\ jobs[x.name].uid = x.uid

CleanerTypes ==
  /\ cstep \in [Cleaners -> {"idle", "deleteJobs", "deletePods", "pendingPods", "deletePending"}]
  /\ listed \in [Cleaners -> SUBSET Entries]
  /\ todo \in [Cleaners -> SUBSET Entries]

(* A cleaner: while it deletes jobs, those it listed are completed or gone; *)
(* while it deletes pods, each pod of the jobs it listed is gone or still   *)
(* to be deleted; the job it takes for pending is started.                  *)
CleanerInv(c) ==
  /\ \A x \in listed[c] \cup todo[c] : x.uid <= born
  /\ cstep[c] = "deleteJobs" =>
       /\ todo[c] \subseteq listed[c]
       /\ \A x \in listed[c] : /\ pods[x.uid] \in {"Succeeded", "gone"}
                               /\ Same(x) => Completed(x.name) /\ x \in todo[c]
  /\ cstep[c] = "deletePods" =>
       /\ \A x \in todo[c] : pods[x.uid] \in {"Succeeded", "gone"}
       /\ \A x \in listed[c] : /\ pods[x.uid] = "gone" \/ PodEntry(x.uid) \in todo[c]
                               /\ ~Same(x)
  /\ cstep[c] = "deletePending" =>
       \A x \in todo[c] : Same(x) => jobs[x.name].suspend = FALSE

JobsInv ==
  /\ ApiInv
  /\ StarterInv
  /\ PosterInv
  /\ CleanerTypes
  /\ \A c \in Cleaners : CleanerInv(c)

(* What a step may do to the API: a job keeps its uid and its start, does   *)
(* not succeed twice nor get suspended again; a new one has a new uid; a    *)
(* pod that succeeded can only go.                                          *)
ApiMoves ==
  /\ born <= born'
  /\ \A n \in Names : jobs'[n] # None =>
       \/ /\ jobs[n] # None
          /\ jobs'[n].uid = jobs[n].uid
          /\ jobs'[n].start = jobs[n].start
          /\ jobs[n].status = "succeeded" => jobs'[n].status = "succeeded"
          /\ jobs[n].suspend = FALSE => jobs'[n].suspend = FALSE
       \/ jobs'[n].uid > born
  /\ \A u \in Uids : /\ pods[u] = "gone" => pods'[u] = "gone"
                     /\ pods[u] = "Succeeded" => pods'[u] \in {"Succeeded", "gone"}

-----------------------------------------------------------------------------
(* A job is never the record that stands for none.                          *)
LEMMA JobIsNotNone ==
  /\ None \notin Job
  /\ None.uid = 0
  /\ \A j \in Job : j.uid \in Uids /\ j.uid # 0 /\ j # None
BY JobsAssumption DEF Job, None, Uids

LEMMA ExistingHasJob ==
  ASSUME jobs \in [Names -> Job \cup {None}]
  PROVE  /\ \A n \in Existing : n \in Names /\ jobs[n] \in Job
         /\ \A n \in Names : n \in Existing <=> jobs[n] # None
         /\ \A n \in Names : n \notin Existing => jobs[n] = None
BY JobIsNotNone DEF Existing

(* A nonempty finite set of naturals has a greatest element.                *)
LEMMA GreatestExists ==
  ASSUME NEW S, S \subseteq Nat, IsFiniteSet(S), S # {}
  PROVE  Max(S) \in S
<1> DEFINE Up(x) == {y \in S : y >= x}
           F == {Up(x) : x \in S}
           R == StrictSubsetOrdering(S)
<1>1. F \subseteq FiniteSubsetsOf(S) /\ F # {}
  <2>1. \A x \in S : IsFiniteSet(Up(x)) /\ Up(x) \in SUBSET S
    BY FS_Subset
  <2> QED
    BY <2>1, Zenon DEF FiniteSubsetsOf
<1>2. IsWellFoundedOn(R, FiniteSubsetsOf(S))
  BY FS_StrictSubsetOrderingWellFounded
<1>0. \A B, C \in SUBSET S : B \subseteq C /\ B # C => <<B, C>> \in R
  BY Zenon DEF R, StrictSubsetOrdering
<1> HIDE DEF R
<1>3. PICK A \in F : \A B \in F : ~(<<B, A>> \in R)
  <2> HIDE DEF F
  <2> QED
    BY <1>1, <1>2, WFMin
<1>4. PICK x \in S : A = Up(x)
  OBVIOUS
<1>5. ASSUME NEW y \in S, y > x PROVE FALSE
  <2>1. /\ Up(y) \subseteq Up(x) /\ Up(y) # Up(x)
        /\ Up(x) \in SUBSET S /\ Up(y) \in SUBSET S
    <3>1. x \in Up(x) /\ x \notin Up(y)
      BY <1>5
    <3>2. \A z \in S : z >= y => z >= x
      BY <1>5
    <3> QED
      BY <3>1, <3>2, Zenon
  <2>2. <<Up(y), Up(x)>> \in R
    BY <1>0, <2>1, Zenon
  <2> QED
    BY <1>3, <1>4, <2>2
<1>6. \E z \in S : \A y \in S : z >= y
  BY <1>5
<1> QED
  BY <1>6 DEF Max

LEMMA SuspendedIsFinite ==
  /\ IsFiniteSet(Existing) /\ Existing \subseteq Nat
  /\ Cardinality(Suspended) \in Nat
  /\ Suspended # {} => Cardinality(Suspended) > 0 /\ Existing # {}
<1>1. Existing \subseteq Names /\ Suspended \subseteq Names /\ Suspended \subseteq Existing
  BY DEF Existing, Suspended
<1>2. IsFiniteSet(Existing) /\ IsFiniteSet(Suspended)
  BY <1>1, FS_Subset, JobsAssumption
<1>3. Cardinality(Suspended) \in Nat /\ (Cardinality(Suspended) = 0 <=> Suspended = {})
  BY <1>2, FS_CardinalityType, FS_EmptySet
<1>4. Suspended # {} => Cardinality(Suspended) > 0
  <2> DEFINE k == Cardinality(Suspended)
  <2>1. k \in Nat /\ (k = 0 <=> Suspended = {})
    BY <1>3
  <2> HIDE DEF k
  <2>2. Suspended # {} => k > 0
    BY <2>1
  <2> QED
    BY <2>2 DEF k
<1>5. Suspended # {} => Existing # {}
  BY <1>1
<1> QED
  BY <1>1, <1>2, <1>3, <1>4, <1>5, JobsAssumption

LEMMA InitInv == Init => JobsInv
<1> SUFFICES ASSUME Init PROVE JobsInv
  OBVIOUS
<1>1. Existing = {}
  BY DEF Init, Existing
<1>2. ApiInv
  BY <1>1, JobsAssumption DEF Init, ApiInv, PodPhases, Uids
<1>3. StarterInv
  BY DEF Init, StarterInv
<1>4. PosterInv
  BY DEF Init, PosterInv
<1>5. CleanerTypes /\ \A c \in Cleaners : CleanerInv(c)
  BY DEF Init, CleanerTypes, CleanerInv
<1> QED
  BY <1>2, <1>3, <1>4, <1>5 DEF JobsInv

-----------------------------------------------------------------------------
(* The steps of the API.                                                    *)

LEMMA CreateMoves ==
  ASSUME JobsInv, NEW item \in Item, Create(item), UNCHANGED <<now, pods>>
  PROVE  ApiInv' /\ ApiMoves
<1> DEFINE n == item.name
           j == Rendered(item)
<1>1. n \in Names /\ item.start \in Nat
  BY DEF Item
<1>2. born + 1 \in Uids /\ now \in Nat /\ now \in 0..MaxClock
  BY JobsAssumption DEF JobsInv, ApiInv, Create, Uids
<1>3. j \in Job /\ j.uid = born + 1 /\ j.status = "open"
  BY <1>1, <1>2 DEF Rendered, Job
<1>4. jobs \in [Names -> Job \cup {None}] /\ jobs' = [jobs EXCEPT ![n] = j] /\ jobs[n] = None
  BY <1>1, ExistingHasJob DEF JobsInv, ApiInv, Create
<1> HIDE DEF j, n
<1>5. Existing' = Existing \cup {n} /\ n \notin Existing
  BY <1>1, <1>3, <1>4, JobIsNotNone DEF Existing
<1>6. \A m \in Existing : jobs'[m] = jobs[m] /\ m \in Names /\ jobs[m] \in Job
  BY <1>4, <1>5, ExistingHasJob
<1>7. jobs'[n] = j
  BY <1>1, <1>4
<1>8. ApiMoves
  BY <1>1, <1>2, <1>3, <1>4, <1>5, <1>6, <1>7, JobIsNotNone, ExistingHasJob
  DEF ApiMoves, JobsInv, ApiInv, Create, Uids
<1>9. /\ now' \in 0..MaxClock /\ pods' \in [Uids -> PodPhases] /\ born' \in 0..MaxJobs
      /\ jobs' \in [Names -> Job \cup {None}]
  <2>1. jobs' \in [Names -> Job \cup {None}]
    BY <1>1, <1>3, <1>4
  <2>2. born' \in 0..MaxJobs
    BY <1>2, JobsAssumption DEF JobsInv, ApiInv, Create
  <2> QED
    BY <2>1, <2>2 DEF JobsInv, ApiInv
<1>10. /\ \A m \in Existing' : jobs'[m].uid <= born'
       /\ \A m, k \in Existing' : jobs'[m].uid = jobs'[k].uid => m = k
       /\ \A u \in Uids : u > born' => pods'[u] = "none"
  BY <1>2, <1>3, <1>5, <1>6, <1>7, JobIsNotNone DEF JobsInv, ApiInv, Create, Uids
<1>11. \A m \in Existing' :
         /\ pods'[jobs'[m].uid] # "none" => jobs'[m].suspend = FALSE
         /\ Completed(m)' => pods'[jobs'[m].uid] \in {"Succeeded", "gone"}
  BY <1>2, <1>3, <1>5, <1>6, <1>7 DEF JobsInv, ApiInv, Create, Completed, Uids
<1> QED
  BY <1>8, <1>9, <1>10, <1>11 DEF ApiInv

(* A job goes, with its pod or not.                                         *)
LEMMA GoneMoves ==
  ASSUME JobsInv, NEW n \in Names, Gone(n), UNCHANGED <<now, born>>,
         pods' = pods \/ (n \in Existing /\ pods' = [pods EXCEPT ![jobs[n].uid] = "gone"])
  PROVE  ApiInv' /\ ApiMoves
<1>1. jobs \in [Names -> Job \cup {None}] /\ jobs' = [jobs EXCEPT ![n] = None]
  BY DEF JobsInv, ApiInv, Gone
<1>2. Existing' = Existing \ {n} /\ jobs' \in [Names -> Job \cup {None}]
  BY <1>1, JobIsNotNone DEF Existing
<1>3. \A m \in Existing' : m \in Existing /\ m # n /\ jobs'[m] = jobs[m] /\ jobs[m] \in Job
  BY <1>1, <1>2, ExistingHasJob
<1>4. /\ pods \in [Uids -> PodPhases] /\ pods' \in [Uids -> PodPhases]
      /\ n \in Existing => jobs[n].uid \in Uids /\ jobs[n].uid <= born
  BY <1>1, ExistingHasJob, JobIsNotNone DEF JobsInv, ApiInv, PodPhases
<1>5. \A m \in Existing' : pods'[jobs'[m].uid] = pods[jobs[m].uid]
  BY <1>3, <1>4, JobIsNotNone DEF JobsInv, ApiInv
<1>6. \A u \in Uids : /\ pods'[u] = pods[u] \/ pods'[u] = "gone"
                      /\ u > born => pods'[u] = pods[u]
  BY <1>4, JobsAssumption DEF JobsInv, ApiInv, Uids
<1>7. ApiMoves
  BY <1>1, <1>2, <1>3, <1>6, ExistingHasJob, JobIsNotNone DEF ApiMoves, JobsInv, ApiInv
<1> QED
  BY <1>2, <1>3, <1>4, <1>5, <1>6, <1>7 DEF ApiInv, JobsInv, Completed

(* The pods and the status that follows them.                               *)
LEMMA ClusterMoves ==
  ASSUME JobsInv, Cluster
  PROVE  ApiInv' /\ ApiMoves
<1>0. /\ jobs \in [Names -> Job \cup {None}] /\ pods \in [Uids -> PodPhases]
      /\ born \in 0..MaxJobs /\ Uids \subseteq Nat
      /\ ApiInv
  BY DEF JobsInv, ApiInv, Uids
<1>1. ASSUME NEW n \in Names, PodStarts(n) PROVE ApiInv' /\ ApiMoves
  <2>1. n \in Existing /\ jobs[n].suspend = FALSE /\ jobs[n].uid \in Uids /\ jobs[n].uid <= born
    BY <1>0, <1>1, ExistingHasJob, JobIsNotNone DEF PodStarts, Suspended, ApiInv, Job
  <2>2. Existing' = Existing /\ jobs' = jobs /\ born' = born /\ now' = now
    BY <1>1 DEF PodStarts, Existing
  <2>3. pods[jobs[n].uid] = "none" /\ pods' = [pods EXCEPT ![jobs[n].uid] = "Pending"]
    BY <1>1 DEF PodStarts
  <2>4. \A m \in Existing : m # n => pods'[jobs[m].uid] = pods[jobs[m].uid]
    BY <1>0, <2>1, <2>3, ExistingHasJob, JobIsNotNone DEF ApiInv
  <2>5. pods'[jobs[n].uid] = "Pending" /\ ~Completed(n)
    BY <1>0, <2>1, <2>3 DEF ApiInv
  <2>6. /\ pods' \in [Uids -> PodPhases]
        /\ \A u \in Uids : u > born => pods'[u] = "none"
    BY <1>0, <2>1, <2>3 DEF ApiInv, PodPhases
  <2>7. ApiInv'
    BY <1>0, <2>1, <2>2, <2>4, <2>5, <2>6 DEF ApiInv, Completed
  <2>8. ApiMoves
    BY <1>0, <2>2, <2>3, ExistingHasJob DEF ApiMoves
  <2> QED
    BY <2>7, <2>8
<1>2. ASSUME NEW u \in Uids, PodRuns(u) PROVE ApiInv' /\ ApiMoves
  <2>1. Existing' = Existing /\ jobs' = jobs /\ born' = born /\ now' = now
    BY <1>2 DEF PodRuns, Existing
  <2>2. pods[u] = "Pending" /\ pods' = [pods EXCEPT ![u] = "Running"]
    BY <1>2 DEF PodRuns
  <2>3. \A m \in Existing : jobs[m].uid \in Uids
    BY <1>0, ExistingHasJob, JobIsNotNone
  <2>4. pods' \in [Uids -> PodPhases]
    BY <1>0, <2>2 DEF PodPhases
  <2>5. ApiInv'
    BY <1>0, <2>1, <2>2, <2>3, <2>4 DEF ApiInv, Completed
  <2>6. ApiMoves
    BY <1>0, <2>1, <2>2, ExistingHasJob DEF ApiMoves
  <2> QED
    BY <2>5, <2>6
<1>3. ASSUME NEW u \in Uids, PodSucceeds(u) PROVE ApiInv' /\ ApiMoves
  <2>1. /\ pods[u] = "Running" /\ pods' = [pods EXCEPT ![u] = "Succeeded"]
        /\ born' = born /\ now' = now
        /\ jobs' = [n \in Names |-> IF jobs[n].uid = u
                                    THEN [jobs[n] EXCEPT !.status = "succeeded"]
                                    ELSE jobs[n]]
    BY <1>3 DEF PodSucceeds
  <2>2. \A m \in Names :
          /\ jobs[m] = None => jobs'[m] = None
          /\ jobs[m] # None => /\ jobs[m] \in Job /\ jobs'[m] \in Job
                               /\ jobs'[m].uid = jobs[m].uid
                               /\ jobs'[m].start = jobs[m].start
                               /\ jobs'[m].suspend = jobs[m].suspend
                               /\ jobs[m].uid # u => jobs'[m] = jobs[m]
                               /\ jobs[m].uid = u => jobs'[m].status = "succeeded"
    <3>1. SUFFICES ASSUME NEW m \in Names, jobs[m] # None
                   PROVE  /\ jobs[m] \in Job /\ jobs'[m] \in Job
                          /\ jobs'[m].uid = jobs[m].uid
                          /\ jobs'[m].start = jobs[m].start
                          /\ jobs'[m].suspend = jobs[m].suspend
                          /\ jobs[m].uid # u => jobs'[m] = jobs[m]
                          /\ jobs[m].uid = u => jobs'[m].status = "succeeded"
      BY <2>1, JobIsNotNone DEF Uids
    <3>2. jobs[m] \in Job
      BY <1>0, <3>1
    <3>3. jobs'[m] = IF jobs[m].uid = u THEN [jobs[m] EXCEPT !.status = "succeeded"]
                                        ELSE jobs[m]
      BY <2>1
    <3> QED
      BY <3>2, <3>3 DEF Job
  <2>3. Existing' = Existing /\ jobs' \in [Names -> Job \cup {None}]
    BY <2>1, <2>2, JobIsNotNone DEF Existing
  <2>4. pods' \in [Uids -> PodPhases] /\ u <= born
    BY <1>0, <2>1 DEF PodPhases, ApiInv
  <2>5. \A m \in Existing : /\ jobs[m].uid \in Uids /\ m \in Names /\ jobs[m] # None
                            /\ jobs[m].uid # u => pods'[jobs[m].uid] = pods[jobs[m].uid]
                            /\ jobs[m].uid = u => pods'[jobs[m].uid] = "Succeeded"
    BY <1>0, <2>1, ExistingHasJob, JobIsNotNone
  <2>6. \A v \in Uids : v > born => pods'[v] = "none"
    BY <1>0, <2>1, <2>4 DEF ApiInv
  <2>7. \A m \in Existing :
          /\ pods'[jobs'[m].uid] # "none" => jobs'[m].suspend = FALSE
          /\ Completed(m)' => pods'[jobs'[m].uid] \in {"Succeeded", "gone"}
    BY <1>0, <2>1, <2>2, <2>5 DEF ApiInv, Completed
  <2>8. ApiInv'
    BY <1>0, <2>1, <2>2, <2>3, <2>4, <2>5, <2>6, <2>7 DEF ApiInv
  <2>9. ApiMoves
    BY <1>0, <2>1, <2>2 DEF ApiMoves
  <2> QED
    BY <2>8, <2>9
<1>4. ASSUME NEW n \in Names, JobFails(n) PROVE ApiInv' /\ ApiMoves
  <2>1. /\ n \in Existing /\ n \notin Suspended /\ jobs[n].status = "open"
        /\ jobs' = [jobs EXCEPT ![n].status = "failed"]
        /\ pods' = [pods EXCEPT ![jobs[n].uid] = "gone"]
        /\ born' = born /\ now' = now
    BY <1>4 DEF JobFails
  <2>2. /\ jobs[n] \in Job /\ jobs[n].uid \in Uids /\ jobs[n].uid <= born
        /\ jobs[n].suspend = FALSE
    BY <1>0, <2>1, ExistingHasJob, JobIsNotNone DEF ApiInv, Suspended, Job
  <2>3. /\ jobs'[n] \in Job
        /\ jobs'[n].uid = jobs[n].uid /\ jobs'[n].start = jobs[n].start
        /\ jobs'[n].suspend = jobs[n].suspend /\ jobs'[n].status = "failed"
    BY <1>0, <2>1, <2>2 DEF Job
  <2>4. \A m \in Names : m # n => jobs'[m] = jobs[m]
    BY <1>0, <2>1
  <2>5. Existing' = Existing /\ jobs' \in [Names -> Job \cup {None}]
    <3>1. Existing' = Existing
      BY <2>1, <2>3, <2>4, JobIsNotNone DEF Existing
    <3>2. jobs' \in [Names -> Job \cup {None}]
      BY <1>0, <2>1, <2>3, <2>4
    <3> QED
      BY <3>1, <3>2
  <2>6. \A m \in Existing : /\ m \in Names /\ jobs[m].uid \in Uids
                            /\ jobs'[m].uid = jobs[m].uid /\ jobs'[m].suspend = jobs[m].suspend
                            /\ m # n => pods'[jobs[m].uid] = pods[jobs[m].uid]
    BY <1>0, <2>1, <2>2, <2>3, <2>4, ExistingHasJob, JobIsNotNone DEF ApiInv
  <2>7. /\ pods' \in [Uids -> PodPhases] /\ pods'[jobs[n].uid] = "gone"
        /\ \A u \in Uids : u > born => pods'[u] = "none"
    BY <1>0, <2>1, <2>2 DEF PodPhases, ApiInv
  <2>8. \A m \in Existing :
          /\ pods'[jobs'[m].uid] # "none" => jobs'[m].suspend = FALSE
          /\ Completed(m)' => pods'[jobs'[m].uid] \in {"Succeeded", "gone"}
    BY <1>0, <2>1, <2>2, <2>3, <2>4, <2>6, <2>7 DEF ApiInv, Completed
  <2>9. ApiInv'
    BY <1>0, <2>1, <2>5, <2>6, <2>7, <2>8 DEF ApiInv
  <2>10. ApiMoves
    BY <1>0, <2>1, <2>2, <2>3, <2>4, <2>5, ExistingHasJob, JobIsNotNone DEF ApiMoves
  <2> QED
    BY <2>9, <2>10
<1>5. ASSUME NEW u \in Uids, PodFails(u) PROVE ApiInv' /\ ApiMoves
  <2>1. Existing' = Existing /\ jobs' = jobs /\ born' = born /\ now' = now
    BY <1>5 DEF PodFails, Existing
  <2>2. pods[u] = "Running" /\ pods' = [pods EXCEPT ![u] = "none"]
    BY <1>5 DEF PodFails
  <2>3. \A m \in Existing : /\ jobs[m].uid \in Uids
                            /\ jobs[m].uid = u => ~Completed(m)
    BY <1>0, <2>2, ExistingHasJob, JobIsNotNone DEF ApiInv
  <2>4. pods' \in [Uids -> PodPhases]
    BY <1>0, <2>2 DEF PodPhases
  <2>5. ApiInv'
    BY <1>0, <2>1, <2>2, <2>3, <2>4 DEF ApiInv, Completed
  <2>6. ApiMoves
    BY <1>0, <2>1, <2>2, ExistingHasJob DEF ApiMoves
  <2> QED
    BY <2>5, <2>6
<1> QED
  BY <1>1, <1>2, <1>3, <1>4, <1>5 DEF Cluster

-----------------------------------------------------------------------------
(* What the goroutines know survives such a step of another.                *)

LEMMA StarterKept ==
  ASSUME JobsInv, ApiMoves, UNCHANGED starterVars, now <= now', now' \in Nat, ApiInv'
  PROVE  StarterInv'
<1>0. /\ jobs \in [Names -> Job \cup {None}] /\ jobs' \in [Names -> Job \cup {None}]
      /\ born \in Nat /\ born' \in Nat /\ born <= born' /\ now \in Nat
      /\ starterVars' = starterVars /\ StarterInv
  BY JobsAssumption DEF JobsInv, ApiInv, ApiMoves
<1>1. sstep' = sstep /\ entries' = entries /\ last' = last /\ got' = got
  BY <1>0 DEF starterVars
<1>2. ASSUME sstep # "list"
      PROVE  /\ last.job.uid <= born' /\ last.job \in Job
             /\ \A n \in Existing' : jobs'[n].uid = last.job.uid => jobs'[n].start = last.job.start
  <2>1. last.job \in Job /\ last.job.uid \in Nat /\ last.job.uid <= born
    BY <1>0, <1>2, JobIsNotNone DEF StarterInv, Uids
  <2>2. SUFFICES ASSUME NEW n \in Existing', jobs'[n].uid = last.job.uid
                 PROVE  jobs'[n].start = last.job.start
    BY <1>0, <2>1
  <2>3. n \in Names /\ jobs'[n] # None /\ ~(jobs'[n].uid > born)
    BY <1>0, <2>1, <2>2 DEF Existing
  <2>4. /\ jobs[n] # None /\ jobs'[n].uid = jobs[n].uid /\ jobs'[n].start = jobs[n].start
    BY <2>3 DEF ApiMoves
  <2> QED
    BY <1>0, <1>2, <2>2, <2>3, <2>4, ExistingHasJob DEF StarterInv
<1>3. sstep \in {"get", "update"} => Due(last.job)'
  <2>1. SUFFICES ASSUME sstep \in {"get", "update"} PROVE Due(last.job)'
    OBVIOUS
  <2>2. last.job \in Job /\ last.job.start \in Nat
    BY <1>2, <2>1 DEF Job
  <2> QED
    BY <1>0, <1>1, <2>1, <2>2 DEF StarterInv, Due
<1> QED
  BY <1>0, <1>1, <1>2, <1>3 DEF StarterInv

LEMMA CleanerKept ==
  ASSUME JobsInv, ApiMoves, ApiInv', NEW c \in Cleaners,
         cstep'[c] = cstep[c], listed'[c] = listed[c], todo'[c] = todo[c]
  PROVE  CleanerInv(c)'
<1>0. /\ jobs \in [Names -> Job \cup {None}] /\ jobs' \in [Names -> Job \cup {None}]
      /\ born \in Nat /\ born' \in Nat /\ born <= born'
      /\ listed[c] \subseteq Entries /\ todo[c] \subseteq Entries
      /\ CleanerInv(c)
  BY JobsAssumption DEF JobsInv, ApiInv, ApiMoves, CleanerTypes
<1>1. \A x \in listed[c] \cup todo[c] : x.uid \in Uids /\ x.uid \in Nat /\ x.uid <= born
  BY <1>0 DEF CleanerInv, Entries, Uids
<1>2. ASSUME NEW x \in listed[c] \cup todo[c], Same(x)'
      PROVE  /\ Same(x) /\ jobs[x.name].status = "succeeded" => jobs'[x.name].status = "succeeded"
             /\ Same(x) /\ jobs[x.name].suspend = FALSE => jobs'[x.name].suspend = FALSE
             /\ Same(x)
  <2>1. x.name \in Names /\ jobs'[x.name] # None /\ jobs'[x.name].uid = x.uid
    BY <1>2 DEF Same, Existing
  <2>2. ~(jobs'[x.name].uid > born)
    BY <1>0, <1>1, <2>1
  <2>3. /\ jobs[x.name] # None /\ jobs'[x.name].uid = jobs[x.name].uid
        /\ jobs[x.name].status = "succeeded" => jobs'[x.name].status = "succeeded"
        /\ jobs[x.name].suspend = FALSE => jobs'[x.name].suspend = FALSE
    BY <2>1, <2>2 DEF ApiMoves
  <2> QED
    BY <1>0, <2>1, <2>3, ExistingHasJob DEF Same
<1>3. \A x \in listed[c] \cup todo[c] :
        /\ pods[x.uid] = "gone" => pods'[x.uid] = "gone"
        /\ pods[x.uid] = "Succeeded" => pods'[x.uid] \in {"Succeeded", "gone"}
  BY <1>1 DEF ApiMoves
<1>4. \A x \in listed[c] \cup todo[c] : x.uid <= born'
  BY <1>0, <1>1
<1>5. cstep[c] = "deleteJobs" =>
        \A x \in listed[c] : /\ pods'[x.uid] \in {"Succeeded", "gone"}
                             /\ Same(x)' => Completed(x.name)' /\ x \in todo[c]
  BY <1>0, <1>2, <1>3 DEF CleanerInv, Completed
<1>6. cstep[c] = "deletePods" =>
        /\ \A x \in todo[c] : pods'[x.uid] \in {"Succeeded", "gone"}
        /\ \A x \in listed[c] : /\ pods'[x.uid] = "gone" \/ PodEntry(x.uid) \in todo[c]
                                /\ ~Same(x)'
  BY <1>0, <1>2, <1>3 DEF CleanerInv
<1>7. cstep[c] = "deletePending" =>
        \A x \in todo[c] : Same(x)' => jobs'[x.name].suspend = FALSE
  BY <1>0, <1>2 DEF CleanerInv
<1> QED
  BY <1>0, <1>4, <1>5, <1>6, <1>7 DEF CleanerInv, PodEntry

(* A step of the API that no goroutine's variables record.                  *)
LEMMA NothingRecorded ==
  ASSUME JobsInv, ApiMoves, ApiInv', now <= now', UNCHANGED starterVars
  PROVE  /\ StarterInv'
         /\ UNCHANGED cleanerVars => CleanerTypes' /\ \A c \in Cleaners : CleanerInv(c)'
<1>1. now' \in Nat
  BY JobsAssumption DEF ApiInv
<1>2. StarterInv'
  BY <1>1, StarterKept
<1>3. ASSUME UNCHANGED cleanerVars PROVE CleanerTypes' /\ \A c \in Cleaners : CleanerInv(c)'
  <2>1. cstep' = cstep /\ listed' = listed /\ todo' = todo
    BY <1>3 DEF cleanerVars
  <2> QED
    BY <2>1, CleanerKept DEF JobsInv, CleanerTypes
<1> QED
  BY <1>2, <1>3

(* Only the clock moves, if anything: the API is as it was.                 *)
LEMMA ApiKept ==
  ASSUME JobsInv, UNCHANGED apiVars, now' \in 0..MaxClock, now <= now'
  PROVE  ApiInv' /\ ApiMoves
<1>1. jobs' = jobs /\ pods' = pods /\ born' = born /\ Existing' = Existing
  BY DEF apiVars, Existing
<1>2. ApiInv'
  BY <1>1 DEF JobsInv, ApiInv, Completed
<1>3. ApiMoves
  <2>1. born \in Nat
    BY JobsAssumption DEF JobsInv, ApiInv
  <2> QED
    BY <1>1, <2>1 DEF ApiMoves
<1> QED
  BY <1>2, <1>3

-----------------------------------------------------------------------------
(* The starter's own steps.                                                 *)

LEMMA StarterStepInv ==
  ASSUME JobsInv, StarterStep
  PROVE  ApiInv' /\ ApiMoves /\ StarterInv'
<1>0. /\ StarterInv /\ ApiInv /\ jobs \in [Names -> Job \cup {None}]
      /\ now \in Nat /\ now \in 0..MaxClock /\ born \in Nat
      /\ \A n \in Existing : n \in Names /\ jobs[n] \in Job /\ jobs[n].uid <= born
  BY ExistingHasJob, JobsAssumption DEF JobsInv, ApiInv
<1>1. ASSUME NextEntry, StarterInv, sstep # "list",
             last.name \in Names => ApiInv' /\ ApiMoves, now' = now
      PROVE  StarterInv'
  <2>1. /\ entries \in Nat /\ entries > 0
        /\ last.name \in Names /\ last.job \in Job /\ last.job.uid <= born
        /\ last \in [name : Names \cup {0}, job : Job \cup {None}]
    BY <1>1 DEF StarterInv
  <2>2. ApiInv' /\ ApiMoves /\ born' \in Nat /\ jobs' \in [Names -> Job \cup {None}]
    BY <1>1, <2>1, JobsAssumption DEF ApiInv
  <2>3. CASE entries = 1
    <3>1. /\ sstep' = "list" /\ entries' = 0 /\ got' = None
          /\ last' = [name |-> 0, job |-> None]
      BY <1>1, <2>3 DEF NextEntry
    <3> QED
      BY <3>1 DEF StarterInv
  <2>4. CASE entries # 1
    <3>1. /\ sstep' = "check" /\ entries' = entries - 1 /\ got' = None /\ last' = last
      BY <1>1, <2>4 DEF NextEntry
    <3>2. entries' \in Nat /\ entries' > 0
      BY <2>1, <2>4, <3>1
    <3>3. last.job.uid \in Nat /\ last.job.uid <= born'
      BY <1>0, <2>1, <2>2, JobIsNotNone DEF ApiMoves, Uids
    <3>4. \A n \in Existing' : jobs'[n].uid = last.job.uid => jobs'[n].start = last.job.start
      <4>1. SUFFICES ASSUME NEW n \in Existing', jobs'[n].uid = last.job.uid
                     PROVE  jobs'[n].start = last.job.start
        OBVIOUS
      <4>2. n \in Names /\ jobs'[n] # None /\ ~(jobs'[n].uid > born)
        BY <1>0, <2>1, <3>3, <4>1 DEF Existing
      <4>3. jobs[n] # None /\ jobs'[n].uid = jobs[n].uid /\ jobs'[n].start = jobs[n].start
        BY <2>2, <4>2 DEF ApiMoves
      <4> QED
        BY <1>0, <1>1, <4>1, <4>2, <4>3, ExistingHasJob DEF StarterInv
    <3> QED
      BY <2>1, <3>1, <3>2, <3>3, <3>4 DEF StarterInv
  <2> QED
    BY <2>3, <2>4
<1>2. ASSUME UNCHANGED <<now, apiVars>> PROVE ApiInv' /\ ApiMoves
  BY <1>0, <1>2, ApiKept
<1>3. CASE ListSuspended
  <2>1. /\ Suspended # {} /\ entries' = Cardinality(Suspended) /\ sstep' = "check"
        /\ last' = [name |-> Max(Existing), job |-> jobs[Max(Existing)]]
        /\ got' = got /\ UNCHANGED <<now, apiVars>>
    BY <1>3 DEF ListSuspended
  <2>2. entries' \in Nat /\ entries' > 0 /\ Max(Existing) \in Existing
    BY <2>1, SuspendedIsFinite, GreatestExists
  <2> DEFINE m == Max(Existing)
  <2>3. /\ m \in Existing /\ m \in Names /\ jobs[m] \in Job /\ jobs[m].uid <= born
    BY <1>0, <2>2
  <2> HIDE DEF m
  <2>4. last' = [name |-> m, job |-> jobs[m]]
    BY <2>1 DEF m
  <2>5. Existing' = Existing /\ jobs' = jobs /\ born' = born
    BY <2>1 DEF apiVars, Existing
  <2>6. \A n \in Existing : jobs[n].uid = jobs[m].uid => n = m
    BY <1>0, <2>3 DEF ApiInv
  <2> QED
    BY <1>0, <1>2, <2>1, <2>2, <2>3, <2>4, <2>5, <2>6 DEF StarterInv
<1>4. CASE NotDue
  <2>1. sstep # "list" /\ NextEntry /\ UNCHANGED <<now, apiVars>>
    BY <1>4 DEF NotDue
  <2> QED
    BY <1>0, <1>1, <1>2, <2>1
<1>5. CASE IsDue
  <2>1. /\ sstep = "check" /\ Due(last.job) /\ sstep' = "get"
        /\ entries' = entries /\ last' = last /\ got' = got
        /\ UNCHANGED <<now, apiVars>>
    BY <1>5 DEF IsDue
  <2>2. Existing' = Existing /\ jobs' = jobs /\ born' = born /\ now' = now
    BY <2>1 DEF apiVars, Existing
  <2> QED
    BY <1>0, <1>2, <2>1, <2>2 DEF StarterInv, Due
<1>6. CASE GetJob
  <2>1. /\ sstep = "get" /\ last.name \in Existing /\ got' = jobs[last.name]
        /\ sstep' = "update" /\ entries' = entries /\ last' = last
        /\ UNCHANGED <<now, apiVars>>
    BY <1>6 DEF GetJob
  <2>2. Existing' = Existing /\ jobs' = jobs /\ born' = born /\ now' = now
    BY <2>1 DEF apiVars, Existing
  <2>3. got' \in Job /\ (got'.uid = last.job.uid => got'.start = last.job.start)
    BY <1>0, <2>1 DEF StarterInv
  <2> QED
    BY <1>0, <1>2, <2>1, <2>2, <2>3 DEF StarterInv, Due
<1>7. CASE UpdateJob
  <2>1. /\ sstep = "update" /\ jobs[last.name] = got
        /\ jobs' = [jobs EXCEPT ![last.name].suspend = FALSE]
        /\ now' = now /\ pods' = pods /\ born' = born /\ NextEntry
    BY <1>7 DEF UpdateJob
  <2> DEFINE n == last.name
  <2>2. n \in Names /\ got \in Job /\ jobs[n] \in Job
    BY <1>0, <2>1 DEF StarterInv
  <2> HIDE DEF n
  <2>3. jobs' = [jobs EXCEPT ![n].suspend = FALSE]
    BY <2>1 DEF n
  <2>4. /\ jobs'[n] \in Job /\ jobs'[n].suspend = FALSE
        /\ jobs'[n].uid = jobs[n].uid /\ jobs'[n].start = jobs[n].start
        /\ jobs'[n].status = jobs[n].status
    BY <1>0, <2>2, <2>3 DEF Job
  <2>5. \A m \in Names : m # n => jobs'[m] = jobs[m]
    BY <1>0, <2>2, <2>3
  <2>6. Existing' = Existing
    BY <2>2, <2>4, <2>5, JobIsNotNone DEF Existing
  <2>7. jobs' \in [Names -> Job \cup {None}]
    BY <1>0, <2>2, <2>3, <2>4, <2>5
  <2>8. \A m \in Existing : /\ jobs'[m].uid = jobs[m].uid /\ jobs'[m].status = jobs[m].status
                            /\ jobs[m].suspend = FALSE => jobs'[m].suspend = FALSE
                            /\ jobs'[m].start = jobs[m].start
    BY <1>0, <2>4, <2>5
  <2>9. ApiInv'
    BY <1>0, <2>1, <2>6, <2>7, <2>8 DEF ApiInv, Completed
  <2>10. ApiMoves
    BY <1>0, <2>1, <2>2, <2>4, <2>5, <2>6, <2>8, ExistingHasJob, JobIsNotNone DEF ApiMoves
  <2> QED
    BY <1>0, <1>1, <2>1, <2>9, <2>10
<1>8. CASE StartFails
  <2>1. sstep # "list" /\ NextEntry /\ UNCHANGED <<now, apiVars>>
    BY <1>8 DEF StartFails
  <2> QED
    BY <1>0, <1>1, <1>2, <2>1
<1> QED
  BY <1>3, <1>4, <1>5, <1>6, <1>7, <1>8 DEF StarterStep

-----------------------------------------------------------------------------
(* The posters' and the cleaners' own steps.                                *)

LEMMA PosterStepInv ==
  ASSUME JobsInv, NEW p \in Posters, PosterStep(p)
  PROVE  ApiInv' /\ ApiMoves /\ PosterInv' /\ now' = now
<1>0. /\ left \in [Posters -> Seq(Item)] /\ adding \in [Posters -> BOOLEAN]
      /\ now \in 0..MaxClock /\ now \in Nat
  BY JobsAssumption DEF JobsInv, ApiInv, PosterInv
<1>1. ASSUME UNCHANGED <<now, apiVars>> PROVE ApiInv' /\ ApiMoves
  BY <1>0, <1>1, ApiKept
<1>2. ASSUME NEW payload \in Seq(Item), PostScenario(p, payload)
      PROVE  ApiInv' /\ ApiMoves /\ PosterInv' /\ now' = now
  <2>1. UNCHANGED <<now, apiVars>> /\ PosterInv'
    BY <1>0, <1>2 DEF PostScenario, PosterInv
  <2> QED
    BY <1>1, <2>1
<1>3. \A payload \in Payloads : payload \in Seq(Item)
  BY JobsAssumption DEF Item
<1>4. \A n \in Names : PostWorkload(p, n) =>
                         PostScenario(p, <<[name |-> n, start |-> 0]>>)
  BY DEF PostWorkload
<1>5. \A n \in Names : <<[name |-> n, start |-> 0]>> \in Seq(Item)
  BY DEF Item
<1>6. ASSUME AddWorkload(p) \/ ReplyLost(p)
      PROVE  ApiInv' /\ ApiMoves /\ PosterInv' /\ now' = now
  <2>1. /\ left[p] # <<>> /\ Create(Head(left[p])) /\ UNCHANGED <<now, pods>>
    BY <1>6 DEF AddWorkload, ReplyLost
  <2>2. Head(left[p]) \in Item /\ Tail(left[p]) \in Seq(Item)
    BY <1>0, <2>1
  <2>3. ApiInv' /\ ApiMoves
    BY <2>1, <2>2, CreateMoves
  <2>4. PosterInv'
    <3>1. PICK s \in Seq(Item) : left' = [left EXCEPT ![p] = s]
      <4>1. <<>> \in Seq(Item)
        OBVIOUS
      <4> QED
        BY <1>6, <2>2, <4>1 DEF AddWorkload, ReplyLost
    <3>2. left' \in [Posters -> Seq(Item)]
      BY <1>0, <3>1
    <3>3. adding' \in [Posters -> BOOLEAN]
      BY <1>0, <1>6 DEF AddWorkload, ReplyLost
    <3> QED
      BY <3>2, <3>3 DEF PosterInv
  <2> QED
    BY <2>1, <2>3, <2>4
<1>7. ASSUME AddFails(p) \/ Added(p)
      PROVE  ApiInv' /\ ApiMoves /\ PosterInv' /\ now' = now
  <2>1. UNCHANGED <<now, apiVars>> /\ PosterInv'
    <3>1. UNCHANGED <<now, apiVars>>
      BY <1>7 DEF AddFails, Added
    <3>2. left' = left \/ left' = [left EXCEPT ![p] = <<>>]
      BY <1>7 DEF AddFails, Added
    <3>3. left' \in [Posters -> Seq(Item)]
      <4>1. <<>> \in Seq(Item)
        OBVIOUS
      <4> QED
        BY <1>0, <3>2, <4>1, Zenon
    <3>4. adding' \in [Posters -> BOOLEAN]
      BY <1>0, <1>7 DEF AddFails, Added
    <3> QED
      BY <3>1, <3>3, <3>4 DEF PosterInv
  <2> QED
    BY <1>1, <2>1
<1> QED
  BY <1>2, <1>3, <1>4, <1>5, <1>6, <1>7 DEF PosterStep

(* A cleaner that answers knows nothing any more.                           *)
LEMMA Answered ==
  ASSUME CleanerTypes, NEW c \in Cleaners, Answer(c)
  PROVE  CleanerTypes' /\ CleanerInv(c)'
         /\ \A d \in Cleaners : d # c => /\ cstep'[d] = cstep[d]
                                         /\ listed'[d] = listed[d]
                                         /\ todo'[d] = todo[d]
<1>1. /\ cstep' = [cstep EXCEPT ![c] = "idle"]
      /\ todo' = [todo EXCEPT ![c] = {}]
      /\ listed' = [listed EXCEPT ![c] = {}]
  BY DEF Answer
<1>2. CleanerTypes'
  BY <1>1 DEF CleanerTypes
<1>3. cstep'[c] = "idle" /\ todo'[c] = {} /\ listed'[c] = {}
  BY <1>1 DEF CleanerTypes
<1>4. CleanerInv(c)'
  BY <1>3 DEF CleanerInv
<1> QED
  BY <1>1, <1>2, <1>4 DEF CleanerTypes

LEMMA CleanerStepInv ==
  ASSUME JobsInv, NEW c \in Cleaners, CleanerStep(c)
  PROVE  /\ ApiInv' /\ ApiMoves /\ now' = now
         /\ CleanerTypes' /\ CleanerInv(c)'
         /\ \A d \in Cleaners : d # c => /\ cstep'[d] = cstep[d]
                                         /\ listed'[d] = listed[d]
                                         /\ todo'[d] = todo[d]
<1>0. /\ ApiInv /\ CleanerTypes /\ CleanerInv(c)
      /\ jobs \in [Names -> Job \cup {None}] /\ pods \in [Uids -> PodPhases]
      /\ now \in 0..MaxClock /\ now \in Nat /\ born \in 0..MaxJobs /\ born \in Nat
      /\ Uids \subseteq Nat
      /\ listed[c] \in SUBSET Entries /\ todo[c] \in SUBSET Entries
  BY JobsAssumption DEF JobsInv, ApiInv, CleanerTypes, Uids
<1> DEFINE Others == \A d \in Cleaners : d # c => /\ cstep'[d] = cstep[d]
                                                  /\ listed'[d] = listed[d]
                                                  /\ todo'[d] = todo[d]
<1>1. \A n \in Existing : /\ n \in Names /\ jobs[n] \in Job /\ jobs[n].uid \in Uids
                          /\ jobs[n].uid <= born
                          /\ Entry(n) \in Entries /\ Entry(n).name = n
                          /\ Entry(n).uid = jobs[n].uid
  BY <1>0, ExistingHasJob DEF ApiInv, Entry, Entries, Job
<1>2. \A u \in Uids : /\ PodEntry(u) \in Entries
                      /\ PodEntry(u).name = 0 /\ PodEntry(u).uid = u
  BY JobsAssumption DEF PodEntry, Entries
<1>3. 0 \notin Existing
  BY JobsAssumption DEF Existing
<1>4. ASSUME UNCHANGED <<now, apiVars>>
      PROVE  ApiInv' /\ ApiMoves /\ now' = now /\ jobs' = jobs /\ pods' = pods /\ born' = born
             /\ Existing' = Existing
  BY <1>0, <1>4, ApiKept DEF apiVars, Existing
<1>5. ASSUME Answer(c), ApiInv', ApiMoves, now' = now
      PROVE  ApiInv' /\ ApiMoves /\ now' = now /\ CleanerTypes' /\ CleanerInv(c)' /\ Others
  BY <1>0, <1>5, Answered
<1>6. CASE ListCompleted(c)
  <2> DEFINE completed == {Entry(n) : n \in {m \in Existing : Completed(m)}}
  <2>1. /\ Goto(c, "idle", "deleteJobs", completed)
        /\ listed' = [listed EXCEPT ![c] = completed]
        /\ UNCHANGED <<now, apiVars>>
    BY <1>6 DEF ListCompleted
  <2>2. completed \in SUBSET Entries
    BY <1>1
  <2>3. \A x \in completed : /\ x.uid <= born /\ Completed(x.name)
                             /\ pods[x.uid] \in {"Succeeded", "gone"}
    BY <1>0, <1>1 DEF ApiInv
  <2> HIDE DEF completed
  <2>4. /\ CleanerTypes' /\ Others
        /\ cstep'[c] = "deleteJobs" /\ todo'[c] = completed /\ listed'[c] = completed
    BY <1>0, <2>1, <2>2 DEF CleanerTypes, Goto
  <2>5. CleanerInv(c)'
    BY <1>4, <2>1, <2>3, <2>4 DEF CleanerInv, Completed
  <2> QED
    BY <1>4, <2>1, <2>4, <2>5
<1>7. CASE DeleteCompleted(c)
  <2> DEFINE x == First(c)
             n == x.name
  <2>1. /\ n \in Existing /\ Gone(n) /\ UNCHANGED <<now, pods, born>>
        /\ Goto(c, "deleteJobs", "deleteJobs", todo[c] \ {x})
        /\ listed' = [listed EXCEPT ![c] = listed[c]]
    <3>1. listed' = listed
      BY <1>7 DEF DeleteCompleted
    <3>2. listed' = [listed EXCEPT ![c] = listed[c]]
      BY <1>0, <3>1 DEF CleanerTypes
    <3> QED
      BY <1>7, <3>2 DEF DeleteCompleted
  <2> HIDE DEF x
  <2>2. n \in Names /\ ApiInv' /\ ApiMoves
    BY <1>1, <2>1, GoneMoves
  <2>3. /\ CleanerTypes' /\ Others
        /\ cstep[c] = "deleteJobs" /\ cstep'[c] = "deleteJobs"
        /\ todo'[c] = todo[c] \ {x} /\ listed'[c] = listed[c]
    BY <1>0, <2>1 DEF CleanerTypes, Goto
  <2>4. /\ jobs' = [jobs EXCEPT ![n] = None] /\ n \notin Existing'
        /\ \A m \in Existing' : m \in Existing /\ jobs'[m] = jobs[m]
    BY <1>0, <2>1, <2>2 DEF Gone, Existing
  <2>5. \A y \in listed[c] : Same(y)' => Same(y) /\ y # x /\ Completed(y.name)'
    BY <1>0, <2>3, <2>4 DEF Same, CleanerInv, Completed
  <2>6. CleanerInv(c)'
    BY <1>0, <2>1, <2>3, <2>5 DEF CleanerInv
  <2> QED
    BY <2>1, <2>2, <2>3, <2>6
<1>8. CASE ListSucceededPods(c)
  <2> DEFINE succeeded == {PodEntry(u) : u \in {v \in Uids : pods[v] = "Succeeded"}}
             list == listed[c] \cup succeeded
  <2>1. /\ todo[c] = {}
        /\ Goto(c, "deleteJobs", "deletePods", succeeded)
        /\ listed' = [listed EXCEPT ![c] = list]
        /\ UNCHANGED <<now, apiVars>>
    BY <1>8 DEF ListSucceededPods
  <2>2. succeeded \in SUBSET Entries
    BY <1>2
  <2>3. \A x \in succeeded : /\ x.uid <= born /\ x.name = 0
                             /\ pods[x.uid] = "Succeeded"
                             /\ PodEntry(x.uid) \in succeeded
    BY <1>0, <1>2 DEF ApiInv
  <2>4. \A x \in listed[c] :
          pods[x.uid] = "Succeeded" => PodEntry(x.uid) \in succeeded
    BY <1>0 DEF Entries
  <2> HIDE DEF succeeded
  <2>5. list \in SUBSET Entries
    BY <1>0, <2>2
  <2> HIDE DEF list
  <2>6. /\ CleanerTypes' /\ Others
        /\ cstep[c] = "deleteJobs" /\ cstep'[c] = "deletePods"
        /\ todo'[c] = succeeded /\ listed'[c] = list
    BY <1>0, <2>1, <2>2, <2>5 DEF CleanerTypes, Goto
  <2>7. \A x \in list : /\ x.uid <= born
                        /\ pods[x.uid] = "gone" \/ PodEntry(x.uid) \in succeeded
                        /\ ~Same(x)
    BY <1>0, <1>3, <2>1, <2>3, <2>4, <2>6 DEF list, CleanerInv, Same
  <2>8. CleanerInv(c)'
    BY <1>4, <2>1, <2>3, <2>6, <2>7 DEF CleanerInv, Same, PodEntry
  <2> QED
    BY <1>4, <2>1, <2>6, <2>8
<1>9. ASSUME NEW x \in todo[c], DeletePod(c, x)
      PROVE  ApiInv' /\ ApiMoves /\ now' = now /\ CleanerTypes' /\ CleanerInv(c)' /\ Others
  <2>1. /\ pods' = [pods EXCEPT ![x.uid] = "gone"]
        /\ jobs' = jobs /\ born' = born /\ now' = now
        /\ Goto(c, "deletePods", "deletePods", todo[c] \ {x})
        /\ listed' = [listed EXCEPT ![c] = listed[c]]
    <3>1. listed' = listed
      BY <1>9 DEF DeletePod
    <3>2. listed' = [listed EXCEPT ![c] = listed[c]]
      BY <1>0, <3>1 DEF CleanerTypes
    <3> QED
      BY <1>9, <3>2 DEF DeletePod
  <2>2. /\ x.uid \in Uids /\ x.uid <= born
        /\ pods[x.uid] = "Succeeded"
    BY <1>0, <1>9 DEF Entries, CleanerInv, DeletePod, Goto
  <2>3. Existing' = Existing
    BY <2>1 DEF Existing
  <2>4. \A u \in Uids : pods'[u] = IF u = x.uid THEN "gone" ELSE pods[u]
    BY <1>0, <2>1
  <2>5. ApiMoves
    BY <1>0, <2>1, <2>4 DEF ApiMoves
  <2>6. ApiInv'
    <3>1. \A m \in Existing : pods'[jobs[m].uid] # "none" => jobs[m].suspend = FALSE
      BY <1>0, <1>1, <2>2, <2>4 DEF ApiInv
    <3> QED
      BY <1>0, <1>1, <2>1, <2>2, <2>3, <2>4, <3>1 DEF ApiInv, Completed, PodPhases
  <2>7. /\ CleanerTypes' /\ Others
        /\ cstep[c] = "deletePods" /\ cstep'[c] = "deletePods"
        /\ todo'[c] = todo[c] \ {x} /\ listed'[c] = listed[c]
    BY <1>0, <2>1 DEF CleanerTypes, Goto
  <2>8. CleanerInv(c)'
    BY <1>0, <1>2, <2>1, <2>3, <2>4, <2>7 DEF CleanerInv, Same, PodEntry, Entries
  <2> QED
    BY <2>1, <2>5, <2>6, <2>7, <2>8
<1>10. CASE Cleared(c) \/ NonePending(c) \/ ClearFails(c) \/ PendingFails(c)
  <2>1. Answer(c) /\ UNCHANGED <<now, apiVars>>
    BY <1>10 DEF Cleared, NonePending, ClearFails, PendingFails
  <2> QED
    BY <1>4, <1>5, <2>1
<1>11. CASE ListCandidates(c)
  <2> DEFINE candidates == {Entry(n) : n \in {m \in Existing : ~Completed(m)}}
  <2>1. /\ Goto(c, "idle", "pendingPods", candidates)
        /\ listed' = [listed EXCEPT ![c] = {}]
        /\ UNCHANGED <<now, apiVars>>
    BY <1>11 DEF ListCandidates
  <2>2. candidates \in SUBSET Entries /\ \A x \in candidates : x.uid <= born
    BY <1>1
  <2> HIDE DEF candidates
  <2>3. /\ CleanerTypes' /\ Others
        /\ cstep'[c] = "pendingPods" /\ todo'[c] = candidates /\ listed'[c] = {}
    BY <1>0, <2>1, <2>2 DEF CleanerTypes, Goto
  <2>4. CleanerInv(c)'
    BY <1>4, <2>1, <2>2, <2>3 DEF CleanerInv
  <2> QED
    BY <1>4, <2>1, <2>3, <2>4
<1>12. CASE ListPendingPods(c)
  <2>1. PICK x \in todo[c] : HasPendingPod(x.name) /\ Goto(c, "pendingPods", "deletePending", {x})
    BY <1>12 DEF ListPendingPods
  <2>2. /\ listed' = [listed EXCEPT ![c] = listed[c]] /\ UNCHANGED <<now, apiVars>>
    <3>1. listed' = listed /\ UNCHANGED <<now, apiVars>>
      BY <1>12 DEF ListPendingPods
    <3> QED
      BY <1>0, <3>1 DEF CleanerTypes
  <2>3. {x} \in SUBSET Entries
    BY <1>0
  <2>4. /\ CleanerTypes' /\ Others
        /\ cstep'[c] = "deletePending" /\ todo'[c] = {x} /\ listed'[c] = listed[c]
    BY <1>0, <2>1, <2>2, <2>3 DEF CleanerTypes, Goto
  <2>5. x.name \in Existing /\ jobs[x.name].suspend = FALSE
    BY <1>0, <2>1 DEF HasPendingPod, ApiInv
  <2>6. CleanerInv(c)'
    BY <1>0, <1>4, <2>2, <2>4, <2>5 DEF CleanerInv
  <2> QED
    BY <1>4, <2>2, <2>4, <2>6
<1>13. CASE DeletePending(c)
  <2> DEFINE n == First(c).name
  <2>1. /\ n \in Existing /\ Gone(n) /\ pods' = [pods EXCEPT ![jobs[n].uid] = "gone"]
        /\ Answer(c) /\ UNCHANGED <<now, born>>
    BY <1>13 DEF DeletePending
  <2> HIDE DEF n
  <2>2. ApiInv' /\ ApiMoves
    BY <1>1, <2>1, GoneMoves
  <2> QED
    BY <1>5, <2>1, <2>2
<1> QED
  BY <1>6, <1>7, <1>8, <1>9, <1>10, <1>11, <1>12, <1>13 DEF CleanerStep

-----------------------------------------------------------------------------
LEMMA NextInv == JobsInv /\ [Next]_vars => JobsInv'
<1> SUFFICES ASSUME JobsInv, [Next]_vars PROVE JobsInv'
  OBVIOUS
<1>0. now \in Nat /\ now \in 0..MaxClock /\ MaxClock \in Nat
  BY JobsAssumption DEF JobsInv, ApiInv
<1>1. CASE Tick
  <2>1. /\ now' \in 0..MaxClock /\ now <= now' /\ UNCHANGED <<apiVars, starterVars>>
        /\ UNCHANGED posterVars /\ UNCHANGED cleanerVars
    BY <1>0, <1>1 DEF Tick
  <2> QED
    BY <2>1, ApiKept, NothingRecorded DEF JobsInv, PosterInv, posterVars
<1>2. CASE Cluster
  <2>1. now' = now /\ UNCHANGED starterVars /\ UNCHANGED posterVars /\ UNCHANGED cleanerVars
    BY <1>2 DEF Cluster, PodStarts, PodRuns, PodSucceeds, PodFails, JobFails
  <2> QED
    BY <1>0, <1>2, <2>1, ClusterMoves, NothingRecorded DEF JobsInv, PosterInv, posterVars
<1>3. ASSUME NEW p \in Posters, PosterStep(p) PROVE JobsInv'
  <2>1. UNCHANGED starterVars /\ UNCHANGED cleanerVars
    BY <1>3 DEF PosterStep, PostScenario, PostWorkload, AddWorkload, AddFails, ReplyLost, Added
  <2> QED
    BY <1>0, <1>3, <2>1, PosterStepInv, NothingRecorded DEF JobsInv
<1>4. CASE StarterStep
  <2>1. UNCHANGED posterVars /\ UNCHANGED cleanerVars
    BY <1>4 DEF StarterStep, ListSuspended, NotDue, IsDue, GetJob, UpdateJob, StartFails
  <2>2. cstep' = cstep /\ listed' = listed /\ todo' = todo
    BY <2>1 DEF cleanerVars
  <2> QED
    BY <1>4, <2>1, <2>2, StarterStepInv, CleanerKept
    DEF JobsInv, PosterInv, posterVars, CleanerTypes
<1>5. ASSUME NEW c \in Cleaners, CleanerStep(c) PROVE JobsInv'
  <2>1. UNCHANGED starterVars /\ UNCHANGED posterVars
    BY <1>5 DEF CleanerStep, ListCompleted, DeleteCompleted, ListSucceededPods, DeletePod,
                Cleared, ListCandidates, ListPendingPods, NonePending, DeletePending, ClearFails, PendingFails
  <2>2. /\ ApiInv' /\ ApiMoves /\ now' = now /\ CleanerTypes' /\ CleanerInv(c)'
        /\ \A d \in Cleaners : d # c => CleanerInv(d)'
    BY <1>5, CleanerStepInv, CleanerKept
  <2>3. StarterInv'
    BY <1>0, <2>1, <2>2, NothingRecorded
  <2> QED
    BY <2>1, <2>2, <2>3 DEF JobsInv, PosterInv, posterVars
<1>6. CASE UNCHANGED vars
  <2>1. /\ UNCHANGED <<apiVars, starterVars>> /\ UNCHANGED posterVars /\ UNCHANGED cleanerVars
        /\ now' = now
    BY <1>6 DEF vars
  <2> QED
    BY <1>0, <2>1, ApiKept, NothingRecorded DEF JobsInv, PosterInv, posterVars
<1> QED
  BY <1>1, <1>2, <1>3, <1>4, <1>5, <1>6 DEF Next

(* JobsInv holds in every reachable state.                                  *)
THEOREM Invariance == Spec => []JobsInv
  BY InitInv, NextInv, PTL DEF Spec

-----------------------------------------------------------------------------
(* Every variable keeps its type.                                           *)
THEOREM TypeCorrect == Spec => []TypeOK
<1>1. JobsInv => TypeOK
  BY DEF JobsInv, ApiInv, StarterInv, PosterInv, CleanerTypes, TypeOK
<1> QED
  BY <1>1, Invariance, PTL

(* However many DELETE requests race with each other, with the starter and  *)
(* with new jobs, what is about to be deleted is what was seen.             *)
THEOREM StaleListsDeleteNothingElse == Spec => []DeletesWhatItSaw
<1>1. JobsInv => DeletesWhatItSaw
  <2> SUFFICES ASSUME JobsInv, NEW c \in Cleaners, NEW x \in todo[c],
                      x.name > 0, jobs[x.name] # None, jobs[x.name].uid = x.uid
               PROVE  /\ cstep[c] = "deleteJobs" => jobs[x.name].status = "succeeded"
                      /\ cstep[c] = "deletePending" => jobs[x.name].suspend = FALSE
    BY DEF DeletesWhatItSaw
  <2>1. x \in Entries /\ CleanerInv(c)
    BY DEF JobsInv, CleanerTypes
  <2>2. Same(x)
    BY <2>1 DEF Entries, Same, Existing
  <2> QED
    BY <2>1, <2>2 DEF CleanerInv, Completed
<1> QED
  BY <1>1, Invariance, PTL

(* However often pods fail and others follow, and whoever else deletes, a   *)
(* DELETE completed that reaches its end without an error has left no job   *)
(* it listed, nor the pod that job succeeded with (kubeclient.go            *)
(* ClearCompletedWorkloads).  It says nothing of pods that failed: they are *)
(* not looked at there, and stay.                                           *)
THEOREM ClearingIsComplete == Spec => []ClearedAll
<1>1. JobsInv => ClearedAll
  <2> SUFFICES ASSUME JobsInv, NEW c \in Cleaners, cstep[c] = "deletePods", todo[c] = {},
                      NEW x \in listed[c]
               PROVE  /\ pods[x.uid] = "gone"
                      /\ x.name > 0 => jobs[x.name] = None \/ jobs[x.name].uid # x.uid
    BY DEF ClearedAll
  <2>1. x \in Entries /\ CleanerInv(c)
    BY DEF JobsInv, CleanerTypes
  <2>2. pods[x.uid] = "gone" /\ ~Same(x)
    BY <2>1 DEF CleanerInv
  <2> QED
    BY <2>1, <2>2 DEF Entries, Same, Existing
<1> QED
  BY <1>1, Invariance, PTL

(* A suspended job is started only by UpdateJob.                            *)
LEMMA OnlyTheStarterStarts ==
  ASSUME JobsInv, [Next]_vars, NEW n \in Names,
         jobs[n] # None, jobs'[n] # None, jobs[n].suspend = TRUE, jobs'[n].suspend = FALSE
  PROVE  UpdateJob /\ n = last.name
<1>0. /\ jobs \in [Names -> Job \cup {None}] /\ jobs[n] \in Job /\ n \in Existing
      /\ jobs'[n] # jobs[n]
  BY DEF JobsInv, ApiInv, Existing
<1>1. ASSUME Cluster PROVE FALSE
  <2>1. ASSUME NEW u \in Uids, PodSucceeds(u) PROVE FALSE
    BY <1>0, <2>1 DEF PodSucceeds, Job
  <2>2. ASSUME NEW m \in Names, JobFails(m) PROVE FALSE
    BY <1>0, <2>2 DEF JobFails, Job
  <2> QED
    BY <1>0, <1>1, <2>1, <2>2 DEF Cluster, PodStarts, PodRuns, PodFails
<1>2. ASSUME NEW p \in Posters, PosterStep(p) PROVE FALSE
  <2>1. ASSUME NEW item, Create(item) PROVE FALSE
    BY <1>0, <2>1 DEF Create
  <2> QED
    BY <1>0, <1>2, <2>1
    DEF PosterStep, PostScenario, PostWorkload, AddWorkload, AddFails, ReplyLost, Added, apiVars
<1>3. ASSUME NEW c \in Cleaners, CleanerStep(c) PROVE FALSE
  <2>1. ASSUME NEW m, Gone(m) PROVE FALSE
    BY <1>0, <2>1 DEF Gone
  <2> QED
    BY <1>0, <1>3, <2>1
    DEF CleanerStep, ListCompleted, DeleteCompleted, ListSucceededPods, DeletePod, Cleared,
        ListCandidates, ListPendingPods, NonePending, DeletePending, ClearFails, PendingFails, apiVars
<1>4. ASSUME StarterStep PROVE UpdateJob
  BY <1>0, <1>4 DEF StarterStep, ListSuspended, NotDue, IsDue, GetJob, StartFails, apiVars
<1>5. UpdateJob
  BY <1>0, <1>1, <1>2, <1>3, <1>4 DEF Next, Tick, vars, apiVars
<1>6. n = last.name
  BY <1>0, <1>5 DEF UpdateJob
<1> QED
  BY <1>5, <1>6

(* The job started is the one read, and before its date only if another one *)
(* took the name since the list (orchestration.go CheckStartJobs).          *)
THEOREM StartsNoJobEarly == Spec => StartsAtItsDate
<1> DEFINE Timely ==
      \A n \in Names :
        jobs[n] # None /\ jobs'[n] # None /\ jobs[n].suspend /\ ~jobs'[n].suspend
          => /\ jobs[n].uid = jobs'[n].uid
             /\ jobs[n] = got
             /\ jobs[n].start < now \/ jobs[n].uid # last.job.uid
<1>1. JobsInv /\ JobsInv' /\ [Next]_vars => Timely
  <2> SUFFICES ASSUME JobsInv, JobsInv', [Next]_vars, NEW n \in Names,
                      jobs[n] # None, jobs'[n] # None, jobs[n].suspend, ~jobs'[n].suspend
               PROVE  /\ jobs[n].uid = jobs'[n].uid
                      /\ jobs[n] = got
                      /\ jobs[n].start < now \/ jobs[n].uid # last.job.uid
    BY Zenon
  <2>1. /\ jobs \in [Names -> Job \cup {None}] /\ jobs' \in [Names -> Job \cup {None}]
        /\ StarterInv
    BY DEF JobsInv, ApiInv
  <2>2. jobs[n] \in Job /\ jobs'[n] \in Job
    BY <2>1
  <2>3. jobs[n].suspend = TRUE /\ jobs'[n].suspend = FALSE
    <3>1. jobs[n].suspend \in BOOLEAN /\ jobs'[n].suspend \in BOOLEAN
      BY <2>2 DEF Job
    <3> QED
      BY <3>1, Zenon
  <2>4. UpdateJob /\ n = last.name
    BY <2>3, OnlyTheStarterStarts
  <2>5. sstep = "update" /\ jobs[n] = got /\ jobs' = [jobs EXCEPT ![n].suspend = FALSE]
    BY <2>4 DEF UpdateJob
  <2>6. jobs'[n].uid = jobs[n].uid
    BY <2>1, <2>2, <2>5 DEF Job
  <2>7. Due(last.job) /\ (got.uid = last.job.uid => got.start = last.job.start)
    BY <2>1, <2>5 DEF StarterInv
  <2> QED
    BY <2>5, <2>6, <2>7 DEF Due
<1> QED
  BY <1>1, Invariance, PTL DEF Spec, StartsAtItsDate

=============================================================================
