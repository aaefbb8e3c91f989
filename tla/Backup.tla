-------------------------------- MODULE Backup --------------------------------
(***************************************************************************)
(* The backup controller: workers reconcile the RedisClusterBackups of one *)
(* cluster, each by one worker at a time.  A pass reads its backup, and    *)
(* the labels of the others, from a cache that may lag; it reads Jobs from *)
(* the API server.  Two backups should not run together: the one that      *)
(* finds a running one is ignored.  Every pass looks anew at what a backup *)
(* needs (its spec, the cluster, secrets, the bucket), and any of it may   *)
(* have changed since the last pass.                                       *)
(***************************************************************************)
EXTENDS Integers, FiniteSets

CONSTANTS
  Backups,    \* the RedisClusterBackups of the cluster
  Workers,    \* maxConcurrentReconciles
  MaxFaults   \* bound: the operator's restarts and errors of the API server

ASSUME BackupAssumption ==
  /\ IsFiniteSet(Backups)
  /\ Workers \in Nat \ {0}
  /\ MaxFaults \in Nat

VARIABLES
  api,      \* the backups as the API server stores them
  cache,    \* the operator's cached copies
  seen,     \* the copy each pass works on, as last read or written
  pc,
  queued,   \* is the backup in the work queue?
  job,      \* the batch Job of each backup
  dropped,  \* history: a pass gave up a backup and left it uncompleted or labelled
  faults

vars == <<api, cache, seen, pc, queued, job, dropped, faults>>

Completed == {"Succeeded", "Failed", "Ignored"}

CR == [started : BOOLEAN, phase : {"", "Running"} \cup Completed, label : BOOLEAN]

TypeOK ==
  /\ api \in [Backups -> CR]
  /\ cache \in [Backups -> CR]
  /\ seen \in [Backups -> CR]
  /\ pc \in [Backups -> {"idle", "start", "sort", "check", "run", "label", "create",
                         "job", "unlabel"}]
  /\ queued \in [Backups -> BOOLEAN]
  /\ job \in [Backups -> {"none", "active", "complete", "failed"}]
  /\ dropped \in [Backups -> BOOLEAN]
  /\ faults \in 0 .. MaxFaults

New == [started |-> FALSE, phase |-> "", label |-> FALSE]

Init ==
  /\ api = [b \in Backups |-> New]
  /\ cache = api
  /\ seen = api
  /\ pc = [b \in Backups |-> "idle"]
  /\ queued = [b \in Backups |-> TRUE]
  /\ job = [b \in Backups |-> "none"]
  /\ dropped = [b \in Backups |-> FALSE]
  /\ faults = 0

-----------------------------------------------------------------------------
Fault == faults < MaxFaults /\ faults' = faults + 1

Conflict(b) == seen[b] # api[b]

\* A write of backup b succeeds, and the copy becomes what the server has.
Write(b, x) ==
  /\ ~ Conflict(b)
  /\ api' = [api EXCEPT ![b] = x]
  /\ seen' = [seen EXCEPT ![b] = x]
  /\ UNCHANGED faults

\* The caller gets an error: the copy is old, or the request fails, after it
\* took effect or before.
WriteFails(b, x) ==
  /\ \/ Conflict(b) /\ UNCHANGED <<api, faults>>
     \/ Fault /\ UNCHANGED api
     \/ Fault /\ ~ Conflict(b) /\ api' = [api EXCEPT ![b] = x]
  /\ UNCHANGED seen

Goto(b, l) == pc' = [pc EXCEPT ![b] = l] /\ UNCHANGED queued

\* An error return puts the request back, any other does not.
Return(b) == pc' = [pc EXCEPT ![b] = "idle"] /\ UNCHANGED queued
Retry(b)  == /\ pc' = [pc EXCEPT ![b] = "idle"]
             /\ queued' = [queued EXCEPT ![b] = TRUE]

\* A write, then step l; the request is retried when the write fails.
WriteOrRetry(b, x, l) ==
  \/ Write(b, x) /\ Goto(b, l)
  \/ WriteFails(b, x) /\ Retry(b)

\* A read, or another call that changes no backup, fails; the request is retried.
CallFails(b) == Fault /\ Retry(b) /\ UNCHANGED <<api, seen, dropped>>

\* Is the backup completed, so that nothing is left to do for it?
Finished(x) == x.phase \in Completed /\ ~ x.label

\* markAsFailedBackup by a caller that loses its error and returns nil.  The
\* label, if there is one, stays.
Refuse(b) ==
  LET x == [seen[b] EXCEPT !.phase = "Failed"] IN
  /\ Write(b, x) \/ WriteFails(b, x)
  /\ Return(b)
  /\ dropped' = [dropped EXCEPT ![b] = @ \/ ~ Finished(api'[b])]

\* The same by a caller that returns the error.
RefuseOrRetry(b) ==
  LET x == [seen[b] EXCEPT !.phase = "Failed"] IN
  \/ /\ Write(b, x) /\ Return(b)
     /\ dropped' = [dropped EXCEPT ![b] = @ \/ x.label]
  \/ WriteFails(b, x) /\ Retry(b) /\ UNCHANGED dropped

-----------------------------------------------------------------------------
(***************************************************************************)
(* Reconcile and create.                                                   *)
(***************************************************************************)
StartPass(b) ==
  /\ pc[b] = "idle"
  /\ queued[b]
  /\ Cardinality({c \in Backups : pc[c] # "idle"}) < Workers
  /\ queued' = [queued EXCEPT ![b] = FALSE]
  /\ seen' = [seen EXCEPT ![b] = cache[b]]
  /\ pc' = [pc EXCEPT ![b] = "start"]
  /\ UNCHANGED <<api, cache, job, dropped, faults>>

SetStartTime(b) ==
  /\ pc[b] = "start"
  /\ \/ ~ seen[b].started /\ WriteOrRetry(b, [seen[b] EXCEPT !.started = TRUE], "sort")
     \/ seen[b].started /\ Goto(b, "sort") /\ UNCHANGED <<api, seen, faults>>
  /\ UNCHANGED <<cache, job, dropped>>

\* Mutant: a failed backup is tried again.
RetriesFailed(b) ==
  /\ pc[b] = "sort"
  /\ Goto(b, IF seen[b].phase \in {"Succeeded", "Ignored"} THEN "unlabel" ELSE "check")
  /\ UNCHANGED <<api, cache, seen, job, dropped, faults>>

\* Completed backups lose the label and nothing else happens to them.
SkipCompleted(b) ==
  /\ pc[b] = "sort"
  /\ Goto(b, IF seen[b].phase \in Completed THEN "unlabel" ELSE "check")
  /\ UNCHANGED <<api, cache, seen, job, dropped, faults>>

\* isBackupRunning: a backup is labelled Running, says the cache, and there
\* is a Job, finished or not, says the API server.
BackupRunning ==
  /\ \E b \in Backups : cache[b].label
  /\ \E b \in Backups : job[b] # "none"

\* ValidateBackup (is the spec complete, does the cluster exist?) refuses the
\* backup or not, whatever it said before; then isBackupRunning.
Validate(b) ==
  /\ pc[b] = "check"
  /\ \/ Refuse(b)
     \/ CallFails(b)
     \/ /\ Goto(b, IF BackupRunning THEN "job" ELSE "run")
        /\ UNCHANGED <<api, seen, dropped, faults>>
  /\ UNCHANGED <<cache, job>>

\* Secret and bucket access (Refuse), then the Job's volume and containers
\* (RefuseOrRetry): each may turn the backup down, in any pass.  Then phase
\* Running.
Run(b) ==
  /\ pc[b] = "run"
  /\ \/ Refuse(b)
     \/ RefuseOrRetry(b)
     \/ CallFails(b)
     \/ WriteOrRetry(b, [seen[b] EXCEPT !.phase = "Running"], "label") /\ UNCHANGED dropped
  /\ UNCHANGED <<cache, job>>

\* Mutant: the label is left out.
NoLabel(b) ==
  /\ pc[b] = "label"
  /\ Goto(b, "create")
  /\ UNCHANGED <<api, cache, seen, job, dropped, faults>>

Label(b) ==
  /\ pc[b] = "label"
  /\ WriteOrRetry(b, [seen[b] EXCEPT !.label = TRUE], "create")
  /\ UNCHANGED <<cache, job, dropped>>

\* The Job is there, created now or before: an error unless it was created now
\* and the answer came.
CreateJob(b) ==
  /\ pc[b] = "create"
  /\ \/ job[b] = "none" /\ job' = [job EXCEPT ![b] = "active"] /\ Return(b) /\ UNCHANGED faults
     \/ job[b] = "none" /\ job' = [job EXCEPT ![b] = "active"] /\ Retry(b) /\ Fault
     \/ job[b] # "none" /\ UNCHANGED <<job, faults>> /\ Retry(b)
     \/ UNCHANGED job /\ Retry(b) /\ Fault
  /\ UNCHANGED <<api, cache, seen, dropped>>

-----------------------------------------------------------------------------
(***************************************************************************)
(* handleBackupJob.                                                        *)
(***************************************************************************)
\* Mutant: whatever finished, the backup is said to have succeeded.
AlwaysSucceeded(j) == "Succeeded"

\* Mutant: the Job's condition is stored as the phase.
ConditionAsPhase(j) == j

\* Conditions[0]: a Job of the API version in go.mod has one condition when it
\* is finished, Complete or Failed.
PhaseOf(j) == IF j = "complete" THEN "Succeeded" ELSE "Failed"

\* No Job of this backup: another backup is running, this one is ignored; the
\* error of markAsIgnoredBackup is lost.  A Job that runs: try later.  A
\* finished Job: the backup completes.
HandleBackupJob(b) ==
  /\ pc[b] = "job"
  /\ \/ /\ job[b] = "none"
        /\ LET x == [seen[b] EXCEPT !.phase = "Ignored"] IN Write(b, x) \/ WriteFails(b, x)
        /\ Goto(b, "unlabel")
        /\ UNCHANGED dropped
     \/ job[b] = "active" /\ UNCHANGED <<api, seen, dropped, faults>> /\ Retry(b)
     \/ /\ job[b] \in {"complete", "failed"}
        /\ WriteOrRetry(b, [seen[b] EXCEPT !.phase = PhaseOf(job[b])], "unlabel")
        /\ UNCHANGED dropped
     \/ CallFails(b)
  /\ UNCHANGED <<cache, job>>

\* Mutant: the label stays.
KeepLabel(b) ==
  /\ pc[b] = "unlabel"
  /\ Return(b)
  /\ UNCHANGED <<api, cache, seen, job, dropped, faults>>

\* A backup whose phase Ignored was not stored loses the label without it.
Unlabel(b) ==
  /\ pc[b] = "unlabel"
  /\ LET x == [seen[b] EXCEPT !.label = FALSE] IN
     \/ /\ Write(b, x) /\ Return(b)
        /\ dropped' = [dropped EXCEPT ![b] = @ \/ ~ Finished(x)]
     \/ WriteFails(b, x) /\ Retry(b) /\ UNCHANGED dropped
  /\ UNCHANGED <<cache, job>>

-----------------------------------------------------------------------------
(***************************************************************************)
(* The environment.  Labels and status leave the generation alone, so no   *)
(* write of the operator queues a backup again; the end of its Job does.   *)
(***************************************************************************)
CacheSync(b) ==
  /\ cache[b] # api[b]
  /\ cache' = [cache EXCEPT ![b] = api[b]]
  /\ UNCHANGED <<api, seen, pc, queued, job, dropped, faults>>

JobEnds(b) ==
  /\ job[b] = "active"
  /\ \E r \in {"complete", "failed"} : job' = [job EXCEPT ![b] = r]
  /\ queued' = [queued EXCEPT ![b] = TRUE]
  /\ UNCHANGED <<api, cache, seen, pc, dropped, faults>>

\* The operator stops and starts, and lists every backup again.
Crash ==
  /\ Fault
  /\ pc' = [b \in Backups |-> "idle"]
  /\ queued' = [b \in Backups |-> TRUE]
  /\ cache' = api
  /\ UNCHANGED <<api, seen, job, dropped>>

-----------------------------------------------------------------------------
Pass(b) ==
  \/ SetStartTime(b) \/ SkipCompleted(b) \/ Validate(b) \/ Run(b) \/ Label(b)
  \/ CreateJob(b) \/ HandleBackupJob(b) \/ Unlabel(b)

Next ==
  \/ \E b \in Backups : StartPass(b) \/ Pass(b) \/ CacheSync(b) \/ JobEnds(b)
  \/ Crash

Spec == Init /\ [][Next]_vars

\* Workers go on, the queue serves every request that stays in it, the watch
\* delivers and Jobs end.
FairSpec ==
  /\ Spec
  /\ \A b \in Backups : /\ SF_vars(StartPass(b))
                        /\ WF_vars(Pass(b))
                        /\ WF_vars(CacheSync(b))
                        /\ WF_vars(JobEnds(b))

-----------------------------------------------------------------------------
(***************************************************************************)
(* Properties.                                                             *)
(***************************************************************************)
\* A backup that is completed stays as it is, whatever stale copies passes
\* work on ("Do not process completed ... backups", sync_handler.go:36-39).
CompletedIsFinal ==
  [][\A b \in Backups : api[b].phase \in Completed => api'[b].phase = api[b].phase]_vars

\* The phase tells what became of the backup's own Job: a restore may rely on
\* a backup that succeeded, one that is ignored never had a Job, and one that
\* failed has none or a failed one, unless a check turned it down when it had
\* its label already (sync_handler.go:53-64, 443-521).
PhaseTellsJob ==
  \A b \in Backups :
    /\ api[b].phase = "Succeeded" => job[b] = "complete"
    /\ api[b].phase = "Failed" => job[b] \in {"none", "failed"} \/ dropped[b]
    /\ api[b].phase = "Ignored" => job[b] = "none"

\* A Job that runs is announced: its backup is labelled Running for
\* isBackupRunning of the others to see (sync_handler.go:164-192), unless a
\* check of a later pass turned it down.
JobAnnounced ==
  \A b \in Backups :
    job[b] = "active" => (api[b].phase = "Running" /\ api[b].label) \/ dropped[b]

\* A backup with a Job still runs, labelled, or is completed.
JobTracked ==
  \A b \in Backups :
    job[b] # "none" =>
      /\ api[b].phase = "Running" => api[b].label
      /\ api[b].phase \in {"Running"} \cup Completed

\* What a pass knows where it stands.  Past the test of Completed its copy is
\* not completed.  A pass whose copy is the stored one sees the label of a
\* backup with a Job, so that it does not get to run one again.  The copy it
\* labels and creates the Job from is the stored one, and it only unlabels a
\* stored backup that is completed or has no Job.
PassKnows ==
  \A b \in Backups :
    /\ pc[b] \in {"check", "run", "job"} => seen[b].phase \notin Completed
    /\ pc[b] \in {"start", "sort", "check"} =>
         \/ seen[b] # api[b] \/ job[b] = "none"
         \/ api[b].phase \in Completed \/ cache[b].label
    /\ pc[b] = "run" => seen[b] # api[b] \/ job[b] = "none"
    /\ pc[b] \in {"label", "create"} => seen[b] = api[b] /\ api[b].phase = "Running"
    /\ pc[b] = "create" => api[b].label
    /\ pc[b] = "unlabel" =>
         seen[b] # api[b] \/ seen[b].phase \in Completed \/ job[b] = "none"

\* The inductive invariant: the promises, and what the passes know that keeps
\* them however old the copies they work on.
IInv == TypeOK /\ PhaseTellsJob /\ JobAnnounced /\ JobTracked /\ PassKnows

\* Every backup completes and then loses the label, after any finite number of
\* errors and restarts, unless a pass turned it down without storing that or
\* with its label on (sync_handler.go:57-64, 102-109, 124-131, 451).
EndsUnlessDropped ==
  \A b \in Backups : queued[b] ~> (Finished(api[b]) \/ dropped[b])
===============================================================================
