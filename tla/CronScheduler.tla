---------------------------- MODULE CronScheduler ----------------------------
(***************************************************************************)
(* The cron scheduler: src/src/cron/scheduler.py, its store (store.py) and *)
(* default jobs (defaults.py).  What a system handler or the enqueueing of *)
(* an agent's command does is outside: it returns or raises.               *)
(*                                                                         *)
(* A job exists three times: as a CronJob object in _jobs, as an entry of  *)
(* jobs.json, and as a trigger registered with APScheduler.  An execution  *)
(* works on the object that it looked up when it began, also when the job  *)
(* is replaced or removed meanwhile: objects[id] is the sequence of the    *)
(* CronJob objects that this process made for id, the last being current.  *)
(*                                                                         *)
(* An execution can be suspended where it awaits: in the cron:fire hook,   *)
(* in the handler or enqueue function, in the cron:error hook.  APScheduler*)
(* fires any trigger it has at any time, but never a job that still has an *)
(* execution of its own (max_instances is 1).  Triggers are "daily" and    *)
(* "hourly", which recur, "none", from which _build_trigger builds nothing,*)
(* and "bad", whose constructor raises; one-shot ("at") jobs are left out. *)
(* A file that cannot be parsed is the same as one without jobs.           *)
(*                                                                         *)
(* A definition marked (mutant) is a plausible bug that a property must    *)
(* catch; no specification uses it.                                        *)
(***************************************************************************)
EXTENDS Naturals, Sequences, SequencesExt

CONSTANTS
    Ids,           \* job ids
    Defaults,      \* ids of the default jobs, which start() adds
    Triggers,      \* schedules that a client may give a job
    ClientOps,     \* what clients of the instance do beyond adding and removing
    Faults,        \* how the process may die: "crash", "torn"
    MaxEdits,      \* bound on changes by clients
    MaxExecutions, \* bound on executions
    MaxStarts      \* bound on starts of the process

ASSUME CronAssumption ==
    /\ Defaults \subseteq Ids
    /\ Triggers \subseteq {"daily", "hourly", "none", "bad"}
    /\ ClientOps \subseteq {"enable", "force", "replace"}
    /\ Faults \subseteq {"crash", "torn"}
    /\ MaxEdits \in Nat /\ MaxExecutions \in Nat /\ MaxStarts \in Nat

VARIABLES
    up,         \* the scheduler runs
    live,       \* the ids in _jobs
    objects,    \* id -> the CronJob objects of this process, oldest first
    file,       \* jobs.json: its ids -> job
    schedule,   \* APScheduler: the ids registered -> trigger
    executions, \* executions under way
    wanted,     \* history: the definitions that clients and defaults gave
    counted,    \* history: executions begun and ended of each job, since added
    mishaps,    \* history: what has gone wrong so far
    used        \* edits, executions and starts so far

vars == <<up, live, objects, file, schedule, executions, wanted, counted, mishaps, used>>

Status == {"never", "running", "success", "error"}
Job == [trigger : {"daily", "hourly", "none", "bad"}, enabled : BOOLEAN,
        status : Status, errors : Nat, total : Nat]
Execution == [id : Ids, object : Nat, by : {"trigger", "request"},
              phase : {"fired", "executing", "failing"}]

NewJob(trigger, enabled) ==
    [trigger |-> trigger, enabled |-> enabled, status |-> "never", errors |-> 0, total |-> 0]
Definition(job) == [trigger |-> job.trigger, enabled |-> job.enabled]
Current(id) == Last(objects[id])
Empty == [id \in {} |-> NewJob("none", FALSE)]
With(f, id, x) == [i \in DOMAIN f \union {id} |-> IF i = id THEN x ELSE f[i]]
Without(f, id) == [i \in DOMAIN f \ {id} |-> f[i]]

Builds(trigger) == trigger \in {"daily", "hourly"}
Raises(trigger) == trigger = "bad"

TypeOK ==
    /\ up \in BOOLEAN
    /\ live \subseteq Ids /\ \A id \in live : objects[id] # <<>>
    /\ objects \in [Ids -> Seq(Job)]
    /\ DOMAIN file \subseteq Ids /\ \A id \in DOMAIN file : file[id] \in Job
    /\ DOMAIN schedule \subseteq Ids /\ \A id \in DOMAIN schedule : Builds(schedule[id])
    /\ executions \in Seq(Execution)
    /\ \A i \in DOMAIN executions : executions[i].object \in DOMAIN objects[executions[i].id]
    /\ DOMAIN wanted \subseteq Ids
    /\ counted \in [Ids -> [begun : Nat, ended : Nat]]
    /\ mishaps \subseteq {"torn", "raised", "replaced"}
    /\ used \in [edits : 0..MaxEdits, executions : 0..MaxExecutions, starts : 0..MaxStarts]

\* jobs.json holds nothing, or what a user wrote: a default job disabled and a
\* job of the user's own.
Init ==
    /\ up = FALSE /\ live = {}
    /\ objects = [id \in Ids |-> <<>>]
    /\ \/ file = Empty
       \/ file = [id \in Ids |-> NewJob("daily", id \notin Defaults)]
    /\ schedule = Empty /\ executions = <<>>
    /\ wanted = [id \in DOMAIN file |-> Definition(file[id])]
    /\ counted = [id \in Ids |-> [begun |-> 0, ended |-> 0]]
    /\ mishaps = {}
    /\ used = [edits |-> 0, executions |-> 0, starts |-> 0]

Edit ==
    /\ up /\ used.edits < MaxEdits
    /\ used' = [used EXCEPT !.edits = @ + 1]

-----------------------------------------------------------------------------
\* start(): the jobs of the file and the defaults that it lacks.
Merged == [id \in DOMAIN file \union Defaults |->
              IF id \in DOMAIN file THEN file[id] ELSE NewJob("daily", TRUE)]

\* The merged jobs are saved and the enabled ones registered; if a trigger's
\* constructor raises, the gateway does not start.
Start ==
    /\ ~up /\ used.starts < MaxStarts
    /\ used' = [used EXCEPT !.starts = @ + 1]
    /\ file' = Merged
    /\ wanted' = [id \in DOMAIN Merged |->
                     IF id \in DOMAIN wanted THEN wanted[id] ELSE Definition(Merged[id])]
    /\ IF \E id \in DOMAIN Merged : Merged[id].enabled /\ Raises(Merged[id].trigger)
       THEN UNCHANGED <<up, live, objects, schedule>>
       ELSE /\ up' = TRUE
            /\ live' = DOMAIN Merged
            /\ objects' = [id \in Ids |-> IF id \in DOMAIN Merged THEN <<Merged[id]>> ELSE <<>>]
            /\ schedule' = [id \in {i \in DOMAIN Merged : Merged[i].enabled /\ Builds(Merged[i].trigger)}
                               |-> Merged[id].trigger]
    /\ counted' = [id \in Ids |-> IF id \in DOMAIN file THEN counted[id] ELSE [begun |-> 0, ended |-> 0]]
    /\ UNCHANGED <<executions, mishaps>>

\* The process is gone: its jobs, its executions, its queue and its agents.
Dies ==
    /\ up' = FALSE /\ live' = {} /\ objects' = [id \in Ids |-> <<>>]
    /\ schedule' = Empty /\ executions' = <<>>

\* stop(): executions are cancelled and every job in memory is saved.
Stop ==
    /\ up
    /\ file' = [id \in live |-> Current(id)]
    /\ Dies
    /\ UNCHANGED <<wanted, counted, mishaps, used>>

\* The process is killed; "torn" is while save() writes, which truncates the file.
Crash ==
    /\ up
    /\ \/ "crash" \in Faults /\ UNCHANGED <<file, mishaps>>
       \/ "torn" \in Faults /\ file' = Empty /\ mishaps' = mishaps \union {"torn"}
    /\ Dies
    /\ UNCHANGED <<wanted, counted, used>>

-----------------------------------------------------------------------------
\* _register_job: the schedule after it, if it does not raise.
Registered(id, trigger) ==
    IF Builds(trigger) THEN With(schedule, id, trigger) ELSE schedule

Idle(id) == \A i \in DOMAIN executions : executions[i].id # id

\* add_job: an exception of _register_job skips the store.
AddJob(id, trigger, enabled) ==
    LET job == NewJob(trigger, enabled)
        raises == enabled /\ Raises(trigger)
    IN  /\ Edit
        /\ Idle(id) \/ "replace" \in ClientOps
        /\ live' = live \union {id}
        /\ objects' = [objects EXCEPT ![id] = Append(@, job)]
        /\ schedule' = IF enabled THEN Registered(id, trigger) ELSE schedule
        /\ file' = IF raises THEN file ELSE With(file, id, job)
        /\ wanted' = With(wanted, id, Definition(job))
        /\ counted' = [counted EXCEPT ![id] = [begun |-> 0, ended |-> 0]]
        /\ mishaps' = mishaps \union (IF raises THEN {"raised"} ELSE {})
                               \union (IF Idle(id) THEN {} ELSE {"replaced"})
        /\ UNCHANGED <<up, executions>>

StillScheduled(id) == schedule  \* (mutant) the trigger is not removed

\* APScheduler's remove_job; a job that it does not know is no error here.
Unscheduled(id) == Without(schedule, id)

\* remove_job.
RemoveJob(id) ==
    /\ Edit
    /\ id \in live
    /\ live' = live \ {id}
    /\ schedule' = Unscheduled(id)
    /\ file' = Without(file, id)
    /\ wanted' = Without(wanted, id)
    /\ UNCHANGED <<up, objects, executions, counted, mishaps>>

\* enable_job and disable_job change the object and save it whole.
EnableJob(id) ==
    LET n == Len(objects[id])
        job == [Current(id) EXCEPT !.enabled = TRUE]
    IN  /\ Edit /\ "enable" \in ClientOps
        /\ id \in live
        /\ objects' = [objects EXCEPT ![id][n] = job]
        /\ schedule' = Registered(id, job.trigger)
        /\ file' = IF Raises(job.trigger) THEN file ELSE With(file, id, job)
        /\ mishaps' = IF Raises(job.trigger) THEN mishaps \union {"raised"} ELSE mishaps
        /\ wanted' = With(wanted, id, Definition(job))
        /\ UNCHANGED <<up, live, executions, counted>>

DisableJob(id) ==
    LET n == Len(objects[id])
        job == [Current(id) EXCEPT !.enabled = FALSE]
    IN  /\ Edit /\ "enable" \in ClientOps
        /\ id \in live
        /\ objects' = [objects EXCEPT ![id][n] = job]
        /\ schedule' = Unscheduled(id)
        /\ file' = With(file, id, job)
        /\ wanted' = With(wanted, id, Definition(job))
        /\ UNCHANGED <<up, live, executions, counted, mishaps>>

-----------------------------------------------------------------------------
\* _execute_job, up to the cron:fire hook.
Execute(id, by) ==
    LET n == Len(objects[id])
        job == [Current(id) EXCEPT !.status = "running", !.total = @ + 1]
    IN  /\ used.executions < MaxExecutions
        /\ used' = [used EXCEPT !.executions = @ + 1]
        /\ objects' = [objects EXCEPT ![id][n] = job]
        /\ executions' = Append(executions, [id |-> id, object |-> n, by |-> by, phase |-> "fired"])
        /\ counted' = [counted EXCEPT ![id].begun = @ + 1]

Executable(id) == id \in live /\ Current(id).enabled

\* APScheduler fires a trigger; a job without a definition, or disabled, is not
\* executed.
TriggerFires(id) ==
    /\ up /\ id \in DOMAIN schedule
    /\ \A i \in DOMAIN executions : executions[i].id = id => executions[i].by = "request"
    /\ Executable(id)
    /\ Execute(id, "trigger")
    /\ UNCHANGED <<up, live, file, wanted, schedule, mishaps>>

\* run_now, from POST /cron/run/{job_id}; a disabled job is not executed either.
RunNow(id) ==
    /\ up /\ "force" \in ClientOps
    /\ Executable(id)
    /\ Execute(id, "request")
    /\ UNCHANGED <<up, live, file, wanted, schedule, mishaps>>

\* The cron:fire hook returns.
HookReturns(i) ==
    /\ executions[i].phase = "fired"
    /\ executions' = [executions EXCEPT ![i].phase = "executing"]
    /\ UNCHANGED <<up, live, file, wanted, objects, schedule, counted, mishaps, used>>

SavesJob(id, job) == With(file, id, job)  \* (mutant) the whole job is upserted
\* update_state: the state fields of the entry, if there is one.
UpdateState(id, job) ==
    IF id \notin DOMAIN file THEN file
    ELSE [file EXCEPT ![id] = [@ EXCEPT !.status = job.status, !.errors = job.errors,
                                        !.total = job.total]]

Ends(i) ==
    /\ executions' = RemoveAt(executions, i)
    /\ counted' = [counted EXCEPT ![executions[i].id].ended =
                      IF executions[i].object = Len(objects[executions[i].id]) THEN @ + 1 ELSE @]

\* The handler returns, or the command is enqueued; the state is persisted.
Succeed(i) ==
    LET e == executions[i]
        job == [objects[e.id][e.object] EXCEPT !.status = "success", !.errors = 0]
    IN  /\ e.phase = "executing"
        /\ objects' = [objects EXCEPT ![e.id][e.object] = job]
        /\ file' = UpdateState(e.id, job)
        /\ Ends(i)
        /\ UNCHANGED <<up, live, schedule, wanted, mishaps, used>>

FailedAs(job) == [job EXCEPT !.status = "failed"]  \* (mutant) a status that is none

\* last_status and consecutive_errors of a job that failed.
Failed(job) == [job EXCEPT !.status = "error", !.errors = @ + 1]

\* The handler raises: the cron:error hook is awaited.
Fail(i) ==
    LET e == executions[i]
    IN  /\ e.phase = "executing"
        /\ objects' = [objects EXCEPT ![e.id][e.object] = Failed(@)]
        /\ executions' = [executions EXCEPT ![i].phase = "failing"]
        /\ UNCHANGED <<up, live, file, wanted, schedule, counted, mishaps, used>>

PersistsNothing(e) == file  \* (mutant) a failed execution returns early

\* What an execution that failed writes when its hook has returned.
Persisted(e) == UpdateState(e.id, objects[e.id][e.object])

\* The cron:error hook returns; the state that the object has by now is persisted.
PersistFailure(i) ==
    /\ executions[i].phase = "failing"
    /\ file' = Persisted(executions[i])
    /\ Ends(i)
    /\ UNCHANGED <<up, live, objects, schedule, wanted, mishaps, used>>

Next ==
    \/ Start \/ Stop \/ Crash
    \/ \E id \in Ids : \/ \E trigger \in Triggers, enabled \in BOOLEAN : AddJob(id, trigger, enabled)
                       \/ RemoveJob(id) \/ EnableJob(id) \/ DisableJob(id)
                       \/ TriggerFires(id) \/ RunNow(id)
    \/ \E i \in DOMAIN executions : HookReturns(i) \/ Succeed(i) \/ Fail(i) \/ PersistFailure(i)

Spec == Init /\ [][Next]_vars
-----------------------------------------------------------------------------
(* Persists: jobs.json has exactly the jobs that clients and defaults gave,  *)
(* as they were given last ("Persists to disk", scheduler.py:282).           *)
Persists == [id \in DOMAIN file |-> Definition(file[id])] = wanted

(* DefinitionsKept: unless a write was torn or a trigger raised, jobs.json   *)
(* and, while the scheduler runs, _jobs have exactly the jobs that were      *)
(* given: no execution that ends late, no restart and no other edit brings a *)
(* removed job back, drops one, or undoes an enable or disable.              *)
DefinitionsKept ==
    mishaps \intersect {"torn", "raised"} = {} =>
        /\ Persists
        /\ up => /\ live = DOMAIN wanted
                 /\ \A id \in live : Definition(Current(id)) = wanted[id]

(* EnabledIsScheduled: while the scheduler runs, every enabled job whose     *)
(* schedule can be built is registered with its own schedule, and nothing is *)
(* registered for a job that does not exist: no order of add, replace,       *)
(* enable, disable, remove and restart leaves a job that never fires.        *)
EnabledIsScheduled ==
    up => /\ DOMAIN schedule \subseteq live
          /\ \A id \in live : Current(id).enabled /\ Builds(Current(id).trigger) =>
                 id \in DOMAIN schedule /\ schedule[id] = Current(id).trigger

(* StateSettles: when no execution of a job is under way, jobs.json has the  *)
(* job as it is in memory, however executions overlapped, failed or met      *)
(* edits, unless some job was replaced during its own execution (whose state *)
(* is then written to the new job's entry) or a trigger raised.  And, unless *)
(* something has gone wrong with the file, total_runs counts every execution *)
(* that has ended and none that never began, across restarts and crashes.    *)
StateSettles ==
    /\ up /\ mishaps \intersect {"replaced", "raised"} = {} =>
         \A id \in live : Idle(id) => file[id] = Current(id)
    /\ up /\ mishaps = {} =>
         \A id \in live : /\ counted[id].ended <= Current(id).total
                           /\ Current(id).total <= counted[id].begun
=============================================================================
