------------------------------ MODULE Deployment ------------------------------
(***************************************************************************)
(* How a commit reaches the running app: the deploy workflow and the       *)
(* scripts it runs.  Pushes queue workflow runs; the concurrency group     *)
(* lets one run at a time, in no particular order.  A run migrates the     *)
(* database, uploads the build, polls /health for its revision, and then   *)
(* either advances the last-good tag or rolls the app back to it.  An      *)
(* upload is only the start of a build: the hosting service finishes it    *)
(* later, in its own time, perhaps under a later run.                      *)
(*                                                                         *)
(* The branch is a line of commits 1, 2, ..., so "is an ancestor of" is    *)
(* <=.  Every commit adds one migration.                                   *)
(***************************************************************************)
EXTENDS Integers, FiniteSets

CONSTANTS
    MaxCommits,     \* bound on pushes
    MaxMigrateRetries,  \* maxRetries of migrateWithRetry
    PollRetries,    \* retries of pollHealth
    MaxDispatches,  \* bound on runs started by hand
    NoCommit        \* no tag yet, nothing deployed, nothing answered

ASSUME DeploymentAssumption ==
    /\ MaxCommits \in Nat /\ MaxMigrateRetries \in Nat /\ MaxDispatches \in Nat
    /\ PollRetries \in Nat \ {0} /\ NoCommit \notin Nat

DpCommit == 1..MaxCommits

(* What a commit is like: it works; its image never builds or boots; its   *)
(* revision cannot reach the database; its migration is broken.            *)
DpNature == {"good", "dead", "unreachable", "unmigratable"}

VARIABLES
    dpNature,      \* nature of every commit
    dpPushed,      \* commits pushed so far
    dpPending,     \* queued workflow runs, by commit
    dpDispatches,  \* runs started by hand
    dpRun,         \* the run in progress, or step "none"
    dpElsewhere,   \* does another process hold the migration lock?
    dpSchema,      \* migrations applied
    dpBuilds,      \* uploads whose build has not finished
    dpLive,        \* the revision that answers
    dpTag,         \* last-good-<env> at the origin
    dpSeen         \* revisions a poll saw with a reachable database (history only)

dpVars == <<dpNature, dpPushed, dpPending, dpDispatches, dpRun, dpElsewhere, dpSchema, dpBuilds,
            dpLive, dpTag, dpSeen>>
dpWorld == <<dpNature, dpPushed, dpPending, dpDispatches, dpElsewhere>>

NoDeploy == [step |-> "none"]

DpInit ==
    /\ dpNature \in [DpCommit -> DpNature]
    /\ dpPushed = 0 /\ dpPending = {} /\ dpDispatches = 0
    /\ dpRun = NoDeploy
    /\ dpElsewhere = FALSE
    /\ dpSchema = {} /\ dpBuilds = {}
    /\ dpLive = NoCommit /\ dpTag = NoCommit
    /\ dpSeen = {}

-----------------------------------------------------------------------------
(* The outside world.                                                      *)
push ==
    /\ dpPushed < MaxCommits
    /\ dpPushed' = dpPushed + 1
    /\ dpPending' = dpPending \cup {dpPushed'}
    /\ UNCHANGED <<dpNature, dpDispatches, dpRun, dpElsewhere, dpSchema, dpBuilds, dpLive, dpTag, dpSeen>>

\* workflow_dispatch, on the tip of the branch.
workflowDispatch ==
    /\ dpPushed > 0 /\ dpDispatches < MaxDispatches
    /\ dpDispatches' = dpDispatches + 1
    /\ dpPending' = dpPending \cup {dpPushed}
    /\ UNCHANGED <<dpNature, dpPushed, dpRun, dpElsewhere, dpSchema, dpBuilds, dpLive, dpTag, dpSeen>>

migrateElsewhere ==
    /\ dpElsewhere' = ~dpElsewhere
    /\ UNCHANGED <<dpNature, dpPushed, dpPending, dpDispatches, dpRun, dpSchema, dpBuilds, dpLive, dpTag, dpSeen>>

\* A build finishes; an image that does not build leaves the old one running,
\* one that does not boot leaves nothing.
finishBuild ==
    /\ \E c \in dpBuilds :
         /\ dpBuilds' = dpBuilds \ {c}
         /\ dpLive' \in IF dpNature[c] = "dead" THEN {dpLive, NoCommit} ELSE {c}
    /\ UNCHANGED <<dpWorld, dpRun, dpSchema, dpTag, dpSeen>>

-----------------------------------------------------------------------------
(* The run.                                                                *)
startRun ==
    /\ dpRun = NoDeploy
    /\ \E c \in dpPending :
         /\ dpRun' = [step |-> "migrate", sha |-> c, attempt |-> 0]
         /\ dpPending' = dpPending \ {c}
    /\ UNCHANGED <<dpNature, dpPushed, dpDispatches, dpElsewhere, dpSchema, dpBuilds, dpLive, dpTag, dpSeen>>

(* A step fails, or the job meets its time limit: the jobs that need it    *)
(* are skipped.  Only a failed poll starts a rollback.                     *)
endRun ==
    /\ dpRun # NoDeploy
    /\ dpRun' = NoDeploy
    /\ UNCHANGED <<dpWorld, dpSchema, dpBuilds, dpLive, dpTag, dpSeen>>

\* One invocation of node-pg-migrate up: all of the commit's migrations that
\* are not recorded, in one transaction.
runOnce(c) ==
    IF dpElsewhere THEN "locked"
    ELSE IF \E d \in (1..c) \ dpSchema : dpNature[d] = "unmigratable" THEN "broken"
    ELSE "done"

(* Mutant: the loop ends after its last retry without returning a code.    *)
migrateWithRetryFallsThrough(c, attempt) ==
    CASE runOnce(c) = "done" -> "ok"
      [] runOnce(c) = "locked" /\ attempt < MaxMigrateRetries -> "again"
      [] runOnce(c) = "locked" -> "ok"
      [] OTHER -> "failed"

(* Only a held lock is worth another attempt.                              *)
migrateWithRetry(c, attempt) ==
    CASE runOnce(c) = "done" -> "ok"
      [] runOnce(c) = "locked" /\ attempt < MaxMigrateRetries -> "again"
      [] OTHER -> "failed"

migrateDatabase ==
    /\ dpRun.step = "migrate"
    /\ LET result == migrateWithRetry(dpRun.sha, dpRun.attempt) IN
       /\ dpRun' = CASE result = "ok" -> [step |-> "deploy", sha |-> dpRun.sha]
                     [] result = "again" -> [dpRun EXCEPT !.attempt = @ + 1]
                     [] result = "failed" -> NoDeploy
       /\ dpSchema' = IF runOnce(dpRun.sha) = "done" THEN dpSchema \cup 1..dpRun.sha ELSE dpSchema
    /\ UNCHANGED <<dpWorld, dpBuilds, dpLive, dpTag, dpSeen>>

\* caprover deploy confirms the upload, not the build.
upload(c) == dpBuilds' = dpBuilds \cup {c}

deployToCapRover ==
    /\ dpRun.step = "deploy"
    /\ upload(dpRun.sha)
    /\ dpRun' = [step |-> "checkout", sha |-> dpRun.sha]
    /\ UNCHANGED <<dpWorld, dpSchema, dpLive, dpTag, dpSeen>>

(* The clone the last job works in has the history and the tag of this     *)
(* moment.                                                                 *)
checkout ==
    /\ dpRun.step = "checkout"
    /\ dpRun' = [step |-> "poll", sha |-> dpRun.sha, attempt |-> 1, build |-> NoCommit, database |-> FALSE,
                 known |-> dpPushed, tag |-> dpTag]
    /\ UNCHANGED <<dpWorld, dpSchema, dpBuilds, dpLive, dpTag, dpSeen>>

\* git merge-base --is-ancestor in the clone; an unknown commit proves nothing.
isAncestor(base, candidate, known) == candidate <= known /\ base <= candidate

(* Mutant: any other answer than the own revision is taken for a newer one.*)
supersededByAny(r, build, database) == build # r.sha

(* What a poll that has read `build' concludes at its last attempt.        *)
superseded(r, build, database) ==
    build # NoCommit /\ build # r.sha /\ database /\ isAncestor(r.sha, build, r.known)

(* One attempt of pollHealth: the app answers with its build, or the fetch *)
(* fails and the last readings stay.                                       *)
pollHealth ==
    /\ dpRun.step = "poll"
    /\ \E answered \in BOOLEAN :
         LET build == IF answered THEN dpLive ELSE dpRun.build
             database == IF answered THEN dpNature[dpLive] # "unreachable" ELSE dpRun.database
             healthy == answered /\ build = dpRun.sha /\ database
             done == dpRun.attempt = PollRetries
             next == CASE healthy -> "advance"
                       [] ~healthy /\ ~done -> "poll"
                       [] OTHER -> IF superseded(dpRun, build, database) THEN "advance" ELSE "rollback"
         IN  /\ answered => dpLive # NoCommit
             /\ dpRun' = [dpRun EXCEPT !.step = next, !.build = build, !.database = database,
                                       !.attempt = IF next = "poll" THEN @ + 1 ELSE @]
             /\ dpSeen' = IF answered /\ database THEN dpSeen \cup {build} ELSE dpSeen
    /\ UNCHANGED <<dpWorld, dpSchema, dpBuilds, dpLive, dpTag>>

\* Rebuilds the tag's commit and uploads it; nothing polls the result.
rollbackToLastGood ==
    /\ dpRun.step = "rollback"
    /\ dpRun.tag # NoCommit
    /\ upload(dpRun.tag)
    /\ dpRun' = NoDeploy
    /\ UNCHANGED <<dpWorld, dpSchema, dpLive, dpTag, dpSeen>>

isForwardProgress(current, target) == current = NoCommit \/ current <= target

advanceLastGoodTag ==
    /\ dpRun.step = "advance"
    /\ dpTag' = IF isForwardProgress(dpRun.tag, dpRun.sha) THEN dpRun.sha ELSE dpTag
    /\ dpRun' = NoDeploy
    /\ UNCHANGED <<dpWorld, dpSchema, dpBuilds, dpLive, dpSeen>>

DpNext ==
    \/ push \/ workflowDispatch \/ migrateElsewhere \/ finishBuild
    \/ startRun \/ endRun \/ migrateDatabase \/ deployToCapRover \/ checkout
    \/ pollHealth \/ rollbackToLastGood \/ advanceLastGoodTag

DpSpec == DpInit /\ [][DpNext]_dpVars

-----------------------------------------------------------------------------
(* No revision answers, nor is on its way, whose migrations the database   *)
(* lacks: not after a retried, contended or failed migration, not when     *)
(* runs come out of commit order, and not after a rollback                 *)
(* (migrateWithRetry, the order of the workflow's jobs).                   *)
CodeNeverAheadOfSchema ==
    \A c \in dpBuilds \cup ({dpLive} \ {NoCommit}) : 1..c \subseteq dpSchema

(* The last-good tag moves only forward, and only to a commit that a poll  *)
(* saw answering with a reachable database, or that has a descendant one   *)
(* did, whatever the order of the runs and however late their builds       *)
(* finish (advanceLastGoodTag, pollHealth).                                *)
LastGoodOnlyAdvances ==
    [][dpTag' # dpTag =>
         /\ dpTag = NoCommit \/ dpTag < dpTag'
         /\ \E d \in dpSeen : dpTag' <= d]_dpVars
===============================================================================
