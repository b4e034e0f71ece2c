----------------------------- MODULE Deployment -----------------------------
(***************************************************************************)
(* The deploy agent (deploy/deploy-agent.ts) and the agent of the host it  *)
(* hands remote releases to, which is the same program.                    *)
(*                                                                         *)
(* The main agent drives the Compose targets "alex" (its default) and      *)
(* "maru", and the remote target "vm", which the other agent drives as     *)
(* "vm_local".  Each agent runs one deployment at a time.  A release       *)
(* stands for its image: a promotion carries the image with it.  A         *)
(* deployment writes the image into the environment file, pulls, replaces  *)
(* the container, waits for health and records; it may fail or the agent   *)
(* may die after each of these.                                            *)
(***************************************************************************)
EXTENDS Naturals, FiniteSets

CONSTANTS
  Releases,     \* the releases, positive numbers
  Bad,          \* those that never become healthy
  Attempts,     \* DEPLOY_RETRY_ATTEMPTS
  MaxOps,       \* requests to the main agent
  MaxCrashes,   \* deaths of an agent
  DeployFaults  \* subset of AllDeployFaults

\* "flaky": a pull, a replacement or a health check fails for no fault of the
\* release.   "same_release": the current release may be deployed again.
\* "unproven": a target without a record may be deployed to while the image it
\* would go back to never was healthy there.
AllDeployFaults == {"flaky", "same_release", "unproven"}

ASSUME DeployAssumption ==
  /\ Releases \subseteq Nat \ {0} /\ 1 \in Releases /\ Bad \subseteq Releases \ {1}
  /\ Attempts \in Nat \ {0} /\ MaxOps \in Nat /\ MaxCrashes \in Nat
  /\ DeployFaults \subseteq AllDeployFaults

Compose == {"alex", "maru", "vm_local"}
DeployTargets == Compose \cup {"vm"}
Agents == {"main", "remote"}
AgentOf(t) == IF t = "vm_local" THEN "remote" ELSE "main"
SeedAllowed == {"vm", "vm_local"}   \* allowInitialSeed

VARIABLES
  env,       \* [Compose -> image in the environment file, 0 if none]
  running,   \* [Compose -> image the container runs, 0 if none]
  record,    \* [DeployTargets -> [current, previous]]: the state files
  op,        \* [Agents -> the deployment under way]
  reply,     \* what the other agent last answered
  promoting, \* a promotion that read its source and has no lock yet
  proven,    \* [DeployTargets -> releases that were healthy there]
  promoted,  \* releases that were promoted
  trouble,   \* targets whose last operation ended in an error not undone
  ops, crashes

deployVars == <<env, running, record, op, reply, promoting, proven, promoted, trouble, ops, crashes>>

Release == Releases \cup {0}
NoRecord == [current |-> 0, previous |-> 0]
Idle == [pc |-> "idle", kind |-> "deploy", t |-> "alex", release |-> 0, before |-> NoRecord, previous |-> 0, undo |-> FALSE, tries |-> 0]
NoPromotion == [t |-> "alex", release |-> 0]

DeployTypeOK ==
  /\ env \in [Compose -> Release] /\ running \in [Compose -> Release]
  /\ record \in [DeployTargets -> [current: Release, previous: Release]]
  /\ \A g \in Agents :
       /\ op[g].pc \in {"idle", "activate", "written", "pulled", "replaced", "asked", "activated", "failed"}
       /\ op[g].kind \in {"deploy", "rollback"} /\ op[g].t \in DeployTargets
       /\ op[g].release \in Release /\ op[g].previous \in Release /\ op[g].undo \in BOOLEAN
       /\ op[g].tries \in 0 .. Attempts
  /\ reply \in {"none", "ok", "rolled_back", "broken"}
  /\ promoting \in [t: DeployTargets, release: Release]
  /\ proven \in [DeployTargets -> SUBSET Releases] /\ promoted \subseteq Releases
  /\ trouble \subseteq DeployTargets /\ ops \in 0 .. MaxOps /\ crashes \in 0 .. MaxCrashes

\* Two hosts with a first image and nothing recorded, and a host that was never
\* deployed to.
DeployInit ==
  /\ env = [t \in Compose |-> IF t = "vm_local" THEN 0 ELSE 1]
  /\ running = [t \in Compose |-> IF t = "vm_local" THEN 0 ELSE 1]
  /\ record = [t \in DeployTargets |-> NoRecord]
  /\ op = [g \in Agents |-> Idle] /\ reply = "none" /\ promoting = NoPromotion
  /\ proven = [t \in DeployTargets |-> IF t \in {"alex", "maru"} THEN {1} ELSE {}]
  /\ promoted = {} /\ trouble = {} /\ ops = 0 /\ crashes = 0

\* currentImage, and runningContainerImage for a first deployment: an image the
\* environment file names without a record is not a release to go back to there.
CurrentImage(t) ==
  IF t = "vm" THEN record[t].current
  ELSE IF t \in SeedAllowed /\ record[t].current = 0 THEN running[t]
  ELSE env[t]

\* The release a deployment displaces.
Displaced(t) == IF CurrentImage(t) # 0 /\ record[t].current # 0 THEN record[t].current ELSE CurrentImage(t)

DeployAllowed(t) == CurrentImage(t) # 0 \/ t \in SeedAllowed

\* What a failed or cut first deployment left behind is not taken for a release.
Seeded(t) == "unproven" \in DeployFaults \/ Displaced(t) \in proven[t] \cup {0}

\* deploy, once it holds the lock.
Deploying(t, r) ==
  [Idle EXCEPT !.pc = "activate", !.t = t, !.release = r, !.before = record[t],
               !.previous = IF record[t].current = r THEN record[t].previous ELSE Displaced(t)]

Goal(g) == IF op[g].undo THEN op[g].previous ELSE op[g].release
At(g, pc) == op[g].pc = pc
Reach(g, pc) == op' = [op EXCEPT ![g].pc = pc]

Requested == ops < MaxOps /\ ops' = ops + 1

\* POST /deploy: the pipeline deploys the default target.
Deploy(r) ==
  /\ Requested /\ At("main", "idle") /\ DeployAllowed("alex") /\ Seeded("alex")
  /\ "same_release" \in DeployFaults \/ record["alex"].current # r
  /\ op' = [op EXCEPT !["main"] = Deploying("alex", r)]
  /\ UNCHANGED <<env, running, record, reply, promoting, proven, promoted, trouble, crashes>>

\* promote: the button must belong to the release the source runs.
SourceRuns(r) == record["alex"].current = r

\* POST /promote reads the source's state before it asks for the lock.
Promote(t, r) ==
  /\ Requested /\ promoting = NoPromotion /\ t \in {"maru", "vm"}
  /\ SourceRuns(r)
  /\ promoting' = [t |-> t, release |-> r]
  /\ UNCHANGED <<env, running, record, op, reply, proven, promoted, trouble, crashes>>

PromotionLocks ==
  /\ promoting # NoPromotion /\ promoting' = NoPromotion /\ Seeded(promoting.t)
  /\ IF At("main", "idle") /\ DeployAllowed(promoting.t)
     THEN /\ op' = [op EXCEPT !["main"] = Deploying(promoting.t, promoting.release)]
          /\ promoted' = promoted \cup {promoting.release}
     ELSE UNCHANGED <<op, promoted>>
  /\ UNCHANGED <<env, running, record, reply, proven, trouble, ops, crashes>>

\* POST /rollback: the button must belong to the current release.
Rollback(t, r) ==
  /\ Requested /\ At("main", "idle") /\ AgentOf(t) = "main"
  /\ record[t].current = r /\ r # 0 /\ record[t].previous # 0
  /\ op' = [op EXCEPT !["main"] = [Idle EXCEPT !.pc = "activate", !.kind = "rollback", !.t = t,
              !.release = record[t].previous, !.before = record[t]]]
  /\ UNCHANGED <<env, running, record, reply, promoting, proven, promoted, trouble, crashes>>

(***************************************************************************)
(* activate                                                                *)
(***************************************************************************)

WriteImage(g) ==
  /\ At(g, "activate") /\ op[g].t \in Compose
  /\ env' = [env EXCEPT ![op[g].t] = Goal(g)] /\ Reach(g, "written")
  /\ UNCHANGED <<running, record, reply, promoting, proven, promoted, trouble, ops, crashes>>

\* Image pull, retried while it fails transiently, and the configuration check.
Pull(g) ==
  /\ At(g, "written")
  /\ \/ Reach(g, "pulled")
     \/ "flaky" \in DeployFaults /\ Reach(g, "failed")
  /\ UNCHANGED <<env, running, record, reply, promoting, proven, promoted, trouble, ops, crashes>>

\* docker rm, then compose up.
Replace(g) ==
  /\ At(g, "pulled")
  /\ \/ running' = [running EXCEPT ![op[g].t] = Goal(g)] /\ Reach(g, "replaced")
     \/ "flaky" \in DeployFaults /\ running' = [running EXCEPT ![op[g].t] = 0] /\ Reach(g, "failed")
  /\ UNCHANGED <<env, record, reply, promoting, proven, promoted, trouble, ops, crashes>>

WaitForHealthy(g) ==
  /\ At(g, "replaced")
  /\ \/ /\ Goal(g) \notin Bad /\ Reach(g, "activated")
        /\ proven' = [proven EXCEPT ![op[g].t] = @ \cup {Goal(g)}]
     \/ /\ Goal(g) \in Bad \/ "flaky" \in DeployFaults
        /\ Reach(g, "failed") /\ UNCHANGED proven
  /\ UNCHANGED <<env, running, record, reply, promoting, promoted, trouble, ops, crashes>>

\* A remote target: the other agent deploys, if it is not deploying already.
AskRemote ==
  /\ At("main", "activate") /\ op["main"].t = "vm" /\ Seeded("vm_local")
  /\ IF At("remote", "idle")
     THEN op' = [op EXCEPT !["main"].pc = "asked", !["remote"] = Deploying("vm_local", Goal("main"))] /\ reply' = "none"
     ELSE op' = [op EXCEPT !["main"].pc = "failed"] /\ UNCHANGED reply
  /\ UNCHANGED <<env, running, record, promoting, proven, promoted, trouble, ops, crashes>>

\* retry: an attempt that failed transiently is made again while one is left.
RetryOrFail ==
  op' = [op EXCEPT !["main"].pc = IF op["main"].tries + 1 < Attempts THEN "activate" ELSE "failed",
                   !["main"].tries = @ + 1]

\* The answer: a release rolled back there is 502 and is asked for again, as a
\* gateway's 502 would be; 500 is not.
RemoteAnswers ==
  /\ At("main", "asked") /\ reply # "none" /\ reply' = "none"
  /\ CASE reply = "ok" -> /\ Reach("main", "activated")
                          /\ proven' = [proven EXCEPT !["vm"] = @ \cup {Goal("main")}]
       [] reply = "rolled_back" -> RetryOrFail /\ UNCHANGED proven
       [] OTHER -> Reach("main", "failed") /\ UNCHANGED proven
  /\ UNCHANGED <<env, running, record, promoting, promoted, trouble, ops, crashes>>

\* The request times out or its connection drops and the deployment goes on
\* there; whether it is retried depends on how the runtime words the error.
RemoteUnheard ==
  /\ "flaky" \in DeployFaults \/ At("remote", "idle")
  /\ At("main", "asked") /\ reply = "none"
  /\ RetryOrFail \/ Reach("main", "failed")
  /\ UNCHANGED <<env, running, record, reply, promoting, proven, promoted, trouble, ops, crashes>>

(***************************************************************************)
(* How a deployment ends                                                   *)
(***************************************************************************)

\* Only a caller that still waits hears the answer.
Answer(g, a) == reply' = IF g = "remote" /\ At("main", "asked") THEN a ELSE reply

\* MUTANT: an automatic rollback leaves the record as it was.
RecordKept(o) == o.before
\* The record after an automatic rollback.
RecordUndone(o) == [o.before EXCEPT !.current = o.previous]

Recorded(o) ==
  CASE o.kind = "rollback" -> [current |-> o.before.previous, previous |-> o.before.current]
    [] o.undo -> RecordUndone(o)
    [] OTHER -> [current |-> o.release, previous |-> o.previous]

Succeeds(g) ==
  /\ At(g, "activated")
  /\ record' = [record EXCEPT ![op[g].t] = Recorded(op[g])]
  /\ op' = [op EXCEPT ![g] = Idle]
  /\ trouble' = trouble \ {op[g].t}
  /\ Answer(g, IF op[g].undo THEN "rolled_back" ELSE "ok")
  /\ UNCHANGED <<env, running, promoting, proven, promoted, ops, crashes>>

\* A deployment that failed goes back to what it displaced, once.
RollBack(g) ==
  /\ At(g, "failed") /\ op[g].kind = "deploy" /\ ~op[g].undo /\ op[g].previous # 0
  /\ op' = [op EXCEPT ![g].undo = TRUE, ![g].pc = "activate", ![g].tries = 0]
  /\ UNCHANGED <<env, running, record, reply, promoting, proven, promoted, trouble, ops, crashes>>

\* Nothing to go back to, or going back failed too.
GiveUp(g) ==
  /\ At(g, "failed") /\ (op[g].kind = "rollback" \/ op[g].undo \/ op[g].previous = 0)
  /\ op' = [op EXCEPT ![g] = Idle]
  /\ trouble' = trouble \cup {op[g].t}
  /\ Answer(g, IF op[g].undo THEN "broken" ELSE "rolled_back")
  /\ UNCHANGED <<env, running, record, promoting, proven, promoted, ops, crashes>>

\* An agent dies; it may be writing the state file, which is then unreadable.
AgentDies(g) ==
  /\ crashes < MaxCrashes /\ crashes' = crashes + 1 /\ ~At(g, "idle")
  /\ record' \in {record} \cup (IF At(g, "activated") THEN {[record EXCEPT ![op[g].t] = NoRecord]} ELSE {})
  /\ op' = [op EXCEPT ![g] = Idle]
  /\ trouble' = trouble \cup {op[g].t}
  /\ UNCHANGED <<env, running, reply, promoting, proven, promoted, ops>>

DeployNext ==
  \/ \E r \in Releases :
       \/ Deploy(r)
       \/ \E t \in DeployTargets : Promote(t, r) \/ Rollback(t, r)
  \/ PromotionLocks
  \/ \E g \in Agents : \/ WriteImage(g) \/ Pull(g) \/ Replace(g) \/ WaitForHealthy(g)
                       \/ Succeeds(g) \/ RollBack(g) \/ GiveUp(g) \/ AgentDies(g)
  \/ AskRemote \/ RemoteAnswers \/ RemoteUnheard

DeploySpec == DeployInit /\ [][DeployNext]_deployVars

(***************************************************************************)
(* Properties                                                              *)
(***************************************************************************)

EndedWell(t) == /\ At("main", "idle") /\ At("remote", "idle") /\ t \notin trouble
              /\ record[t].current # 0

\* When a deployment has ended well, by itself or by its automatic rollback,
\* the record names what runs and what a restart of the container would run, on
\* this host or on the one it was handed to (deploy, rollback, activate).
RecordIsRunning ==
  \A t \in DeployTargets : EndedWell(t) =>
    LET h == IF t = "vm" THEN "vm_local" ELSE t IN
    record[t].current = running[h] /\ record[t].current = env[h]

\* What an agent would go back to was healthy on that target, and what it
\* promotes was healthy on the source (deploy, promote).
OnlyHealthyReleases ==
  /\ \A t \in DeployTargets : record[t].previous \in proven[t] \cup {0}
  /\ promoted \subseteq proven["alex"]

\* Both: what the agents have on record can be run and can be gone back to.
ReleasesHold == RecordIsRunning /\ OnlyHealthyReleases

\* "Redeploying the release that is already current must not record it as its
\* own predecessor" (deploy-agent.ts:426).
NotItsOwnPredecessor ==
  \A t \in DeployTargets : record[t].current # 0 => record[t].current # record[t].previous
=============================================================================
