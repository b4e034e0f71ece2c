---------------------------- MODULE RemoteCopies ----------------------------
(***************************************************************************)
(* Taking a publication down from a platform, replacing it there, and      *)
(* purging it (operations/commands.ts, operations/commands/requeue.ts,     *)
(* delivery/external-removals.ts, operations/publication-purge.ts).        *)
(*                                                                         *)
(* One target, whose delivery sends a post of Parts objects, one call      *)
(* each.  A command runs in a process of its own: it reads the row, calls  *)
(* the platform once per object, and commits everything it learned in one  *)
(* transaction, which is fenced on the row still naming the object.  What  *)
(* the delivery does between a claim and its end is module PublishQueue.   *)
(***************************************************************************)
EXTENDS Naturals, FiniteSets, Sequences, SequencesExt

CONSTANTS
  Commands,      \* processes of operators
  Parts,         \* objects of one delivery
  MaxObjects,    \* objects the platform ever shows
  MaxAsked,      \* commands ever run
  RemoteFaults   \* subset of AllRemoteFaults

\* "refused": the platform refuses a deletion.   "killed": a command dies before
\* it commits.   "unsettled": a purge, or a command that names the target, while
\* a delivery of it is under way or ended half-way, or while another command
\* runs on a named target that has nothing published.   "unlinked": the platform
\* gives a post no address (a Discord server without its id, an answer of Threads or
\* Instagram without a permalink).
AllRemoteFaults == {"refused", "killed", "unsettled", "unlinked"}

ASSUME RemoteAssumption ==
  /\ Parts \in Nat \ {0} /\ MaxObjects \in Nat /\ MaxAsked \in Nat
  /\ RemoteFaults \subseteq AllRemoteFaults

VARIABLES
  target,    \* the row of publication_targets
  job,       \* the latest row of publish_jobs
  delivery,  \* the worker's attempt
  command,   \* [Commands -> what it is doing]
  live,      \* objects the audience sees
  round,     \* the delivery each object belongs to
  made,      \* objects made so far
  asked      \* commands so far

remoteVars == <<target, job, delivery, command, live, round, made, asked>>

Object == 1 .. MaxObjects
Objects == UNION {[1 .. n -> Object] : n \in 0 .. Parts}
Address == 0 .. MaxObjects    \* a post's address is that of its first object; 0: none
NoTarget == [status |-> "absent", ids |-> <<>>, url |-> 0]
NoJob == [status |-> "none", resume |-> <<>>, round |-> 0]
NoDelivery == [sent |-> <<>>]
Quiet == [pc |-> "idle", kind |-> "delete", named |-> FALSE, seen |-> NoTarget,
          todo |-> <<>>, deleted |-> {}, remaining |-> <<>>]
Kinds == {"delete", "delete_republish", "replace_media", "edit", "purge"}

RemoteTypeOK ==
  /\ target.status \in {"absent", "queued", "publishing", "published", "failed", "deleted"}
  /\ target.ids \in Objects /\ target.url \in Address
  /\ job.status \in {"none", "queued", "publishing", "published", "failed", "cancelled"}
  /\ job.resume \in Objects /\ job.round \in Nat /\ delivery.sent \in Objects
  /\ \A c \in Commands :
       /\ command[c].pc \in {"idle", "acting", "verified"} /\ command[c].kind \in Kinds
       /\ command[c].named \in BOOLEAN /\ command[c].seen.ids \in Objects /\ command[c].seen.url \in Address
       /\ command[c].todo \in Objects /\ command[c].remaining \in Objects
       /\ command[c].deleted \subseteq Object
  /\ live \subseteq Object /\ round \in [Object -> Nat]
  /\ made \in 0 .. MaxObjects /\ asked \in 0 .. MaxAsked

RemoteInit ==
  /\ target = [NoTarget EXCEPT !.status = "queued"]
  /\ job = [NoJob EXCEPT !.status = "queued", !.round = 1]
  /\ delivery = NoDelivery /\ command = [c \in Commands |-> Quiet]
  /\ live = {} /\ round = [x \in Object |-> 0] /\ made = 0 /\ asked = 0

(***************************************************************************)
(* The delivery                                                            *)
(***************************************************************************)

Claim ==
  /\ job.status = "queued"
  /\ job' = [job EXCEPT !.status = "publishing"]
  /\ target' = [target EXCEPT !.status = "publishing"]
  /\ delivery' = [sent |-> job.resume]
  /\ UNCHANGED <<command, live, round, made, asked>>

Underway == job.status = "publishing"

SendPart ==
  /\ Underway /\ Len(delivery.sent) < Parts /\ made < MaxObjects
  /\ made' = made + 1 /\ live' = live \cup {made + 1}
  /\ round' = [round EXCEPT ![made + 1] = job.round]
  /\ delivery' = [sent |-> Append(delivery.sent, made + 1)]
  /\ UNCHANGED <<target, job, command, asked>>

Delivered ==
  /\ Underway /\ Len(delivery.sent) = Parts
  /\ job' = [job EXCEPT !.status = "published", !.resume = <<>>]
  /\ \E url \in {delivery.sent[1]} \cup (IF "unlinked" \in RemoteFaults THEN {0} ELSE {}) :
       target' = [status |-> "published", ids |-> delivery.sent, url |-> url]
  /\ delivery' = NoDelivery
  /\ UNCHANGED <<command, live, round, made, asked>>

\* A part is refused: the parts that are out stay on the job.
DeliveryFails ==
  /\ Underway /\ Len(delivery.sent) < Parts
  /\ job' = [job EXCEPT !.status = "failed", !.resume = delivery.sent]
  /\ target' = [target EXCEPT !.status = "failed"]
  /\ delivery' = NoDelivery
  /\ UNCHANGED <<command, live, round, made, asked>>

(***************************************************************************)
(* A command                                                               *)
(***************************************************************************)

\* A command that names a target with nothing published has nothing to take down
\* and nothing to be fenced on.
Unfenced(o) == o.pc # "idle" /\ o.named /\ o.seen.status # "published"

\* Outside the "unsettled" fault a purge or a named command finds the target at
\* rest, and an unfenced one runs alone.
AtRest(c, kind, named) ==
  \/ "unsettled" \in RemoteFaults
  \/ /\ (kind = "purge" \/ named) => target.status \in {"absent", "published", "deleted"}
     /\ \A d \in Commands \ {c} :
          /\ ~Unfenced(command[d])
          /\ named /\ target.status # "published" => command[d].pc = "idle"

\* attemptPublishedTargetRemovals reads the rows that are published; an edit
\* reads those it could not edit in place (attemptTextFallbackRemovals).
\* purgePublication proves the published ones absent, and reads no other.
Asks(c, kind, named) ==
  /\ command[c].pc = "idle" /\ asked < MaxAsked /\ asked' = asked + 1
  /\ AtRest(c, kind, named)
  /\ target.status # "absent"
  /\ kind = "purge" => ~named /\ (target.status = "published" => live \cap ToSet(target.ids) = {})
  /\ command' = [command EXCEPT ![c] =
       [Quiet EXCEPT !.pc = IF kind = "purge" THEN "verified" ELSE "acting",
                     !.kind = kind, !.named = named, !.seen = target,
                     !.todo = IF kind # "purge" /\ target.status = "published" THEN target.ids ELSE <<>>]]
  /\ UNCHANGED <<target, job, delivery, live, round, made>>

\* removeTarget: every object is tried; one that is gone already is refused.
RemoveOne(c) ==
  LET x == Head(command[c].todo)
      gone == [command[c] EXCEPT !.todo = Tail(@), !.deleted = @ \cup {x}]
      kept == [command[c] EXCEPT !.todo = Tail(@), !.remaining = Append(@, x)] IN
  /\ command[c].pc = "acting" /\ command[c].todo # <<>>
  /\ \/ x \in live /\ live' = live \ {x} /\ command' = [command EXCEPT ![c] = gone]
     \/ /\ x \notin live \/ "refused" \in RemoteFaults
        /\ command' = [command EXCEPT ![c] = kept] /\ UNCHANGED live
  /\ UNCHANGED <<target, job, delivery, round, made, asked>>

\* MUTANT: the row is settled whatever became of it.
AnyObject(o) == o.seen.status = "published"

\* sameRemoteObject: the row is published and its first id is the one seen.
SameRemoteObject(o) ==
  /\ o.seen.status = "published" /\ target.status = "published"
  /\ target.ids[1] = o.seen.ids[1]

RemovedAll(o) == SameRemoteObject(o) /\ o.remaining = <<>>

\* requeueAfterRemovalTx: a target that was taken down whole, or one that was
\* named and had nothing published to take down.
Republishes(o) ==
  \/ o.kind \in {"delete_republish", "replace_media", "edit"} /\ RemovedAll(o)
  \/ o.kind \in {"delete_republish", "replace_media"} /\ o.named /\ o.seen.status # "published"

\* RETRY_UNLESS_HELD and createMissing; the payload starts anew.
Requeueable == job.status # "publishing"

\* settlePublishedTargetRemovals, cancelDeletedPublishJob and the requeue, in
\* one transaction.
Commits(c) ==
  LET o == command[c]
      again == Republishes(o) /\ Requeueable /\ (job.status # "queued" \/ RemovedAll(o)) IN
  /\ o.pc = "acting" /\ o.todo = <<>>
  /\ target' = IF again THEN [status |-> "queued", ids |-> <<>>, url |-> 0]
               ELSE IF RemovedAll(o) THEN [status |-> "deleted", ids |-> <<>>, url |-> 0]
               ELSE IF SameRemoteObject(o) THEN [target EXCEPT !.ids = o.remaining]
               ELSE target
  /\ job' = IF again THEN [status |-> "queued", resume |-> <<>>, round |-> job.round + 1]
            ELSE IF RemovedAll(o) /\ job.status = "published" THEN [job EXCEPT !.status = "cancelled"]
            ELSE job
  /\ command' = [command EXCEPT ![c] = Quiet]
  /\ UNCHANGED <<delivery, live, round, made, asked>>

\* targetSignature: the target, its status and its address, and none of its ids.
Unchanged(o) == target.status = o.seen.status /\ target.url = o.seen.url

\* The transaction of purgePublication deletes every row of the publication, or nothing.
Purges(c) ==
  /\ command[c].pc = "verified" /\ command' = [command EXCEPT ![c] = Quiet]
  /\ IF Unchanged(command[c])
     THEN target' = NoTarget /\ job' = NoJob /\ delivery' = NoDelivery
     ELSE UNCHANGED <<target, job, delivery>>
  /\ UNCHANGED <<live, round, made, asked>>

CommandDies(c) ==
  /\ "killed" \in RemoteFaults /\ command[c].pc # "idle"
  /\ command' = [command EXCEPT ![c] = Quiet]
  /\ UNCHANGED <<target, job, delivery, live, round, made, asked>>

RemoteNext ==
  \/ Claim \/ SendPart \/ Delivered \/ DeliveryFails
  \/ \E c \in Commands :
       \/ \E kind \in Kinds, named \in BOOLEAN : Asks(c, kind, named)
       \/ RemoveOne(c) \/ Commits(c) \/ Purges(c) \/ CommandDies(c)

RemoteSpec == RemoteInit /\ [][RemoteNext]_remoteVars

(***************************************************************************)
(* Properties                                                              *)
(***************************************************************************)

\* Whatever commands and deliveries run at the same time, the audience sees one
\* delivery of the post at most, and every object it sees is named by the row,
\* by the job that will finish the post or by the delivery under way
\* (settlePublishedTargetRemovals, requeueAfterRemovalTx, purgePublication).
CopiesAccounted ==
  /\ \A x, y \in live : round[x] = round[y]
  /\ live \subseteq ToSet(target.ids) \cup ToSet(job.resume) \cup ToSet(delivery.sent)
=============================================================================
