----------------------------- MODULE MCWorkshop -----------------------------
(***************************************************************************)
(* The parts of the system around the queues, checked side by side: feed   *)
(* media, Story media, the deploy agents, the credentials, the operator's  *)
(* commands on what is already out, the operator's conversations with the  *)
(* bot, the notices the operators get, one delivery inside its platform's  *)
(* adapter, and the credential breaker of a target.  They share no state,  *)
(* so one part moves in a behaviour, the one the scene names, and the      *)
(* state space is the sum of theirs.                                       *)
(***************************************************************************)
EXTENDS FeedMedia, StoryMedia, Deployment, Credentials, RemoteCopies, Desk, Notices,
        Adapters, Breaker

VARIABLE scene

WorkshopScenes == {"feed", "story", "deploy", "credentials", "remote", "desk", "notices",
                   "adapters", "breaker"}
workshopVars == <<scene, feedVars, storyVars, deployVars, credentialVars, remoteVars, deskVars,
                  noticeVars, adapterVars, breakerVars>>

\* Two feed targets with bounds of their own.
BoundsOfFeeds == [t \in Feeds |-> IF t = "threads" THEN "small" ELSE "large"]

WorkshopInit ==
  /\ scene \in WorkshopScenes
  /\ FeedInit /\ StoryInit /\ DeployInit /\ CredentialInit /\ RemoteInit /\ DeskInit
  /\ NoticesInit /\ AdaptersInit /\ BreakerInit
  /\ scene # "story" => provider = "local" /\ asset = "video"
  /\ scene # "credentials" => kind = "x" /\ chosen = CHOOSE a \in Accounts : TRUE
  /\ scene # "desk" => desk = "post"
  /\ scene # "notices" => about = "post" /\ theme = "reminders"
  /\ scene # "adapters" => carrier = "telegram"

WorkshopNext ==
  \/ /\ scene = "feed" /\ FeedNext
     /\ UNCHANGED <<scene, storyVars, deployVars, credentialVars, remoteVars, deskVars, noticeVars,
                    adapterVars, breakerVars>>
  \/ /\ scene = "story" /\ StoryNext
     /\ UNCHANGED <<scene, feedVars, deployVars, credentialVars, remoteVars, deskVars, noticeVars,
                    adapterVars, breakerVars>>
  \/ /\ scene = "deploy" /\ DeployNext
     /\ UNCHANGED <<scene, feedVars, storyVars, credentialVars, remoteVars, deskVars, noticeVars,
                    adapterVars, breakerVars>>
  \/ /\ scene = "credentials" /\ CredentialNext
     /\ UNCHANGED <<scene, feedVars, storyVars, deployVars, remoteVars, deskVars, noticeVars,
                    adapterVars, breakerVars>>
  \/ /\ scene = "remote" /\ RemoteNext
     /\ UNCHANGED <<scene, feedVars, storyVars, deployVars, credentialVars, deskVars, noticeVars,
                    adapterVars, breakerVars>>
  \/ /\ scene = "desk" /\ DeskNext
     /\ UNCHANGED <<scene, feedVars, storyVars, deployVars, credentialVars, remoteVars, noticeVars,
                    adapterVars, breakerVars>>
  \/ /\ scene = "notices" /\ NoticesNext
     /\ UNCHANGED <<scene, feedVars, storyVars, deployVars, credentialVars, remoteVars, deskVars,
                    adapterVars, breakerVars>>
  \/ /\ scene = "adapters" /\ AdaptersNext
     /\ UNCHANGED <<scene, feedVars, storyVars, deployVars, credentialVars, remoteVars, deskVars,
                    noticeVars, breakerVars>>
  \/ /\ scene = "breaker" /\ BreakerNext
     /\ UNCHANGED <<scene, feedVars, storyVars, deployVars, credentialVars, remoteVars, deskVars,
                    noticeVars, adapterVars>>

WorkshopSpec == WorkshopInit /\ [][WorkshopNext]_workshopVars

WorkshopTypeOK == FeedTypeOK /\ StoryTypeOK /\ DeployTypeOK /\ CredentialTypeOK /\ RemoteTypeOK
                  /\ DeskTypeOK /\ NoticesTypeOK /\ AdaptersTypeOK /\ BreakerTypeOK
=============================================================================
