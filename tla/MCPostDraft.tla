----------------------------- MODULE MCPostDraft -----------------------------
(***************************************************************************)
(* The instance of PostDraft for TLC.  What a restart does to an edit      *)
(* needs one edit before it and one after; what a late answer does to a    *)
(* thread needs an edit more, for the thread is to be made first.          *)
(***************************************************************************)
EXTENDS PostDraft

\* Where a draft begins; the author's toggles lead to the other choices.
FirstTargets == {{}, {"en", "story"}, {"story", "site"}, {"en", "story", "site"}}

\* BOUND: editions of a behaviour outside the thread, or with a restart.
EditionsOutsideThreads == 3

MCDraftSpec ==
  /\ DraftInit /\ wants \in FirstTargets
  /\ [][DraftNext /\ (editions' > EditionsOutsideThreads => Len(posts) > 1 /\ restarts' = 0)]_draftVars
=============================================================================
