----------------------------- MODULE MCSitePages -----------------------------
(* Instances of SitePages for TLC. *)
EXTENDS SitePages

SiteScenes == {{"repair", "fail", "stall"}, {"repair", "crash"}, {"repair", "alt", "refuse"},
               {"plan", "retry", "fail"}, {"plan", "cancel", "cancel_draft", "skip", "fail"}}
LateScenes == {{"plan", "late_plan"}}
CancelScenes == {{"cancel"}}
=============================================================================
