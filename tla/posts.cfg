SPECIFICATION MCDraftSpec
CONSTANTS
  MaxEditions = 4
  MaxPosts = 2
  MaxTries = 1
  MaxCrashes = 1
  Edits = {"ru", "en", "media", "target_en", "target_story", "mode", "make_thread", "append", "edit_part", "edit_part_en", "remove_part", "cancel"}
  Accidents = {"plain"}
INVARIANTS DraftTypeOK EnglishOfThisPost CardShowsText StoriesAreServed
PROPERTIES DeliveredIsCurrent
CHECK_DEADLOCK FALSE
