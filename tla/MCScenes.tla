------------------------------- MODULE MCScenes -------------------------------
(* Scenes of WorkIdentity in one run: upserts of every kind of record under     *)
(* review, merges of works that cite alike, the read-repair jobs one after      *)
(* another, all the jobs at once, each between the read and the write of        *)
(* another, and merges while a job has a question of its own to ask.            *)
EXTENDS MCIdentity

CONSTANTS Scenes

VARIABLE scene
scenesVars == <<scene, vars>>

Upserts == INSTANCE WorkIdentity WITH
  Incoming <- AllRecords, MaxItems <- 3, Overlap <- FALSE, Jobs <- {"upsert"}
Merges == INSTANCE WorkIdentity WITH
  Incoming <- MergeRecords, MaxItems <- 2, MaxCites <- 2, Overlap <- FALSE,
  Jobs <- {"upsert", "cite"}
Repairs == INSTANCE WorkIdentity WITH
  Incoming <- TitleRecords, MaxItems <- 1, Overlap <- FALSE,
  Jobs <- {"upsert", "titles", "resolve", "biblio", "acquire"}
Races == INSTANCE WorkIdentity WITH
  Incoming <- RaceRecords, MaxItems <- 1, MaxCites <- 1, Overlap <- TRUE,
  Jobs <- {"upsert", "titles", "resolve", "acquire", "cite", "biblio"}
Questions == INSTANCE WorkIdentity WITH
  Incoming <- QuestionRecords, MaxItems <- 2, Overlap <- TRUE,
  Jobs <- {"upsert", "titles", "resolve"}

ScenesInit ==
  /\ scene \in Scenes
  /\ \/ scene = "upserts" /\ Upserts!Init
     \/ scene = "merges" /\ Merges!Init
     \/ scene = "repairs" /\ Repairs!Init
     \/ scene = "races" /\ Races!Init
     \/ scene = "questions" /\ Questions!Init

ScenesNext ==
  \/ scene = "upserts" /\ Upserts!Next /\ UNCHANGED scene
  \/ scene = "merges" /\ Merges!Next /\ UNCHANGED scene
  \/ scene = "repairs" /\ Repairs!Next /\ UNCHANGED scene
  \/ scene = "races" /\ Races!Next /\ UNCHANGED scene
  \/ scene = "questions" /\ Questions!Next /\ UNCHANGED scene

ScenesSpec == ScenesInit /\ [][ScenesNext]_scenesVars

-----------------------------------------------------------------------------
(* One job at a time, an id column, once set, keeps its value as long as the    *)
(* work exists ("A merge never overwrites a value already present",            *)
(* identity.backfill); between the read and the write of another job it may     *)
(* not.  In every scene a pass over titles fills a title and nothing else.      *)
RepairsOnlyFill ==
  [][TitlesOnlyFill /\ (scene \notin {"races", "questions"} => KeepsColumns)]_scenesVars
=============================================================================
