------------------------------- MODULE Media -------------------------------
(***************************************************************************)
(* MediaService: upload intents and the processing pipeline.  A step is    *)
(* taken when a caller asks for it, and steps never fail by themselves.    *)
(* An intent's expiry is written and never read, and sizes are under the   *)
(* gigabyte that the DTO allows.                                           *)
(***************************************************************************)
EXTENDS Service

CONSTANTS
  MaxIntents  \* bound: upload intents made

VARIABLES
  intents,   \* how many upload intents have been made; they are known by their number
  mediaJobs  \* oldest first; published says the CDN address is set

mediaVars == <<intents, mediaJobs>>

MediaAssumption == MaxIntents \in Nat
ASSUME MediaAssumption

Pipeline == <<"virus_scanning", "format_detecting", "optimizing", "thumbnailing", "ai_tagging",
              "storing", "cdn_distributing", "completed">>
Steps == {Pipeline[i] : i \in DOMAIN Pipeline}

MediaJob ==
  [intent : 0 .. MaxIntents, status : Steps \cup {"queued", "failed"},
   scan : {"pending", "clean"}, published : BOOLEAN]

\* The fixtures hold a completed job and one in the middle.
FixtureJobs ==
  << [intent |-> NoRecord, status |-> "completed", scan |-> "clean", published |-> TRUE],
     [intent |-> NoRecord, status |-> "thumbnailing", scan |-> "clean", published |-> FALSE] >>

MediaTypeOK ==
  /\ intents \in 0 .. MaxIntents
  /\ mediaJobs \in Seq(MediaJob)

MediaInit == intents = 0 /\ mediaJobs = FixtureJobs

-----------------------------------------------------------------------------

CreateUploadIntent ==
  /\ AssertAllowed("mediaStorageGb", 1)
  /\ intents < MaxIntents
  /\ intents' = intents + 1
  /\ UNCHANGED mediaJobs

\* Completing again answers with the job there is, whatever its checksum.
CompleteUpload(intent) ==
  /\ ~\E j \in DOMAIN mediaJobs : mediaJobs[j].intent = intent
  /\ mediaJobs' = Append(mediaJobs, [intent |-> intent, status |-> "queued", scan |-> "pending",
                                     published |-> FALSE])
  /\ UNCHANGED intents

\* Mutant: a job that has not begun, which findIndex does not find, begins at the second step.
StepAfter_OffByOne(status) ==
  IF status \in Steps THEN Pipeline[(CHOOSE i \in DOMAIN Pipeline : Pipeline[i] = status) + 1]
                      ELSE Pipeline[2]

StepAfter(status) ==
  IF status \in Steps THEN Pipeline[(CHOOSE i \in DOMAIN Pipeline : Pipeline[i] = status) + 1]
                      ELSE Pipeline[1]

ProcessNext(j) ==
  LET step == StepAfter(mediaJobs[j].status)
  IN /\ mediaJobs[j].status \notin {"failed", "completed"}
     /\ mediaJobs' = [mediaJobs EXCEPT
          ![j].status = step,
          ![j].scan = IF step = "virus_scanning" THEN "clean" ELSE @,
          ![j].published = IF step = "completed" THEN TRUE ELSE @]
     /\ UNCHANGED intents

\* A job fails when a caller says so, a completed one too, and keeps what it has published.
FailJob(j) ==
  /\ mediaJobs' = [mediaJobs EXCEPT ![j].status = "failed"]
  /\ UNCHANGED intents

MediaNext ==
  /\ UNCHANGED now
  /\ \/ CreateUploadIntent
     \/ \E intent \in 1 .. intents : CompleteUpload(intent)
     \/ \E j \in DOMAIN mediaJobs : ProcessNext(j) \/ FailJob(j)

-----------------------------------------------------------------------------

\* Nothing reaches the CDN unscanned: whatever callers advance or fail, in whatever order, a job
\* has an address only after a clean scan, a completed job always has one, and one that failed on
\* the way has none.  [MediaService.processNext, failJob]
PublishedIsScanned ==
  \A j \in DOMAIN mediaJobs :
    /\ mediaJobs[j].published => mediaJobs[j].scan = "clean"
    /\ mediaJobs[j].published => mediaJobs[j].status \in {"completed", "failed"}
    /\ mediaJobs[j].status = "completed" => mediaJobs[j].published
    /\ mediaJobs[j].status \in Steps => mediaJobs[j].scan = "clean"

\* One job per uploaded file, however often its completion is reported.  [completeUpload]
OneJobPerUpload ==
  \A i, j \in DOMAIN mediaJobs :
    mediaJobs[i].intent = mediaJobs[j].intent /\ mediaJobs[i].intent # NoRecord => i = j
=============================================================================
