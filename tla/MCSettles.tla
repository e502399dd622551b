------------------------------ MODULE MCSettles -----------------------------
(* What must come to an end, each part by itself: the mails of the outbox, *)
(* which is stated here directly so that its abstract specification can be *)
(* a property, the forms behind a challenge, the data exports and the      *)
(* sweep of the files of images.  What belongs to another part rests in    *)
(* its initial state.                                                      *)
EXTENDS MCEmailOutbox

CONSTANTS
    Exports, Images,
    Caller      \* the one HTTP request of exports and images

VARIABLES
    part,
    kind, form, script, widget, made, attempts, failed, spent, handed,   \* AuthForms
    job, archives, task, download, served, swept, raced, died,           \* DataExports
    listing, image, files, step, seen, keys, sweep, missed, stale, repeated    \* ListingImages

Fo == INSTANCE AuthForms WITH Limit <- 1, MaxTokens <- 4
Ex == INSTANCE MCDataExports WITH
          Requests <- {Caller}, Cooldown <- 2, Lifetime <- 1, MaxAttempts <- 2,
          LocalStorage <- FALSE, Faults <- TRUE, worker <- task, request <- download
Im == INSTANCE MCListingImages WITH
          Requests <- {Caller}, MaxImages <- 2, MaxRepeats <- 0, LocalStorage <- TRUE,
          listed <- listing

outbox  == <<vars, doubted>>
forms   == <<kind, form, script, widget, made, attempts, failed, spent, handed>>
exports == <<job, archives, task, download, served, swept>>
gallery == <<listing, image, files, step, seen, keys, sweep, missed>>
system  == <<vars, forms, exports, gallery>>
all     == <<part, outbox, forms, exports, raced, died, gallery, stale, repeated>>

SettlesInit ==
    /\ part \in {"outbox", "forms", "exports", "gallery"}
    /\ MCInit /\ Fo!Init /\ Ex!MCInit /\ Im!MCInit
    /\ part # "outbox" => key = "set"
    /\ part # "forms" => kind = "login"

SettlesNext ==
    /\ \/ part = "outbox" /\ MCNext
       \/ part = "forms" /\ Fo!Next
       \/ part = "exports" /\ Ex!MCNext
       \/ part = "gallery" /\ Im!MCNext
    /\ UNCHANGED part
    /\ part # "outbox" => UNCHANGED outbox
    /\ part # "forms" => UNCHANGED forms
    /\ part # "exports" => UNCHANGED <<exports, raced, died>>
    /\ part # "gallery" => UNCHANGED <<gallery, stale, repeated>>

(* The fairness of the parts.  As part never changes, one condition on the *)
(* step of one part or of another says the same as a condition for each.   *)
First  == CHOOSE e \in Exports : TRUE
Second == CHOOSE e \in Exports : e # First
InOutbox  == part = "outbox" /\ UNCHANGED <<forms, exports, gallery>>
InForms   == part = "forms" /\ UNCHANGED <<vars, exports, gallery>>
InExports == part = "exports" /\ UNCHANGED <<vars, forms, gallery>>
InGallery == part = "gallery" /\ UNCHANGED <<vars, forms, exports>>

Strong1 == (InForms /\ Fo!Challenge) \/ (InExports /\ Ex!BeginJob(First))
Strong2 == (InForms /\ Fo!Answer) \/ (InExports /\ Ex!BeginJob(Second))
Strong3 == (InForms /\ Fo!Solve) \/ (InExports /\ Ex!CleanUp(First))
Strong4 == (InForms /\ Fo!SubmitsRight) \/ (InExports /\ Ex!CleanUp(Second))
Weak1 == \/ InOutbox /\ StartBatch
         \/ InForms /\ Fo!Mount
         \/ InExports /\ task # Ex!Idle /\ Ex!Work
         \/ InGallery /\ Im!StartSweep
Weak2 == \/ InOutbox /\ Send
         \/ InForms /\ Fo!Submit(TRUE)
         \/ InExports /\ (Ex!CommitDownload(Caller) \/ Ex!RemoveArchive(Caller))
         \/ InGallery /\ Im!EndSweep
Weak3 == \/ InOutbox /\ CommitBatch
         \/ InForms /\ Fo!ScriptSettles
         \/ InExports /\ Ex!Tick

SettlesFairness ==
    /\ SF_system(Strong1) /\ SF_system(Strong2) /\ SF_system(Strong3) /\ SF_system(Strong4)
    /\ WF_system(Weak1) /\ WF_system(Weak2) /\ WF_system(Weak3)
    /\ \A m \in Mails : WF_system(InOutbox /\ Due(m))
    /\ \A i \in Images : WF_system(InGallery /\ Im!SweepFile(i))

SettlesSpec == SettlesInit /\ [][SettlesNext]_all /\ SettlesFairness
-----------------------------------------------------------------------------
(* AuthForms: the registration, login, password and message forms.         *)
FormsLetIn == part = "forms" => Fo!GetsIn
(* MCDataExports: every job ends and every archive goes, unless something  *)
(* dies on the way (account_service.py:725-844).                           *)
ExportsSettle == Ex!JobEndsUnlessDied /\ Ex!ArchiveGoesUnlessDied
(* ListingImages: the sweep of local storage (image_tasks.py).             *)
OrphansGo == Im!OrphanIsSwept
=============================================================================
