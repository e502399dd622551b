# A verification project for sve-za-pecanje

TLA+ modules, TLC runs and TLAPS proofs about the fishing marketplace in this repository:
a FastAPI backend with a background worker (`backend/app`), a Next.js frontend (`frontend`)
and a Payload CMS for the blog (`cms`), over PostgreSQL, Redis and object storage. Paths
below are relative to the repository's root. `PROJECT.json` is the machine-readable side:
components, runs, the map from definitions to source lines, mutants, hazards, theorems.

    tlc -config Lifecycle_handlers.cfg MCListingLifecycle     # a run
    tlapm ListingLifecycle_proofs.tla                          # a proof

## 1. How the system runs, and what makes it hard

* **One database session per request.** A handler reads rows without a lock, tests what it
  read, assigns to ORM objects and commits (`backend/app/db/session.py:8-17`). PostgreSQL
  runs at its default READ COMMITTED, so another session may commit between the read and
  the commit.
* **The ORM writes columns, not rows.** At a flush SQLAlchemy issues an UPDATE of the
  columns whose new value differs from the value *this session loaded*. Assigning `None`
  over a loaded `None` writes nothing, even if the row has another value by now. An UPDATE
  of a row that is gone raises `StaleDataError`; a DELETE of one is a warning. `autoflush`
  is off.
* **Few locks.** `update_draft` and `publish_draft` use `SELECT ... FOR UPDATE`
  (`listing_service.py:699`); the CMS locks media rows. Everything else is optimistic,
  protected by unique constraints at best.
* **Several transactions per operation.** Publishing commits the listing, then its
  duplicate fingerprint; an image is stored before its row and deleted after the commit; an
  export is committed as `processing`, built, stored, and committed again.
* **One worker** (`backend/app/tasks/worker.py:39-98`) loops over some twenty tasks, each in
  a session of its own; an exception is logged and rolls its task back, the next cycle
  tries again.
* **A stateful client.** The listing form autosaves over a network that loses and delays
  calls, in several tabs and on several devices. Most other screens keep a copy of what they
  were rendered with, change it when an answer comes, and are not told of what other tabs,
  handlers or later answers have done; `router.refresh()` does not replace such a copy.

So the hazards are stale reads, operations torn by crashes between transaction and storage,
lost and late calls, lock order, and whatever must happen eventually. `PROJECT.json`
"hazards" lists them at their lines with the properties that would catch them.

## 2. Inventory

| Component | State | Operations | Interacts with | Hard part; what makes it correct |
|---|---|---|---|---|
| Listing lifecycle (`listing_service`, `feature_service.renew_listing`, `moderation_service`, `listing_tasks`) | `listings`: status, reservation, approval, expiry, draft save time | create, draft, publish, edit, images, reserve, sell, archive, renew, delete, approve, reject, suspend, expire, forget drafts | worker, moderation, risk fingerprint, every reader of listings | stale commits; manual review before publication, published listings expire, drafts stay behind, reservations are cleared |
| Drafts and autosave (`CreateListingForm.tsx`, draft handlers) | refs and state of each form; `draft_client_id`, `draft_version` | edit, autosave, retry, reload, go offline, submit | backend over HTTP, other tabs | lost and late replies; no unseen overwrite, "saved" means stored, edits are saved or reported |
| Listing images (`image_service`, `storage`, `image_tasks`) | `listing_images`, files | upload, delete, cover, reorder, sweep | listings, storage | two stores, one transaction; every row has its file, orphans go |
| Data exports (`account_service`, `private_storage`) | `data_export_requests`, archives | ask, build, retry, download once, expire | worker, storage, image sweep, e-mail | crashes between stores; a valid link has its archive, once, every job ends |
| Blog articles and media (`cms/src`) | posts, versions, media, row locks | save, autosave, publish, withdraw, restore, delete | editors, public site | lock order, references in old versions; no reference to a deleted image, fixed slugs |
| Account closure, sessions (`account_service`, `auth_service`) | user, `auth_sessions`, closure with snapshot, listing statuses | sign in, revoke, verify, reset, suspend; request, cancel, finalise | worker, listings, account page | three writers of one status; a closure is kept until lifted, revoked sessions act no more |
| Challenged forms (`risk_service`, `TurnstileChallenge.tsx`) | attempts per address, the token a form holds | try, challenge, solve, expire | auth and message handlers, Turnstile | tokens used once and expiring; an insistent visitor gets in |
| E-mail outbox (`email_tasks`, `admin.retry_email`) | `email_outbox` | queue, send batch, retry | every service, Resend | sent before the commit; every mail ends, once unless its fate is in doubt |
| Messaging and safety (`message_service`, `conversation_safety_service`) | conversations, messages, unread counters, mutes, blocks | start, send, read, mute, block | notifications, outbox | lost counters, block against send; no message hidden |
| Notifications (`notification_service`, `NotificationCenter.tsx`) | `user_notifications`, the lists of tabs | create, consolidate, read, page, poll | every service | merged rows move while a list is paged; what did not move is reachable |
| Phone verification and profile | challenges, phones, daily counts, two forms | request, confirm, save | SMS provider | counts tested before insert; a verified number was proved |
| Promotions and shops (`feature_service`, `shop_service`) | orders, featured and shop periods | request, approve, reject, clear | worker, listings, administrators | period computed from a stale end; paid days add up |
| Sales, reviews (`listing_service`, `reviews.py`, owner's pages) | the sale, reviews, tabs | reserve, sell, archive, renew, review | conversations, listing rows | stale tabs; one sale, one buyer |
| Marks (`favorite`, follow, mute, block and their buttons) | rows, counter, buttons | click, commit, answer | pages, cards | the button's copy; it tells what is stored |
| Risk cases and reports (`risk_service`, `moderation_case_service`) | signals, cases, reports, queues | record, take, decide in bulk, resolve | listings, conversations | commits midway; a decision stands |
| Results page, search box (`BrowseContent.tsx`, `FilterSidebar.tsx`, `SearchCombobox.tsx`) | address, drawer form, suggestions | filter, page, save search, type, choose | `filter_service`, `search_service` | conditional attributes, late answers; the server accepts what is sent |
| Screens of administrators (`ListingImageManager.tsx`, `SeoLandingManager.tsx`, social card) | lists, forms, pictures, subprocesses | upload, order, save, preview, render | services, CMS | answers over a newer choice; the screen shows what is stored |
| Analytics, rate limits and views, digests, article previews, migrations, deployment | rows and derived data | mostly single-row or read-only | – | little to interleave; see §8 |

## 3. Modules

Each module has an `MC…` module that extends it for TLC and, where proved, a `…_proofs`
module (`Screens_proofs` for MCScreens and ListingImages; it takes tlapm some twenty minutes, the others
seconds to minutes). A definition named `X_Something` with the comment "mutant" is a wrong version of
`X`, used only to show that a property notices it.

**ListingLifecycle.** The rows of one seller's listings, and database sessions. A handler is
two steps: `Load` copies the rows it reads into its session (`snap`), and the handler's own
action tests the copy and commits by `Merge`, which writes a column only if the new value
differs from the copy. The locking operations are one step. `Fingerprint` is the second
transaction of a publication; suspension and the two worker batches are a `Start…` step
that reads and a step that commits; `Abandon` is a session that fails or dies. `Engage` is
any row of another table that keeps a listing from being deleted. Reservation dates are
three values, since the ORM only asks whether they differ.

**ListingDrafts.** `form[t]` holds the refs and state of one mount of the form, `call[t]`
its save, load and publication under way, `late` the calls it gave up that the server may
still run. The server's handlers are functions from the table to a table and a reply, run
at one instant (`Serve`, `ServeLate`) because they lock the row. `PersistDraft` is the body
of `persistDraft` up to its call; `Outcome`, `Repeat` and `SaveSettles` what follows it.
`Refresh` is the page's renewal after an operation on its photographs
(`ListingImageManager.tsx:103`): new `categories` make the form's effects run again, which
drops the timer of an edit and, where the page was not opened on the draft itself, loads a
stored draft: any that has an id, since the address and the stored id the effect reads may be
those of another draft, or of another tab (`CreateListingForm.tsx:482-515`). At most one load is under way,
so a refresh during one starts none. The client id it renews is not used again once the draft has an id.
`Unreliable` names the operations whose reply may be lost after the server ran them.

**ListingImages.** Rows of images with order and cover, files, and requests that read the
gallery, store a file, commit, and unlink afterwards; each of these is a step, and a request
may stop after any (`Abandon`; `Unlink` may fail silently as the storage code does). A new
order names every image and may name some more than once, up to `MaxRepeats` names too many
(`Places`): an image gets the place where it is named last. The
worker's sweep reads the known keys and then removes files one by one.

**DataExports.** Jobs, archives, the worker and HTTP requests with a program counter each;
deaths between any two steps; a storage call that fails after it took effect. Time is ages
and remaining lifetimes, so no clock needs a bound.

**BlogArticles.** Editors' transactions with row locks on images taken in order of their
ids (`lockMedia`), the test of the canonical row (`protectPublication`), the commit with its
version and the pruning of old versions, and the guarded deletion of images. A restored
version is a save with the version's references.

**Messaging.** One conversation and the sessions of requests on it, under READ COMMITTED. A
send loads (`Begin`), writes its message and fixes its `plan` for the recipient's one
consolidated notification (`Write`: insert a row, change the row it loaded, or nothing),
waits for the row of the conversation (`TakeRow`) and commits. A reader marks the
notification, then the conversation, commits (`Clear`), and only then reads a page
(`Fetch`). A row written and not committed makes the next writer wait (`RowFree`,
`NotificationFree`); the circle this allows is broken by `Abandon`, which stands for every
rollback. Blocks, mutes, dismissals, retention and the listing's own life are one step each.
`shown` and `missed` record which messages a recipient was shown, and which an opening took
off the counter without showing them.

**Accounts.** One account, its listings, the sessions of logins, its closure, and the page
that shows them. A request is sent, reads the rows it decides on, commits only the columns
it changed, and is answered. Time is two facts: a session is fresh, a closure is due.

**AuthForms.** The five forms in front of a risk rule, one at a time (`kind`): the attempts
of an address, tokens handed out and spent, the Turnstile script and widget, the form's own
token and its answers.

**EmailOutbox**, **MailPromise.** The outbox with batches that die, and what it promises of a
mail: it is settled as sent only after a delivery, left alone once settled until somebody
asks again, and settled in the end. `Promise` in EmailOutbox is the refinement mapping: the
status of a row, as long as no dying batch holds it, is the abstract outcome.

**PhoneVerification**, **Promotions**, **Sales**, **Moderation**, **Controls.** Handlers that
load, then commit what they computed from what they loaded, together with the pages whose
buttons call them. Each handler's tests, its commit and the answer's effect on its page are
actions; a call may be lost. Controls has one kind of mark at a time (`kind`), Promotions one
kind of good (`good`), since they never meet.

**Inbox**, **Browse**, **SearchBox**, **Gallery**, **SeoForm**, **SocialCard.** Screens. Inbox:
tabs page through a list ordered by time whose rows move to the front. Browse: the address
is the state; `Accepted` is the server's validation of attribute filters, `Submitted` what the
drawer's form sends. SearchBox: a timer, then a request that may be answered late. Gallery:
the photographs as the screen has them over the stored order, each handler of ListingImages
in one step. SeoForm: which landing the form was filled from and which one it saves.
SocialCard: panels that are mounted anew with every edit, requests that are aborted, places
for subprocesses.

**MCScreens** and **MCSettles** explore these modules side by side. They share no rows, so
`part` says which one a behaviour is about and the others rest; in MCScreens the parts take
turns in the variables `v1` to `v12`. A property of such a run is `part = "..." =>` the
property of the part's own module (`MC…`, or the module itself for Gallery, SeoForm, SearchBox and
SocialCard), where it is explained.

Histories. Some documented promises hold only while no two sessions overlap, or while
nothing dies. The base modules do not restrict themselves to that case. The `MC…` modules
add a history variable that records when it was left, and a property says "until then":
`raced` (a session changed something while another was in the middle of an operation),
`stale` (a request worked on a gallery, or a save on an article, that another had changed
since it read it), `died` (a process ended, or a storage call failed, in the middle), `blind`
(the seller typed while a draft was loading), `joined` (a submission waited for a save under
way), `silenced` (a refresh dropped the timer of an edit, until the form wakes), `repeated` (a new order named an
image twice, until the orders are whole again), `late` (a block came between a send's checks and its commit), `dismissed` (a
notification was marked read after a send had loaded it), `lifted` (an account with a scheduled closure was made
active), `doubted` (mails whose delivery is in doubt), `resold`, `cut` (an end set by hand),
`dropped` (a link took away what another filter depends on), `moved`, `overlapped` (a first page came
over a longer list), `lost` (decisions a request lost or wrote over others), `overtaken` (buttons whose mark another one
changed), `crossed`, `failed` (calls of a screen), and in the base modules `missed` and `swept` (files a sweep took; in Messaging `missed` is as above). What goes wrong
afterwards is in §6. Where a
property says nothing any more, `Explored` (or `NotYetRaced`) ends the exploration; in a few
modules it also says which two independent things are not followed together.

## 4. Runs, bounds and what they show

| Run | Instance | Shows |
|---|---|---|
| `lifecycle_handlers` | 1 listing, 2 sessions, manual review, clock stopped | every handler against every other: publication needs a review, no way back to draft |
| `lifecycle_worker` | 1 listing, 1 session, worker, clock to 3 | expired listings leave the site under fairness; until sessions overlap reservations are cleared, only drafts are deleted, only an approval shows a sold or a suspended seller's listing |
| `reservation_race` | as the first | finding: a reservation survives on an archived listing |
| `drafts_tabs` | 2 tabs, 2 ids, 3 acts of the seller, replies other than to creates lost | no unseen overwrite, saved means stored, what is published was submitted |
| `drafts_settle` | 1 tab, 4 acts, any reply lost, late calls, refreshes | one listing per client id; no form is left quiet with unsaved edits and edits settle, unless a refresh drops their timer |
| `false_saved` | 1 tab, 4 acts, replies to creates lost | finding: "Sačuvano" for content never stored |
| `exports_faults` | 2 jobs, 2 requests, 3 attempts, deaths, sweep | valid links have archives; one job per cooldown and one download per link until requests overlap |
| `articles_overlap` | 2 editors, 1 article, 2 images, 2 slugs, 1 version kept | references are kept, locks never form a circle, slugs are fixed until a save is overtaken |
| `messages_overlap` | 2 messages, pages of 1, 2 requests; the seller mutes and blocks | a badge at 0 hides no message; badges are exact until requests overlap, blocks silence until one is late, a message reopens its notification until that is dismissed |
| `accounts_page` | 1 listing, 2 sessions, 2 requests, 1 change of password | a closure hides at once and erases only what is hidden, unless lifted; what leaves the page is signed out; resets end old sessions until a login overlaps |
| `screens_safety` | 12 parts with 2 (or 3) of everything each, below | screens true to the tables, paid days, buyers, decisions and verified numbers right, unless the named overlap happened |
| `settles_live` | 2 mails, 2 attempts, 1 death; 4 tokens; 2 jobs, 1 death; 2 images | the outbox keeps its promise, forms let in, exports end, orphans go |

Why the bounds are enough. Rows of different listings (articles, jobs) meet only in a
seller's suspension and the worker's batches, which treat them alike, so one row shows every
race on it; two sessions are the least that race, the worker is a third. Two ids let a late
create make a second listing if it could. Three images under a limit of two allow an upload,
a deletion and one over the limit; one name too many (`MaxRepeats`) is enough for a gap and for the tie after it. A clock of 3 with lifetimes of 1 has a time before, at and
after every expiry. `lifecycle_handlers` stops it: no handler compares with the clock, so that
only takes the worker's batches out, which `lifecycle_worker` runs against one session and
the theorem `Safety` against any number. Two images and one
retained version are enough for a circle of two locks and for a version to be pruned. Two messages overflow a page
of one and are merged into one notification; two requests are a sender and a reader, or two
senders. In `screens_safety` a part has two of what can compete: two tabs, two calls, two orders, cases,
challenges, users or landings, three photographs under a limit of three; one tab where the
second could only repeat (Inbox, telephone), the catalogue of MCBrowse with one conditional attribute, one that
a leaf category fixes and one of another root, one place for a subprocess under two requests. Two mails make a
batch whose first mail is out when the worker dies; with two attempts a mail can fail, be put
back and fail for good; four tokens are two used, one expired and one left.
Bounds named in the modules: `MaxTime`, `MaxActs`, `MaxPage`, `MaxSaved`, `MaxEvents`, `MaxCalls`, `MaxCopies`, `MaxRepeats`, `MaxDeaths`, `MaxRetries`, `MaxTokens`,
`MaxPasswords`, `MaxFiles`, `Wary` (the sides that mute and block; one
side is enough, since a test looks at both directions alike). Deadlock is not checked where ids or acts
are used up and the system may rest.

## 5. Fairness

The worker is the only source of lifecycle liveness: `main` loops for ever and a task that fails
is tried again, so `WorkerStep` is weakly fair once begun; beginning and committing a batch
of expired listings is strongly fair, since a commit that loses a race (`StaleDataError`)
is rolled back and repeated, and requests cannot make it lose for ever in practice. The
export worker is the same: what is begun goes on unless it dies, and a job that is again and
again eligible is come to, because a batch selects every job. Each file the sweep has listed
is come to (weak fairness per file). In the form, timers fire and a call under way comes back
or is cut off. The outbox: a batch is begun, each mail is tried, the batch is committed, a mail's retry time
comes (all weak: the worker lives on, and `MaxDeaths` bounds its deaths inside a batch, after which every
batch ends). The forms: a visitor who insists submits, solves the challenge that is shown and submits the
token (strong, since the token may expire in between, as often as `MaxTokens` allows), the
script settles, the network answers. In `MCSettles` one condition serves the corresponding
steps of several parts, which is the same since `part` never changes.
No fairness is assumed of sellers, editors, moderators or of calls given up.

## 6. Where code and documentation part

Two disagreements have a run of their own (`PROJECT.json` "findings"): the reservation
that survives an archive, and the form that says "Sačuvano" of content the server never
took. The models show more of the same kind; most are
counterexamples to the property named once its "unless" is dropped:

* `HistoryKeptUnlessRaced`: `delete_draft` and the retention task delete a row that was
  published after they read it (`listing_service.py:341`, `listing_tasks.py:76`). Two things
  the property does not forbid: a listing pending when its seller is suspended can still be
  approved (`moderation_service.py:64`; tasks/017 says a suspended user has no visible
  listings), and a rejected listing is made public by its owner's renewal
  (`feature_service.py:286`), a transition the specification document does not have.
* `NoUnseenOverwrite` with `"create" \in Unreliable`: a repeated create hands out the version
  another tab has saved (`listing_service.py:131`), and the next save replaces it.
* `SubmittedUnlessJoined`: a submission while a save is under way publishes what that save
  stored (`CreateListingForm.tsx:358`).
* `NeverStuckUnlessSilenced`, `EditsSettleUnlessSilenced`: a photograph is uploaded, moved or deleted
  within 900 ms of an edit (or within 50 ms of a save that is to be repeated). The refresh that follows gives the form
  new `categories`, the cleanup of its effect drops the timer and nothing starts it again
  (`CreateListingForm.tsx:511-515`): the edit is not saved, and the form does not say so, until
  the seller types or saves again, though edits are meant to be saved after a pause and their state to be
  shown (docs/listing-drafts.md:11, tasks/050-listing-drafts-autosave.md:23). The same refresh may load the stored draft again, over edits it has not (`:482-495`): those are
  then gone without a word, which both properties count as settled.
* `GalleryUnlessStale`: two uploads pass the limit together and take one
  sort order (`listing_service.py:594`). Without any overlap, a new order such as `[a, b, a]` is
  accepted, since only the set of its ids is compared (`listing_service.py:649`); it leaves the
  orders 1 and 2, and the next upload takes 2 again. The screen sends each image once; the
  next new order without a repetition, or a deletion, makes the orders whole.
* `NoBrokenImage` with `files` alone: the sweep removes the file of an upload that commits
  after it read the keys (`image_tasks.py:21`). With object storage nothing removes orphans.
* `OneJobOneDownloadUnlessRaced`, `ExportsSettle`, `ReadyHasArchive` with
  `archives` alone: two requests both insert a job, or are both
  served by one link (`account_service.py` tests the link and marks it used later); a worker that dies leaves a job in
  `processing` for good, or an archive nobody names; the image sweep takes local archives.
* `ReopensUnlessDismissed`: the merge clears `read_at` in memory, which writes nothing if it
  was loaded as null, so a message that arrives while its recipient marks the notification
  read leaves it read (`notification_service.py:353`).
* `CountsUnlessRaced`: overlapping sends lose a count, and a send that loaded the counter
  before an opening brings back what the opening cleared (`message_service.py:163`).
* `SilentUnlessLate`: a block between the test and the commit of a send leaves a message and
  a notification behind it (`message_service.py:138`).
* Openings reset the counter and then show one page, the oldest first: in a conversation
  longer than a page the newest messages are counted as come to and are not shown
  (`missed`; `message_service.py:70-91`). A send whose notification is retired under it
  fails with `StaleDataError` and loses its message (`CommitFails`).
* `FixedUnlessStale`: two saves that share no image share no lock, and the later one may
  write a slug it tested before the first publication (`Posts.ts:16`).
* `ErasedUnlessLifted`, `ClosedUnlessLifted`: a verification link or the end of a suspension makes an account with a scheduled
  closure active (`auth_service.py:114`, `moderation_service.py:175`); the worker erases it
  all the same. `PasswordsUnlessRaced`: a login that read the old password outlives the reset.
* `OneBuyerUnlessRaced`: two sales that both loaded a public row tell two buyers; a
  sold listing that was archived can be renewed and sold again
  (`feature_service.py:286`). Archiving a sold listing also takes away
  the buyer's right to review (`reviews.py`).
* `PeriodsAddUpUnlessRaced`: overlapping approvals lose paid days, as do two homepage orders
  that overlap by design (the property is about listings and shops only); the
  clearing task clears a period that was extended after it read it (`listing_tasks.py:44`).
* `DecisionsStandUnlessRaced`: two signals open two cases; a bulk action that fails midway leaves a
  listing decided and its case open (`moderation_case_service.py:206`); a case taken while it was decided
  is open again (`:172`).
* `VerifiedUnlessRaced`: parallel wrong codes count once; a number saved while its predecessor's
  code is confirmed is verified. Confirming a code resets the profile form with what was not saved; an SMS is sent
  before its challenge is committed.
* `ButtonsTellUnlessOvertaken`: increments of `favorite_count` from stale values are lost
  (`listing_service.py:452`; tasks/003-favorites.md:26 says the count does not diverge); cards are rendered as not
  saved whoever looks (`listing_service.py:880`).
* `AcceptedUnlessDropped`: a chip or a related category removes what a conditional attribute depends on;
  the server answers 422, the page shows no results and says that no filter was removed
  (`BrowseContent.tsx:350`; tasks/043-dynamic-filter-ui.md:20 and :28).
* `ReachableUnlessOverlapped`: a first page that arrives during "load more" leaves a gap in the list
  (`NotificationCenter.tsx:80`).
* `ShowsStoredUnlessCrossed`: once the cover is deleted the screen has none until it is mounted again, though it
  says that the first photograph is the cover until another is chosen (`ListingImageManager.tsx:169`).
  `SavesTheEditedUnlessCrossed`: picking another landing while a save is under way
  makes the next save go to the wrong one (`SeoLandingManager.tsx:125`).
* The Turnstile script is loaded once: if that failed, no later widget is ever rendered
  (`TurnstileChallenge.tsx:49`); `FormsLetIn` assumes a script that settles well.

## 7. What is proved

All for every value of the constants: any number of listings, tabs, sessions, requests, images,
messages or mails, and any limits. The assumptions are named in the modules, and TLC evaluates
them too: lifetimes and limits are natural numbers, ids are ordered where the code sorts them,
a null value is none of the real ones (`CallsAssumption`, `SomeRequests`), finitely many editors
and images exist at one time (`ArticlesAssumption`, `ImagesAssumption`).

Two shapes recur. A theorem without a history (`Spec => ...`) speaks of all interleavings. A
theorem about `MCSpec` and a property called `...Unless...` speaks of every behaviour until the
named history becomes true; its invariant has a part that holds always and a part, usually
"what a session read is still so", that holds until then, and the heart of its proof is that
the steps which may break the second part are those that set the history.

* **`ListingLifecycle_proofs`.** `Safety`: `Spec => [](TypeOK /\ PublishedExpires /\
  ManualReview /\ StaleIsBehind)`, from which `ReviewedBeforePublic`, and `DraftsStayPublished`:
  `Spec => NeverDraftAgain`. The
  first two speak of the table only and are not inductive: a session that read a row long
  ago may commit at any time. `StaleIsBehind` says what a copy may lack relative to the
  table (a copy with an expiry date means the row has one, and so on); with two facts about
  which sessions hold what (`DraftsUnapproved`, `WritersReadRows`) it is inductive (`IInv`).
  `Lawful` says what a handler may do to its copy, one lemma per
  group of handlers; a lemma about `Merge` says that a lawful change of a copy that is
  behind, merged into the row, keeps the invariant.
  `ReservationsEnd` and `HistoryKept` hold until sessions race. Their invariant `Calm` says that
  at most one session is in the middle of an operation, that what it read is still so, and
  that whatever is off the site keeps no reservation; a fresh session then saves exactly what
  its handler assigned.
* **`ListingDrafts_proofs`.** `TypeCorrect` and `OneListing` (`Spec => []OneListingPerClient`)
  for any lost answers and late calls: a create that finds a row of its client id makes none.
  `NothingUnseen`, `SavedIsTrue` and `PublishedIsSubmitted` (`MCSpec => NoUnseenOverwrite`,
  `[]SavedUnlessBlind`, `SubmittedUnlessJoined`) share one invariant, `Kept`: every version that a
  form, a request under way, an answer under way or a call given up carries is not ahead of
  the table, and if it is still the current one its content is among those the form has held
  (and, for a publication, among those submitted); a form that says it is saved carries the
  version of its values; a tab without an id has no row unless the answer that names it is on
  its way (`BirthKept`). They assume `"create" \notin Unreliable`: without it `BirthKept` fails, and so do the
  properties (§6, and the run `false_saved`).
  `NeverQuiet` (`MCSpec => []NeverStuckUnlessSilenced`) needs no such assumption: each way a save can end leaves a
  timer, a new save or a reason on the screen (`Alert`, one lemma per way), and only a refresh
  takes the timer away (`Silences`).
* **`DataExports_proofs`.** `LinksWork`: `Spec => [](TypeOK /\ ReadyHasArchive)`. The worker
  makes a link of what it stored a step before (`WorkerOwns`: nobody else touches a job in
  `processing`), and a request removes the archive of a link it read longer ago
  (`RequestsFollow`: by then the link is used or expired and cannot become ready again).
  `OneAtATime`: until requests overlap, one job per cooldown (`AskedAlone`: who is about to insert
  still finds no young job) and one download per link (`ServedIsSettled`: what was served never
  becomes ready again).
* **`BlogArticles_proofs`.** `ImagesAreKept`: `Spec => [](TypeOK /\ ReferencedImagesExist)`,
  also when versions are pruned. The invariant adds that locks are exclusive and on rows that
  exist, that a transaction past its test holds all its locks, and that nothing refers to
  an image whose deletion passed its test. `NoDeadlock`: what a transaction holds comes before
  what it still wants (`Ordered`), so along a wait the id that is waited for grows, and of finitely
  many transactions the one waiting for the highest id waits for none of them.
  `SlugsFreeze`: until a save is overtaken, the row a save tested is the row it commits over.
* **`Messaging_proofs`.** `NothingHidden`: `Spec => [](TypeOK /\ NoneHidden)`. That a commit
  cannot leave a badge at 0 is easy; that its badge is a count at all needs that what a
  session loaded never exceeds what is stored (`RowsFit`, `SessionsFit`) and that its own
  message is new and nobody else's (`MessagesAreOwned`). `BlocksSilence` holds until a send
  overlaps a block, whatever else overlaps; it needs that a reader never brings a deleted
  notification back (`MarkedExist`). `MessageReopens`: the commit writes `read_at` unless it
  loaded it as null. `BadgesCount`: until requests overlap, what a session loaded is the counter
  as it is (`Counted`), and a message is for one side only (`Stored`).
* **`EmailOutbox_proofs`.** `OnceForSure`: `MCSpec => []OnceUnlessDoubted`, and the refinement
  without its liveness, `KeepsPromiseSafely`: `MCSpec => Promise!Init /\
  [][Promise!Next]_(Promise!vars)`. While a batch is under way the rows say "pending" of mails that
  have been delivered, so the invariant is about the worker's copy: rows of a batch stay open,
  a copy says "sent" only of a delivered mail (`CopiesTell`), and a mail that was delivered for
  sure is settled in its row or in its copy (`DeliveredIsSettled`). A commit settles several
  mails at once; the promise allows that, and each of them was delivered before.
* **`Accounts_proofs`.** `TypeCorrect`; `VanishedIsOut`: `MCSpec => VanishedIsRevoked`, also after
  races, because the page hears of a revocation only after its commit (`Informed`) and waits
  for its own call (`Attended`), and no session is opened twice (`Orderly`). `OldPasswordsOut`,
  `OnlyHiddenErased` and `ClosureHides` hold until two requests race (the latter two also until the
  account is made active in its grace period): what a request read is what the rows say
  (`Fresh`), sessions have the current password (`Valid`), a closure in its grace period means a
  hidden account (`Hidden`). `Effect` says per kind of request what a commit may do to the rows,
  one lemma per handler.

* **`Screens_proofs`, the galleries.** `ImagesHaveFiles`: `Spec => [](TypeOK /\ KeysAreOwned /\
  NoBrokenImage)`. `NoBrokenImage` needs `KeysAreOwned`: what a request is about to unlink
  has no row and belongs to no other upload, what it is about to insert has its file.
  `GalleryKept`: until a request is overtaken, one cover, no image over the limit, and orders
  without a gap unless a new order that repeats a name left one (`OrderKept`), from the counting of ranks in a finite set
  and from `Room`: a request that has stored a file had found room for it.
* **`Screens_proofs`, the screens.** One theorem per property of `screens_safety`,
  `ScreensSpec => []...`, for any number of tabs, calls, orders, cases, challenges, users, landings
  and photographs, any limits, and without the bounds of `Explored`. What MCScreens fixes stays fixed:
  the catalogue of MCBrowse, the three notifications. `ScreensAssumption`: the names the
  code gives to nothing and to its own pages are no tabs, numbers or orders; `Days`,
  `MaxAttempts` and `MaxConcurrent` are natural numbers. Since `part` never changes, an invariant for
  each part is enough: `XxInv`, with `Xx` the part's instance in MCScreens, and the lemmas
  `XxInit`, `XxNext`, `XxRests` (a step of no variable) and `XxSays` (the property follows). The
  invariants of the parts with a history are a disjunction, "it has happened, or ...Holds";
  what each needs beside its property:
  - `BrowseIsAccepted` (`BrForm`): an open form offers an attribute that depends on another only while
    it sends that one with it, and nothing once a category was chosen, so a submission never
    uses what its address does not offer.
  - `SuggestionsAreFresh` (`SbInv`): the latest request is for the text in the box; an answer that is not
    the latest's changes nothing.
  - `NotificationsAreReachable` (`IbCall`): for a first page under way, that its rows and its cursor
    reach whatever has not moved; for a further one, the rows already in the list together
    with its own. A merged notification moves to the front and leaves the order of the others
    (`IbLater`).
  - `OneBuyerOnly` (`SaInTime`, `SaOneSale`): a request holds the row as it is; a listing with a buyer is
    off sale, and without a buyer nobody was told.
  - `ButtonsTellTruth` (`CoFresh`, `CoTells`): what a handler loaded has not changed since, and a call that
    is done has made the mark what its button asked for.
  - `PeriodsDoAddUp` (`PrTested`, `PrInTurn`): a handler that read the rows saw no other request waiting, and
    an approval starts where the last period ends, or now if that is over.
  - `DecisionsDoStand` (`MoOneOpen`, `MoDecided`, `MoDowned`): a signal that found no case is the only one
    about its listing; a case whose listing was moved and that is still open is one some handler is
    about to commit.
  - `VerifiedNumberIsProved` (`PhTested`, `PhCounted`): the attempts of a challenge are the wrong codes
    tried, and a confirmation that loaded its challenge found one left.
  - `EditorsDoShowTheirs`: of the three editors the photographs are the long proof. While no calls
    cross, one of four things is so (`GaHolds`): the screen rests, files are sent, a photograph is
    stored that the screen does not show yet (`GaAdds`: adding it gives the stored gallery), or one
    call is under way (`GaCalling`: what the screen will show once it is answered). `Sorted`, `Cut`
    and `Swapped` are shown to keep a list of different photographs in order. The landing form:
    a call under way was sent from the landing still being edited (`SeInPlace`). The card: a
    panel waits for one request, of its own text (`ScWaits`), and each place taken is a
    subprocess (`ScPlaces`), by counting.

`PublishedExpires`, `StaleIsBehind`, `KeysAreOwned` and the type invariants are proved and no run
checks them by themselves.

Only model-checked: liveness (`ExpiredIsArchived`, `EditsSettleUnlessSilenced`, `OrphansGo`,
`ExportsSettle`, `FormsLetIn`, and the fairness half of `KeepsPromise`), which needs ENABLED and
fairness that the prover does not handle. Every invariant of a passing run and every action property is a
theorem. The counterexamples of the two runs that expect a violation are TLC's.

## 8. What is not modelled

Later: the digests of follows and saved searches with their watermarks, the mail about unread
messages, the risk retention task, the form of a shop.

Left out for good: image processing, encryption, signatures and rendering (data, no
protocol); search, facets and SEO queries (they read); analytics (append-only, read by no
decision); view counts and rate limits (which counter is used depends on the deployment, and
nothing else decides on one); article previews (signed links over reads that are not
cached); migrations and deployment scripts (one-off, around external tools). Inside the
modelled parts: the text of listings and
articles (a form's content is a number, an article is its references and slug), audit
entries, notifications (but those of messages) and e-mails a handler also queues, message
counts of a listing, follows ended by a block, risk and rate limits that only refuse, the `isPublic` flag of an image,
slug collisions between two articles, authors; the
desktop instance of the filter form (the drawer's, mounted anew each time it opens, is modelled), filters no
other filter depends on, the budget of social cards of all editors together.
