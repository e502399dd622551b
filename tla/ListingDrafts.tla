--------------------------- MODULE ListingDrafts ---------------------------
(***************************************************************************)
(* Autosave of listing drafts: the creation form (CreateListingForm.tsx)   *)
(* in several tabs or devices of one seller, the network, and the draft    *)
(* operations of the server.                                               *)
(*                                                                         *)
(* A tab has at most one save, one load and one publish call under way.    *)
(* The server runs a call at one instant: it reads the row under FOR       *)
(* UPDATE and compares its version.  The client may be told of a failure   *)
(* although the server ran the call, and a call the client gave up may     *)
(* still be run later (late).                                              *)
(*                                                                         *)
(* The content of a form is a number: 0 is the blank form, and every edit  *)
(* makes a content never seen before.                                      *)
(***************************************************************************)
EXTENDS Naturals

CONSTANTS
    Tabs,           \* mounts of the form, each with its own client_draft_id
    Ids,            \* ids for rows of listings
    Unreliable,     \* operations whose reply can be lost
    TypeAhead,      \* may the seller type while a stored draft is loading?
    MaxActs,        \* bound: what the seller does, all tabs together
    NoTab, NoId, NoCall, NoReply

Ops == {"create", "update", "load", "publish"}

ASSUME DraftsAssumption ==
    /\ Unreliable \subseteq Ops /\ TypeAhead \in BOOLEAN /\ MaxActs \in Nat
    /\ NoTab \notin Tabs /\ NoId \notin Ids

VARIABLES
    row,            \* the listings table
    form,           \* what each tab holds in its refs and state
    call,           \* the calls each tab waits for
    late,           \* calls given up by their tab that the server may still run
    acts            \* number of things the seller has done

vars == <<row, form, call, late, acts>>

-----------------------------------------------------------------------------
Row == [status  : {"none", "draft", "published", "gone"},
        client  : Tabs \cup {NoTab},                \* draft_client_id
        version : Nat,                              \* draft_version
        content : Nat,
        by      : Tabs \cup {NoTab}]                \* history: who stored last

Form == [page      : {"unopened", "open", "left"},
         online    : BOOLEAN,
         values    : Nat,
         shown     : SUBSET Nat,                    \* history: earlier values
         id        : Ids \cup {NoId},               \* draftIdRef
         version   : Nat,                           \* draftVersionRef
         unsaved   : BOOLEAN,                       \* unsavedRef
         state     : {"idle", "saving", "saved", "offline", "conflict", "error"},
         timer     : BOOLEAN,                       \* autosaveTimerRef is set
         pending   : BOOLEAN,                       \* pendingSaveRef
         submit    : {"no", "own", "joined", "publishing"},
         submitted : SUBSET Nat]                    \* history: values at submissions

Reply == [result : {"ok", "conflict", "failed"},
          id : Ids \cup {NoId}, version : Nat, content : Nat]

Request == [op : Ops, id : Ids \cup {NoId}, version : Nat, content : Nat]
Call    == [req : Request, reply : Reply \cup {NoReply}]
Slots   == {"save", "load", "publish"}

ASSUME CallsAssumption == NoCall \notin Call /\ NoReply \notin Reply

Init ==
    /\ row  = [i \in Ids |-> [status |-> "none", client |-> NoTab,
                              version |-> 0, content |-> 0, by |-> NoTab]]
    /\ form = [t \in Tabs |->
                 [page |-> "unopened", online |-> TRUE, values |-> 0,
                  shown |-> {0}, id |-> NoId, version |-> 0, unsaved |-> FALSE,
                  state |-> "idle", timer |-> FALSE, pending |-> FALSE,
                  submit |-> "no", submitted |-> {}]]
    /\ call = [t \in Tabs |-> [slot \in Slots |-> NoCall]]
    /\ late = {}
    /\ acts = 0

-----------------------------------------------------------------------------
(* The server.  Each operation gives the table it leaves and its reply to  *)
(* request r of tab t.                                                     *)

Failed    == [result |-> "failed", id |-> NoId, version |-> 0, content |-> 0]
Conflict  == [Failed EXCEPT !.result = "conflict"]
Ok(i, r)  == [result |-> "ok", id |-> i, version |-> r.version,
              content |-> r.content]
Keep(rep) == [rows |-> row, reply |-> rep]
Store(i, r) == [rows |-> [row EXCEPT ![i] = r], reply |-> Ok(i, r)]

(* Idempotent by client id: an existing draft is returned as it stands,    *)
(* the content of the request is not looked at.                            *)
CreateDraft_DraftsOnly(r, t) ==          \* mutant: only drafts are looked for
    LET mine == {i \in Ids : row[i].client = t /\ row[i].status = "draft"}
        free == {i \in Ids : row[i].status = "none"}
    IN  IF mine # {} THEN LET i == CHOOSE j \in mine : TRUE
                          IN  Keep(Ok(i, row[i]))
        ELSE IF free = {} THEN Keep(Failed)
        ELSE Store(CHOOSE i \in free : TRUE,
                   [status |-> "draft", client |-> t, version |-> 1,
                    content |-> r.content, by |-> t])

CreateDraft(r, t) ==
    LET mine == {i \in Ids : row[i].client = t /\ row[i].status # "gone"}
        free == {i \in Ids : row[i].status = "none"}
    IN  IF mine # {} THEN
            LET i == CHOOSE j \in mine : TRUE
            IN  Keep(IF row[i].status = "draft" THEN Ok(i, row[i]) ELSE Failed)
        ELSE IF free = {} THEN Keep(Failed)
        ELSE Store(CHOOSE i \in free : TRUE,
                   [status |-> "draft", client |-> t, version |-> 1,
                    content |-> r.content, by |-> t])

UpdateDraft_AnyVersion(r, t) ==          \* mutant: the version is not compared
    IF row[r.id].status # "draft" THEN Keep(Failed)
    ELSE Store(r.id, [row[r.id] EXCEPT !.version = @ + 1,
                                       !.content = r.content, !.by = t])

UpdateDraft(r, t) ==
    IF row[r.id].status # "draft" THEN Keep(Failed)
    ELSE IF row[r.id].version # r.version THEN Keep(Conflict)
    ELSE Store(r.id, [row[r.id] EXCEPT !.version = @ + 1,
                                       !.content = r.content, !.by = t])

PublishDraft_AnyVersion(r, t) ==         \* mutant: the version is not compared
    IF row[r.id].status # "draft" THEN Keep(Failed)
    ELSE Store(r.id, [row[r.id] EXCEPT !.status = "published",
                                       !.version = @ + 1, !.by = t])

PublishDraft(r, t) ==
    IF row[r.id].status # "draft" THEN Keep(Failed)
    ELSE IF row[r.id].version # r.version THEN Keep(Conflict)
    ELSE Store(r.id, [row[r.id] EXCEPT !.status = "published",
                                       !.version = @ + 1, !.by = t])

(* GET /listings/{id}/edit; the client ignores a row that is no draft.     *)
LoadForEdit(r) == Keep(IF row[r.id].status = "draft" THEN Ok(r.id, row[r.id])
                                                     ELSE Failed)

Run(r, t) == CASE r.op = "create"  -> CreateDraft(r, t)
               [] r.op = "update"  -> UpdateDraft(r, t)
               [] r.op = "publish" -> PublishDraft(r, t)
               [] r.op = "load"    -> LoadForEdit(r)

Serve(t, slot) ==
    /\ call[t][slot] # NoCall /\ call[t][slot].reply = NoReply
    /\ LET out == Run(call[t][slot].req, t) IN
       /\ row'  = out.rows
       /\ call' = [call EXCEPT ![t][slot].reply = out.reply]
    /\ UNCHANGED <<form, late, acts>>

ServeLate(m) ==
    /\ m \in late
    /\ late' = late \ {m}
    /\ row'  = Run(m.req, m.tab).rows
    /\ UNCHANGED <<form, call, acts>>

-----------------------------------------------------------------------------
(* The client.  New(op, f) is the call the tab makes with its values f.    *)

New(op, f) == [req   |-> [op |-> op, id |-> f.id, version |-> f.version,
                          content |-> f.values],
               reply |-> NoReply]

IsOpen(t)  == form[t].page = "open"
Saving(t)  == call[t]["save"] # NoCall
Loading(t) == call[t]["load"] # NoCall

Act == acts < MaxActs /\ acts' = acts + 1

(* The early returns and the call of persistDraft, from form f: nothing to *)
(* save, no network, a save already under way (it will be repeated), or a  *)
(* new save.                                                               *)
PersistDraft(t, f, force) ==
    LET g == [f EXCEPT !.timer = FALSE]
        Update(h, c) == /\ form' = [form EXCEPT ![t] = h]
                        /\ call' = [call EXCEPT ![t]["save"] = c]
        now == call[t]["save"]
    IN
    /\ UNCHANGED <<row, late>>
    /\ CASE ~force /\ ~f.unsaved -> Update([f EXCEPT !.timer = FALSE], now)
         [] OTHER ->
            CASE ~f.online -> Update([g EXCEPT !.state = "offline",
                                               !.unsaved = TRUE], now)
              [] f.online /\ Saving(t) -> Update([g EXCEPT !.pending = TRUE], now)
              [] f.online /\ ~Saving(t) ->
                    Update([g EXCEPT !.state = "saving"],
                           New(IF f.id = NoId THEN "create" ELSE "update", f))

(* The form is mounted blank, with the draft the page was rendered with,   *)
(* or blank while the draft named in the address or the storage loads.     *)
Open(t) ==
    /\ form[t].page = "unopened"
    /\ \/ /\ form' = [form EXCEPT ![t].page = "open"]
          /\ UNCHANGED call
       \/ \E i \in Ids :
            /\ row[i].status = "draft"
            /\ form' = [form EXCEPT ![t].page = "open", ![t].id = i,
                                    ![t].version = row[i].version,
                                    ![t].values = row[i].content,
                                    ![t].shown = @ \cup {row[i].content},
                                    ![t].state = "saved"]
            /\ UNCHANGED call
       \/ \E i \in Ids :
            /\ row[i].status # "none"
            /\ form' = [form EXCEPT ![t].page = "open"]
            /\ call' = [call EXCEPT ![t]["load"] =
                                        New("load", [form[t] EXCEPT !.id = i])]
    /\ UNCHANGED <<row, late, acts>>

(* The seller fills in a field, whichever it is.                           *)
Typed(f) == [f EXCEPT !.values = acts + 1, !.shown = @ \cup {acts + 1}]

(* The change handler does not see what is typed while a draft is loading. *)
Edit(t) ==
    LET f == Typed(form[t])
    IN
    /\ IsOpen(t) /\ Act
    /\ Loading(t) => TypeAhead
    /\ form' = [form EXCEPT ![t] =
          CASE Loading(t)               -> f
            [] ~Loading(t) /\ ~f.online -> [f EXCEPT !.unsaved = TRUE,
                                                     !.state = "offline"]
            [] ~Loading(t) /\ f.online  -> [f EXCEPT !.unsaved = TRUE,
                                                     !.timer = TRUE]]
    /\ UNCHANGED <<row, call, late>>

TimerFires(t) ==
    /\ IsOpen(t) /\ form[t].timer
    /\ PersistDraft(t, form[t], FALSE)
    /\ UNCHANGED acts

(* The save button, the retry button, and the upload of an image while     *)
(* there is no draft yet.                                                  *)
SaveNow(t) ==
    /\ IsOpen(t) /\ Act
    /\ form[t].state # "saving" \/ form[t].id = NoId
    /\ PersistDraft(t, form[t], TRUE)

Submit(t) ==
    /\ IsOpen(t) /\ form[t].submit = "no" /\ Act
    /\ PersistDraft(t, [form[t] EXCEPT
                          !.submitted = @ \cup {form[t].values},
                          !.submit = CASE ~form[t].online -> "no"
                                       [] form[t].online /\ Saving(t) -> "joined"
                                       [] form[t].online /\ ~Saving(t) -> "own"],
                    TRUE)

(* Offered in the conflict state only: take the server's version.          *)
Reload(t) ==
    /\ IsOpen(t) /\ form[t].state = "conflict" /\ ~Loading(t) /\ Act
    /\ form[t].id # NoId
    /\ call' = [call EXCEPT ![t]["load"] = New("load", form[t])]
    /\ UNCHANGED <<row, form, late>>

(* An image was uploaded, deleted, moved or made the cover: the page is    *)
(* rendered again with new categories, and the form's effects run again.   *)
(* The cleanup of the change handler drops the timer, and none is started  *)
(* for it.  Unless the page brings the draft itself or none is named, the  *)
(* draft the address or the storage names is loaded once more.  The client *)
(* id is renewed too: no call of a form that has its draft's id sends it.  *)
Refresh(t) ==
    /\ IsOpen(t) /\ form[t].id # NoId /\ Act
    /\ form' = [form EXCEPT ![t].timer = FALSE]
    /\ \/ UNCHANGED call
       \/ \E i \in Ids :
            /\ ~Loading(t) /\ row[i].status # "none"
            /\ call' = [call EXCEPT ![t]["load"] =
                                        New("load", [form[t] EXCEPT !.id = i])]
    /\ UNCHANGED <<row, late>>

GoOffline(t) ==
    /\ IsOpen(t) /\ form[t].online /\ Act
    /\ form' = [form EXCEPT ![t].online = FALSE,
                            ![t].state = IF form[t].unsaved THEN "offline" ELSE @]
    /\ UNCHANGED <<row, call, late>>

GoOnline(t) ==
    /\ IsOpen(t) /\ ~form[t].online /\ Act
    /\ PersistDraft(t, [form[t] EXCEPT !.online = TRUE], form[t].unsaved)

(* The seller deletes a draft in the list of own listings, where its card  *)
(* stands until the server has answered.                                   *)
DeleteDraft(i) == row' = [row EXCEPT ![i].status = "gone"]

Delete(i) ==
    /\ row[i].status = "draft" /\ Act
    /\ DeleteDraft(i)
    /\ UNCHANGED <<form, call, late>>

-----------------------------------------------------------------------------
(* What the tab does with the reply rep of a call.                         *)

Orphans(t) == {[tab |-> t, req |-> call[t][slot].req] :
                  slot \in {s \in Slots : /\ call[t][s] # NoCall
                                          /\ call[t][s].reply = NoReply}}

(* Form and calls after the save: the outcome, the finally block that      *)
(* turns a pending save into a short timer, and the submission that waited.*)
NotSaved(f, rep) ==
    [f EXCEPT !.unsaved = TRUE,
              !.state   = CASE rep.result = "conflict" -> "conflict"
                            [] rep.result = "failed" /\ f.online -> "error"
                            [] rep.result = "failed" /\ ~f.online -> "offline"]

Outcome_NoCompare(f, rep, snapshot) ==   \* mutant: later edits are not compared
    IF rep.result # "ok" THEN NotSaved(f, rep)
    ELSE [f EXCEPT !.id = rep.id, !.version = rep.version,
                   !.unsaved = FALSE, !.state = "saved"]

Outcome(f, rep, snapshot) ==
    LET g == [f EXCEPT !.id = rep.id, !.version = rep.version]
    IN  CASE rep.result # "ok" -> NotSaved(f, rep)
          [] rep.result = "ok" /\ f.values = snapshot /\ ~f.pending ->
                [g EXCEPT !.unsaved = FALSE, !.state = "saved"]
          [] OTHER -> [g EXCEPT !.unsaved = TRUE, !.pending = TRUE]

Repeat_Forgets(f) ==                     \* mutant: the flag is reset, no timer
    [f EXCEPT !.pending = FALSE]

Repeat(f) == IF f.pending THEN [f EXCEPT !.pending = FALSE, !.timer = TRUE] ELSE f

SaveSettles(t, rep) ==
    LET h    == Repeat(Outcome(form[t], rep, call[t]["save"].req.content))
        goes == \/ h.submit = "own" /\ rep.result = "ok"
                \/ h.submit = "joined" /\ h.id # NoId
    IN
    /\ form' = [form EXCEPT ![t] =
                  CASE goes -> [h EXCEPT !.submit = "publishing"]
                    [] ~goes /\ h.submit \in {"own", "joined"} -> [h EXCEPT !.submit = "no"]
                    [] OTHER -> h]
    /\ call' = [call EXCEPT ![t]["save"] = NoCall,
                            ![t]["publish"] = IF goes THEN New("publish", h) ELSE @]

LoadSettles(t, rep) ==
    /\ form' = [form EXCEPT ![t] =
          CASE rep.result = "ok" ->
                  [form[t] EXCEPT !.id = rep.id, !.version = rep.version,
                                  !.values = rep.content,
                                  !.shown = @ \cup {rep.content},
                                  !.unsaved = FALSE, !.state = "saved"]
            [] rep.result # "ok" /\ call[t]["load"].reply # NoReply -> form[t]
            [] OTHER -> [form[t] EXCEPT !.state = "error"]]
    /\ call' = [call EXCEPT ![t]["load"] = NoCall]

(* After a successful publication the tab leaves for the listing's page.   *)
PublishSettles(t, rep) ==
    /\ IF rep.result = "ok"
       THEN /\ form' = [form EXCEPT ![t].page = "left", ![t].unsaved = FALSE,
                                    ![t].timer = FALSE, ![t].submit = "no"]
            /\ call' = [call EXCEPT ![t] = [slot \in Slots |-> NoCall]]
       ELSE /\ form' = [form EXCEPT ![t].submit = "no"]
            /\ call' = [call EXCEPT ![t]["publish"] = NoCall]

Settles(t, slot, rep) ==
    /\ CASE slot = "save"    -> SaveSettles(t, rep)
         [] slot = "load"    -> LoadSettles(t, rep)
         [] slot = "publish" -> PublishSettles(t, rep)
    /\ UNCHANGED <<row, acts>>

Deliver(t, slot) ==
    /\ IsOpen(t) /\ call[t][slot] # NoCall /\ call[t][slot].reply # NoReply
    /\ Settles(t, slot, call[t][slot].reply)
    /\ late' = IF slot = "publish" /\ form'[t].page = "left"
               THEN late \cup Orphans(t) ELSE late

(* The call fails for the tab: refused (the session has expired, a rate    *)
(* limit, validation) or cut off before or after the server ran it.        *)
CallFails(t, slot) ==
    LET c == call[t][slot] IN
    /\ IsOpen(t) /\ c # NoCall
    /\ c.reply # NoReply => c.req.op \in Unreliable
    /\ Settles(t, slot, Failed)
    /\ \/ late' = late
       \/ /\ c.reply = NoReply /\ c.req.op \in Unreliable
          /\ late' = late \cup {[tab |-> t, req |-> c.req]}

(* The seller leaves; the server may still run the calls under way.        *)
Leave(t) ==
    /\ IsOpen(t)
    /\ form' = [form EXCEPT ![t].page = "left", ![t].timer = FALSE,
                            ![t].submit = "no"]
    /\ call' = [call EXCEPT ![t] = [slot \in Slots |-> NoCall]]
    /\ late' = late \cup Orphans(t)
    /\ UNCHANGED <<row, acts>>

-----------------------------------------------------------------------------
Seller(t) == \/ Open(t) \/ Edit(t) \/ SaveNow(t) \/ Submit(t) \/ Reload(t)
             \/ Refresh(t) \/ GoOffline(t) \/ GoOnline(t) \/ Leave(t)

Next == \/ \E t \in Tabs :
             \/ Seller(t) \/ TimerFires(t)
             \/ \E slot \in Slots : \/ Serve(t, slot) \/ Deliver(t, slot)
                                    \/ CallFails(t, slot)
        \/ \E m \in late : ServeLate(m)
        \/ \E i \in Ids : Delete(i)

Spec == Init /\ [][Next]_vars

(* Timers fire, and a call that is under way is run and comes back.        *)
Fairness ==
    \A t \in Tabs :
        /\ WF_vars(TimerFires(t))
        /\ \A slot \in Slots : /\ WF_vars(Serve(t, slot))
                               /\ WF_vars(Deliver(t, slot) \/ CallFails(t, slot))

FairSpec == Spec /\ Fairness

-----------------------------------------------------------------------------
(* Rows, forms and calls hold the values the code can give them.           *)
TypeOK ==
    /\ row  \in [Ids -> Row]
    /\ form \in [Tabs -> Form]
    /\ call \in [Tabs -> [Slots -> Call \cup {NoCall}]]
    /\ late \subseteq [tab : Tabs, req : Request]
    /\ acts \in 0..MaxActs

(* docs/listing-drafts.md: a stale version is refused "instead of silently *)
(* overwriting a newer device or tab".  Whoever stores or publishes a      *)
(* draft has had the content it replaces in its own form.                  *)
NoUnseenOverwrite ==
    [][\A i \in Ids : row[i].status = "draft" /\ row[i].version' # row[i].version
                         => row[i].content \in form[row'[i].by].shown]_vars

(* tasks/050: a failed save "does not falsely display Sačuvano".  A form   *)
(* that shows no unsaved edits and is at the server's version shows what   *)
(* the server holds.                                                       *)
ShowsStored(t) ==
    LET f == form[t] IN
    /\ IsOpen(t) /\ ~f.unsaved /\ f.id # NoId
    /\ row[f.id].status = "draft" /\ row[f.id].version = f.version
    => row[f.id].content = f.values

SavedIsStored == \A t \in Tabs : ShowsStored(t)

(* An open form with edits that nothing is about to send and that says     *)
(* nothing of it.                                                          *)
Quiet(t) ==
    /\ IsOpen(t) /\ form[t].unsaved /\ ~form[t].timer /\ ~Saving(t)
    /\ form[t].state \notin {"offline", "conflict", "error"}

(* docs/listing-drafts.md: "A published draft keeps its client id so a     *)
(* delayed create retry cannot create a second listing".                   *)
OneListingPerClient ==
    \A i, j \in Ids :
        /\ row[i].status \in {"draft", "published"}
        /\ row[j].status \in {"draft", "published"}
        /\ row[i].client = row[j].client
        => i = j

(* What is published is what a form held when the seller submitted it.     *)
PublishesSubmitted(i) ==
    row[i].status = "draft" /\ row[i].status' = "published"
        => row[i].content \in form[row'[i].by].submitted
=============================================================================
