------------------------------- MODULE Gallery ------------------------------
(* The screen of a listing's photographs over its stored gallery, which    *)
(* ListingImages models in detail: here each of its handlers is one step.  *)
(* The screen keeps its own list; the page's refresh does not replace it.  *)
EXTENDS Naturals, Sequences, FiniteSets, Functions

CONSTANTS
    Photos,
    Calls,
    MaxImages,
    MaxFiles    \* bound on the files chosen at once

VARIABLES
    stored,   \* the gallery: ids in order
    cover,    \* the id with is_cover, or "none"
    shown,    \* what the screen shows: [id, order, cover] by order
    upload,   \* the batch under way: [left, next, step, got]
    call      \* call -> [op, id, was, ids, step, got] or None

vars == <<stored, cover, shown, upload, call>>

None == [step |-> "none", op |-> "none"]
Idle == [left |-> 0, next |-> <<>>, step |-> "idle", got |-> <<>>]
Ids(s) == {s[i].id : i \in DOMAIN s}
At(i) == [id |-> stored[i], order |-> i - 1, cover |-> stored[i] = cover]
Rows == [i \in DOMAIN stored |-> At(i)]
Least(a, b) == IF a < b THEN a ELSE b
(* The rows are kept by order: x goes behind those of its own.             *)
Sorted(s, x) ==
    LET n == Cardinality({i \in DOMAIN s : s[i].order <= x.order}) IN
    [i \in 1 .. Len(s) + 1 |-> IF i <= n THEN s[i] ELSE IF i = n + 1 THEN x ELSE s[i - 1]]
Cut(s, i) == [j \in 1 .. Len(s) - 1 |-> IF j < i THEN s[j] ELSE s[j + 1]]

(* The files of a batch are sent one after the other, each answer is added *)
(* to what was shown when the batch began.                                 *)
UploadImages ==
    /\ upload = Idle
    /\ \E n \in 1 .. MaxFiles :
          /\ Len(shown) < MaxImages
          /\ upload' = [left |-> Least(n, MaxImages - Len(shown)), next |-> shown,
                        step |-> "sent", got |-> <<>>]
    /\ UNCHANGED <<stored, cover, shown, call>>
AddImage ==
    /\ upload.step = "sent" /\ Len(stored) < MaxImages
    /\ \E p \in Photos \ Range(stored) :
          /\ p \notin Ids(shown) \cup Ids(upload.next)
          /\ stored' = Append(stored, p)
          /\ cover' = IF stored = <<>> THEN p ELSE cover
          /\ upload' = [upload EXCEPT !.step = "added",
                 !.got = <<[id |-> p, order |-> Len(stored), cover |-> stored = <<>>]>>]
    /\ UNCHANGED <<shown, call>>
NextFile(next) ==
    upload' = IF upload.left = 1 THEN Idle
              ELSE [left |-> upload.left - 1, next |-> next, step |-> "sent", got |-> <<>>]
Uploaded ==
    /\ upload.step = "added"
    /\ LET next == Sorted(upload.next, upload.got[1]) IN shown' = next /\ NextFile(next)
    /\ UNCHANGED <<stored, cover, call>>
UploadFails ==
    /\ upload.step \in {"sent", "added"} /\ NextFile(upload.next)
    /\ UNCHANGED <<stored, cover, shown, call>>

-----------------------------------------------------------------------------
(* The buttons of the photographs, disabled while files are sent; they do  *)
(* not wait for one another.                                               *)
Send(op, id, ids) ==
    \E k \in Calls :
       /\ call[k] = None
       /\ call' = [call EXCEPT ![k] =
              [op |-> op, id |-> id, was |-> shown, ids |-> ids, step |-> "sent", got |-> <<>>]]
Swapped(i, j) == [n \in DOMAIN shown |->
    [(CASE n = i -> shown[j] [] n = j -> shown[i] [] OTHER -> shown[n]) EXCEPT !.order = n - 1]]

DeleteButton ==
    /\ upload = Idle /\ \E p \in Ids(shown) : Send("delete", p, <<>>)
    /\ UNCHANGED <<stored, cover, shown, upload>>
CoverButton ==
    /\ upload = Idle
    /\ \E i \in DOMAIN shown : ~shown[i].cover /\ Send("cover", shown[i].id, <<>>)
    /\ UNCHANGED <<stored, cover, shown, upload>>
MoveImage ==
    /\ upload = Idle
    /\ \E i, j \in DOMAIN shown :
          /\ j \in {i + 1} \/ i \in {j + 1}
          /\ shown' = Swapped(i, j)
          /\ Send("move", shown[i].id, [n \in DOMAIN shown |-> Swapped(i, j)[n].id])
    /\ UNCHANGED <<stored, cover, upload>>

(* CreateListingForm.tsx:399: the answer of an autosave brings images too. *)
Autosave ==
    /\ \A k \in Calls : call[k].op # "save"
    /\ Send("save", "none", <<>>) /\ UNCHANGED <<stored, cover, shown, upload>>

Handled(k, got) == call' = [call EXCEPT ![k].step = "done", ![k].got = got]
Handler(k, op) ==
    /\ call[k].step = "sent" /\ call[k].op = op /\ UNCHANGED <<shown, upload>>
DeleteImage(k) ==
    /\ Handler(k, "delete") /\ call[k].id \in Range(stored)
    /\ stored' = Cut(stored, CHOOSE i \in DOMAIN stored : stored[i] = call[k].id)
    /\ cover' = IF cover # call[k].id THEN cover ELSE IF stored' = <<>> THEN "none" ELSE stored'[1]
    /\ Handled(k, <<>>)
SetCover(k) ==
    /\ Handler(k, "cover") /\ call[k].id \in Range(stored)
    /\ cover' = call[k].id /\ Handled(k, <<>>) /\ UNCHANGED stored
ReorderImages(k) ==
    /\ Handler(k, "move") /\ Range(call[k].ids) = Range(stored)
    /\ stored' = call[k].ids
    /\ Handled(k, [i \in DOMAIN call[k].ids |->
           [id |-> call[k].ids[i], order |-> i - 1, cover |-> call[k].ids[i] = cover]])
    /\ UNCHANGED cover
SaveDraft(k) == Handler(k, "save") /\ Handled(k, Rows) /\ UNCHANGED <<stored, cover>>

(* What the answer does to the screen, from what it showed at the click.   *)
X_Answered(c) ==   \* mutant
    CASE c.op = "delete" -> c.was
      [] c.op = "cover" -> [i \in DOMAIN c.was |-> [c.was[i] EXCEPT !.cover = (c.was[i].id = c.id)]]
      [] OTHER -> c.got
Answered(c) ==
    CASE c.op = "delete" -> Cut(c.was, CHOOSE i \in DOMAIN c.was : c.was[i].id = c.id)
      [] c.op = "cover" -> [i \in DOMAIN c.was |-> [c.was[i] EXCEPT !.cover = (c.was[i].id = c.id)]]
      [] OTHER -> c.got
Answer(k) ==
    /\ call[k].step = "done"
    /\ shown' = Answered(call[k]) /\ call' = [call EXCEPT ![k] = None]
    /\ UNCHANGED <<stored, cover, upload>>
Fails(k) ==
    /\ call[k] # None /\ call' = [call EXCEPT ![k] = None]
    /\ UNCHANGED <<stored, cover, shown, upload>>

Init ==
    /\ stored = <<>> /\ cover = "none" /\ shown = <<>>
    /\ upload = Idle /\ call = [k \in Calls |-> None]

Next ==
    \/ UploadImages \/ AddImage \/ Uploaded \/ UploadFails
    \/ DeleteButton \/ CoverButton \/ MoveImage \/ Autosave
    \/ \E k \in Calls :
          DeleteImage(k) \/ SetCover(k) \/ ReorderImages(k) \/ SaveDraft(k) \/ Answer(k) \/ Fails(k)

Spec == Init /\ [][Next]_vars

-----------------------------------------------------------------------------
(* Histories for the property below: two of the screen's calls were under  *)
(* way at once (crossed), one failed after the screen or the server had    *)
(* acted (failed), and a photograph was deleted since the screen last took *)
(* over the order of the server (deleted).                                 *)
VARIABLES crossed, failed, deleted

Busy(u, c) == Cardinality({k \in Calls : c[k] # None}) + (IF u = Idle THEN 0 ELSE 1)
Ended(k) == call[k] # None /\ call'[k] = None
Failing == \/ \E k \in Calls : /\ Ended(k)
                               /\ IF call[k].step = "sent" THEN call[k].op = "move"
                                  ELSE shown' # Answered(call[k])
           \/ upload.step = "added" /\ shown' = shown
TakenOver == \E k \in Calls : /\ Ended(k) /\ call[k].op \in {"move", "save"}
                              /\ call[k].step = "done" /\ shown' = call[k].got

MCInit == Init /\ crossed = FALSE /\ failed = FALSE /\ deleted = FALSE
MCNext ==
    /\ Next
    /\ crossed' = (crossed \/ Busy(upload', call') > 1)
    /\ failed' = (failed \/ Failing)
    /\ deleted' = (~TakenOver /\ (deleted \/ Len(stored') < Len(stored)))

Explored == ~crossed /\ ~failed

(* At rest the screen shows the photographs that are stored, and until one *)
(* is deleted their order and their cover too                              *)
(* (ListingImageManager.tsx:61-159), unless calls crossed or failed.       *)
ShowsStoredUnlessCrossed ==
    \/ crossed \/ failed \/ Busy(upload, call) > 0
    \/ Ids(shown) = Range(stored) /\ (~deleted => shown = Rows)
=============================================================================
