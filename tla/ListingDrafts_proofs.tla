------------------------ MODULE ListingDrafts_proofs ------------------------
(***************************************************************************)
(* For any number of tabs, rows and failures: a form never has two         *)
(* listings.  And while the answer of a creation is not lost: no tab       *)
(* overwrites what its form has never held, a form that says it is saved   *)
(* shows what is stored, and what is published is what was submitted.      *)
(***************************************************************************)
EXTENDS MCListingDrafts, TLAPS

(* The calls of a tab: each slot has its operations, and only a creation   *)
(* may lack the id of a row.                                               *)
Fits(slot, op) == \/ slot = "save" /\ op \in {"create", "update"}
                  \/ slot = "load" /\ op = "load"
                  \/ slot = "publish" /\ op = "publish"

Addressed(req) == req.op # "create" => req.id \in Ids

Answered(c) == c.reply # NoReply /\ c.reply.result = "ok"

CallOK(slot, c) == /\ Fits(slot, c.req.op) /\ Addressed(c.req)
                   /\ Answered(c) => c.reply.id \in Ids

CallsOK(calls) == \A slot \in Slots : calls[slot] # NoCall => CallOK(slot, calls[slot])

Calls == [Slots -> Call \cup {NoCall}]

Base == /\ TypeOK /\ OneListingPerClient
        /\ \A t \in Tabs : CallsOK(call[t])
        /\ \A m \in late : Addressed(m.req)

-----------------------------------------------------------------------------
(* Version v of row i is not ahead of the table, and what it stands for,   *)
(* if it is the current draft, is in S.                                    *)
Holds(i, v, S) ==
    /\ v <= row[i].version
    /\ row[i].status = "draft" /\ row[i].version = v => row[i].content \in S

Born(t) == \E i \in Ids : row[i].client = t

(* What a request of tab t, whose form is f, may do to a row: the contents *)
(* it can replace are among those the form has held, those it can publish  *)
(* among those that were submitted.                                        *)
RequestKept(t, f, req, waited) ==
    /\ req.op \in {"create", "update"} => req.content \in f.shown
    /\ req.op \in {"update", "publish"} => Holds(req.id, req.version, f.shown)
    /\ req.op = "publish" /\ t \notin waited => Holds(req.id, req.version, f.submitted)

ReplyKept(slot, c) ==
    Answered(c) => /\ Holds(c.reply.id, c.reply.version, {c.reply.content})
                   /\ slot = "save" => c.reply.content = c.req.content

(* The form: its version is of something it has held, and of its values if *)
(* it says that they are saved; a submission stands for its save.          *)
FormKept(t, f, calls, unseen, waited) ==
    /\ f.values \in f.shown
    /\ f.page = "unopened" => f.id = NoId
    /\ f.id # NoId => Holds(f.id, f.version, f.shown)
    /\ t \notin unseen /\ f.page = "open" /\ ~f.unsaved /\ f.id # NoId
           => Holds(f.id, f.version, {f.values})
    /\ f.submit = "own" => /\ calls["save"] # NoCall
                           /\ calls["save"].req.content \in f.submitted
    /\ f.submit = "joined" => t \in waited

(* A tab without an id has no row, unless the answer that names it is on   *)
(* its way.                                                                *)
BirthKept(t, f, calls) ==
    LET save == calls["save"] IN
    /\ Born(t) => \/ f.page = "left"
                  \/ f.page = "open" /\ f.id # NoId
                  \/ save # NoCall /\ save.req.op = "create" /\ Answered(save)
    /\ save # NoCall /\ save.req.op = "create" /\ save.reply = NoReply => ~Born(t)

TabKept(t, f, calls, unseen, waited) ==
    /\ \A slot \in Slots : calls[slot] # NoCall =>
           /\ f.page = "open"
           /\ RequestKept(t, f, calls[slot].req, waited)
           /\ ReplyKept(slot, calls[slot])
    /\ FormKept(t, f, calls, unseen, waited)
    /\ BirthKept(t, f, calls)

LateKept(m) == /\ RequestKept(m.tab, form[m.tab], m.req, joined)
               /\ m.req.op = "create" => form[m.tab].page = "left"

Kept == /\ \A t \in Tabs : TabKept(t, form[t], call[t], blind, joined)
        /\ \A m \in late : LateKept(m)
        /\ \A i \in Ids : row[i].status = "none" => row[i].version = 0

-----------------------------------------------------------------------------
(* What the server makes of a request: it keeps the table, or stores one   *)
(* row of a later version and answers with it.  NoneOf: no row that is not *)
(* deleted belongs to tab t.                                               *)
NoneOf(t) == \A i \in Ids : row[i].client = t => row[i].status = "gone"

Changes(rows, i) == rows \in [Ids -> Row] /\ \A j \in Ids \ {i} : rows[j] = row[j]

Stored(x, status, version, content, client, by) ==
    /\ x.status = status /\ x.version = version /\ x.content = content
    /\ x.client = client /\ x.by = by

Answers(rep, i, version, content) ==
    rep.result = "ok" /\ rep.id = i /\ rep.version = version /\ rep.content = content

Creates(out, req, t) ==
    \E i \in Ids :
        /\ row[i].status = "none" /\ NoneOf(t)
        /\ Changes(out.rows, i)
        /\ Stored(out.rows[i], "draft", 1, req.content, t, t)
        /\ Answers(out.reply, i, 1, req.content)

Finds(out, t) ==
    \E i \in Ids : /\ row[i].client = t /\ row[i].status = "draft"
                   /\ out.rows = row
                   /\ out.reply.result = "ok" /\ out.reply.id = i

Writes(out, req, t, status, content) ==
    /\ row[req.id].status = "draft" /\ row[req.id].version = req.version
    /\ Changes(out.rows, req.id)
    /\ Stored(out.rows[req.id], status, req.version + 1, content, row[req.id].client, t)
    /\ Answers(out.reply, req.id, req.version + 1, content)

Reads(out, req) ==
    /\ out.rows = row /\ row[req.id].status = "draft"
    /\ Answers(out.reply, req.id, row[req.id].version, row[req.id].content)

Refuses(out) == out.rows = row /\ out.reply.result # "ok"

LEMMA NextVersion ==
    ASSUME NEW r \in Row, NEW content \in Nat, NEW t \in Tabs
    PROVE  /\ [r EXCEPT !.version = @ + 1, !.content = content, !.by = t] \in Row
           /\ [r EXCEPT !.status = "published", !.version = @ + 1, !.by = t] \in Row
  <1>1. /\ r.version + 1 \in Nat /\ t \in Tabs \cup {NoTab}
        /\ "published" \in {"none", "draft", "published", "gone"}
    BY DEF Row
  <1>2. [r EXCEPT !.version = @ + 1, !.content = content, !.by = t] \in Row
    BY <1>1 DEF Row
  <1>3. [r EXCEPT !.status = "published", !.version = @ + 1, !.by = t] \in Row
    BY <1>1 DEF Row
  <1> QED
    BY <1>2, <1>3

(* The outcomes of each operation.                                         *)
LEMMA Served ==
    ASSUME TypeOK, NEW t \in Tabs, NEW req \in Request, Addressed(req)
    PROVE  LET out == Run(req, t) IN
           /\ out.reply \in Reply
           /\ \/ Refuses(out)
              \/ req.op = "create"  /\ (Creates(out, req, t) \/ Finds(out, t))
              \/ req.op = "update"  /\ Writes(out, req, t, "draft", req.content)
              \/ req.op = "publish" /\ Writes(out, req, t, "published", row[req.id].content)
              \/ req.op = "load"    /\ Reads(out, req)
  <1> DEFINE out == Run(req, t)
  <1>0. /\ row \in [Ids -> Row] /\ req.op \in Ops
        /\ req.content \in Nat /\ req.version \in Nat
        /\ req.op # "create" => row[req.id] \in Row
    BY DEF TypeOK, Request, Addressed
  <1>1. Failed \in Reply /\ Conflict \in Reply
        /\ Failed.result # "ok" /\ Conflict.result # "ok"
    BY DEF Failed, Conflict, Reply
  <1>2. \A i \in Ids, r \in Row : /\ Ok(i, r) \in Reply
                                  /\ Ok(i, r).result = "ok" /\ Ok(i, r).id = i
                                  /\ Ok(i, r).version = r.version
                                  /\ Ok(i, r).content = r.content
    BY DEF Ok, Row, Reply
  <1>3. \A rep : Keep(rep).rows = row /\ Keep(rep).reply = rep
    BY DEF Keep
  <1>4. ASSUME NEW i \in Ids, NEW x \in Row
        PROVE  /\ Changes(Store(i, x).rows, i) /\ Store(i, x).rows[i] = x
               /\ Answers(Store(i, x).reply, i, x.version, x.content)
               /\ Store(i, x).reply \in Reply
    <2>1. Store(i, x).rows = [row EXCEPT ![i] = x] /\ Store(i, x).reply = Ok(i, x)
      BY DEF Store
    <2> QED
      BY <1>0, <1>2, <2>1 DEF Changes, Answers
  <1>5. CASE req.op = "create"
    <2> DEFINE mine == {i \in Ids : row[i].client = t /\ row[i].status # "gone"}
               free == {i \in Ids : row[i].status = "none"}
               x == [status |-> "draft", client |-> t, version |-> 1,
                     content |-> req.content, by |-> t]
    <2>0. out = CreateDraft(req, t)
      BY <1>5 DEF Run
    <2>1. CASE mine # {}
      <3> DEFINE i == CHOOSE j \in mine : TRUE
      <3>1. i \in Ids /\ row[i].client = t /\ row[i].status # "gone"
        BY <2>1
      <3>2. out = Keep(IF row[i].status = "draft" THEN Ok(i, row[i]) ELSE Failed)
        BY <2>0, <2>1 DEF CreateDraft
      <3> HIDE DEF i
      <3>3. CASE row[i].status = "draft"
        <4>1. out.rows = row /\ out.reply = Ok(i, row[i]) /\ row[i] \in Row
          BY <1>0, <1>3, <3>1, <3>2, <3>3
        <4> QED
          BY <1>2, <1>5, <3>1, <3>3, <4>1 DEF Finds
      <3>4. CASE row[i].status # "draft"
        BY <1>1, <1>3, <3>2, <3>4 DEF Refuses
      <3> QED
        BY <3>3, <3>4
    <2>2. CASE mine = {} /\ free = {}
      BY <1>1, <1>3, <2>0, <2>2 DEF CreateDraft, Refuses
    <2>3. CASE mine = {} /\ free # {}
      <3> DEFINE i == CHOOSE j \in free : TRUE
      <3>1. i \in Ids /\ row[i].status = "none"
        BY <2>3
      <3>2. out = Store(i, x)
        BY <2>0, <2>3 DEF CreateDraft
      <3> HIDE DEF i
      <3>3. x \in Row /\ Stored(x, "draft", 1, req.content, t, t)
        BY <1>0 DEF Row, Stored
      <3>4. NoneOf(t)
        BY <2>3 DEF NoneOf
      <3> HIDE DEF x, out
      <3>5. /\ Changes(out.rows, i) /\ Stored(out.rows[i], "draft", 1, req.content, t, t)
            /\ Answers(out.reply, i, 1, req.content) /\ out.reply \in Reply
        BY <1>4, <3>1, <3>2, <3>3 DEF Stored
      <3>6. Creates(out, req, t)
        BY <3>1, <3>4, <3>5 DEF Creates
      <3> QED
        BY <1>5, <3>5, <3>6 DEF out
    <2> QED
      BY <2>1, <2>2, <2>3
  <1>6. ASSUME req.id \in Ids, NEW status, NEW content, NEW x \in Row,
               Stored(x, status, row[req.id].version + 1, content, row[req.id].client, t),
               out = IF row[req.id].status # "draft" THEN Keep(Failed)
                     ELSE IF row[req.id].version # req.version THEN Keep(Conflict)
                     ELSE Store(req.id, x)
        PROVE  out.reply \in Reply /\ (Refuses(out) \/ Writes(out, req, t, status, content))
    <2> HIDE DEF out
    <2>2. CASE row[req.id].status # "draft" \/ row[req.id].version # req.version
      BY <1>1, <1>3, <1>6, <2>2 DEF Refuses
    <2>3. CASE row[req.id].status = "draft" /\ row[req.id].version = req.version
      BY <1>4, <1>6, <2>3 DEF Writes, Stored
    <2> QED
      BY <2>2, <2>3
  <1>7. CASE req.op = "update"
    <2>0. row[req.id] \in Row /\ req.id \in Ids
      BY <1>0, <1>7 DEF Addressed
    <2> DEFINE x == [row[req.id] EXCEPT !.version = @ + 1, !.content = req.content, !.by = t]
               status == row[req.id].status
    <2>1. x \in Row
      BY <1>0, <2>0, NextVersion
    <2>2. Stored(x, status, row[req.id].version + 1, req.content, row[req.id].client, t)
      BY <2>0 DEF Row, Stored
    <2>3. out = UpdateDraft(req, t)
      BY <1>7 DEF Run
    <2>4. out = IF row[req.id].status # "draft" THEN Keep(Failed)
                ELSE IF row[req.id].version # req.version THEN Keep(Conflict)
                ELSE Store(req.id, x)
      BY <2>3 DEF UpdateDraft
    <2> HIDE DEF out, x
    <2>5. out.reply \in Reply /\ (Refuses(out) \/ Writes(out, req, t, status, req.content))
      BY <1>6, <2>0, <2>1, <2>2, <2>4
    <2> QED
      BY <1>7, <2>5 DEF out, Writes
  <1>8. CASE req.op = "publish"
    <2>0. row[req.id] \in Row /\ req.id \in Ids
      BY <1>0, <1>8 DEF Addressed
    <2> DEFINE x == [row[req.id] EXCEPT !.status = "published", !.version = @ + 1, !.by = t]
    <2>1. x \in Row
      BY <1>0, <2>0, NextVersion
    <2>2. Stored(x, "published", row[req.id].version + 1, row[req.id].content,
                 row[req.id].client, t)
      BY <2>0 DEF Row, Stored
    <2>3. out = PublishDraft(req, t)
      BY <1>8 DEF Run
    <2>4. out = IF row[req.id].status # "draft" THEN Keep(Failed)
                ELSE IF row[req.id].version # req.version THEN Keep(Conflict)
                ELSE Store(req.id, x)
      BY <2>3 DEF PublishDraft
    <2> HIDE DEF out, x
    <2>5. /\ out.reply \in Reply
          /\ Refuses(out) \/ Writes(out, req, t, "published", row[req.id].content)
      BY <1>6, <2>0, <2>1, <2>2, <2>4
    <2> QED
      BY <1>8, <2>5 DEF out
  <1>9. CASE req.op = "load"
    <2>0. row[req.id] \in Row /\ req.id \in Ids
      BY <1>0, <1>9 DEF Addressed
    <2>1. out = Keep(IF row[req.id].status = "draft" THEN Ok(req.id, row[req.id]) ELSE Failed)
      BY <1>9 DEF Run, LoadForEdit
    <2> HIDE DEF out
    <2>2. CASE row[req.id].status = "draft"
      <3>1. out.rows = row /\ out.reply = Ok(req.id, row[req.id])
        BY <1>3, <2>1, <2>2
      <3>2. Reads(out, req) /\ out.reply \in Reply
        BY <1>2, <2>0, <2>2, <3>1 DEF Reads, Answers
      <3> QED
        BY <1>9, <3>2 DEF out
    <2>3. CASE row[req.id].status # "draft"
      <3>1. Refuses(out) /\ out.reply \in Reply
        BY <1>1, <1>3, <2>1, <2>3 DEF Refuses
      <3> QED
        BY <3>1 DEF out
    <2> QED
      BY <2>2, <2>3
  <1> QED
    BY <1>0, <1>5, <1>7, <1>8, <1>9 DEF Ops

-----------------------------------------------------------------------------
(* A step of one tab t gives it the form g and the calls d; the server     *)
(* may still run requests that it gave up.                                 *)
TabTakes(t, g, d) ==
    /\ form' = [form EXCEPT ![t] = g] /\ call' = [call EXCEPT ![t] = d]
    /\ row' = row /\ acts' \in 0..MaxActs
    /\ late' \subseteq [tab : Tabs, req : Request]
    /\ \A m \in late' \ late : m.tab = t /\ Addressed(m.req)

LEMMA TabBase ==
    ASSUME Base, NEW t \in Tabs, NEW g \in Form, NEW d \in Calls,
           TabTakes(t, g, d), CallsOK(d)
    PROVE  Base'
  <1>1. TypeOK'
    BY DEF Base, TypeOK, TabTakes, Calls
  <1>2. OneListingPerClient'
    BY DEF Base, TabTakes, OneListingPerClient
  <1>3. \A u \in Tabs : CallsOK(call'[u])
    BY DEF Base, TypeOK, TabTakes
  <1>4. \A m \in late' : Addressed(m.req)
    BY DEF Base, TabTakes
  <1> QED
    BY <1>1, <1>2, <1>3, <1>4 DEF Base, CallsOK, CallOK, Addressed, Answered, Fits

(* What a request may do, it may do to a form that has held more.          *)
LEMMA RequestStays ==
    ASSUME NEW t, NEW f, NEW g, NEW req, NEW waited, NEW later,
           RequestKept(t, f, req, waited),
           f.shown \subseteq g.shown, f.submitted \subseteq g.submitted,
           waited \subseteq later
    PROVE  RequestKept(t, g, req, later)
  BY DEF RequestKept, Holds

LEMMA TabStays ==
    ASSUME NEW t, NEW f, NEW calls, NEW unseen, NEW waited, NEW unseen2, NEW waited2,
           TabKept(t, f, calls, unseen, waited),
           unseen \subseteq unseen2, waited \subseteq waited2
    PROVE  TabKept(t, f, calls, unseen2, waited2)
  <1>1. FormKept(t, f, calls, unseen2, waited2)
    BY DEF TabKept, FormKept
  <1>2. \A slot \in Slots : calls[slot] # NoCall =>
            RequestKept(t, f, calls[slot].req, waited2)
    BY RequestStays DEF TabKept
  <1> QED
    BY <1>1, <1>2 DEF TabKept

(* The histories only grow.                                                *)
Remembers == /\ blind \subseteq blind' /\ joined \subseteq joined'
             /\ \A t \in Tabs : form'[t].submit = "joined" => t \in joined'
             /\ \A t \in Tabs : Loading(t) /\ Loading(t)' /\ form'[t].values # form[t].values
                                   => t \in blind'

LateJoins(t, g) ==
    \A m \in late' \ late : /\ RequestKept(t, g, m.req, joined')
                            /\ m.req.op = "create" => g.page = "left"

LEMMA SameRows ==
    ASSUME row' = row, NEW t, NEW f, NEW calls, NEW unseen, NEW waited, NEW req
    PROVE  /\ RequestKept(t, f, req, waited) => RequestKept(t, f, req, waited)'
           /\ TabKept(t, f, calls, unseen, waited) => TabKept(t, f, calls, unseen, waited)'
  <1>1. RequestKept(t, f, req, waited) => RequestKept(t, f, req, waited)'
    BY DEF RequestKept, Holds
  <1>2. FormKept(t, f, calls, unseen, waited) => FormKept(t, f, calls, unseen, waited)'
    BY DEF FormKept, Holds
  <1>3. BirthKept(t, f, calls) => BirthKept(t, f, calls)'
    BY DEF BirthKept, Born, Answered
  <1>4. \A slot : /\ ReplyKept(slot, calls[slot]) => ReplyKept(slot, calls[slot])'
                  /\ RequestKept(t, f, calls[slot].req, waited)
                         => RequestKept(t, f, calls[slot].req, waited)'
    BY DEF ReplyKept, RequestKept, Answered, Holds
  <1> QED
    BY <1>1, <1>2, <1>3, <1>4 DEF TabKept

LEMMA TabKeeps ==
    ASSUME Base, Kept, NEW t \in Tabs, NEW g \in Form, NEW d \in Calls,
           TabTakes(t, g, d), Remembers, LateJoins(t, g),
           form[t].shown \subseteq g.shown, form[t].submitted \subseteq g.submitted,
           form[t].page = "left" => g.page = "left",
           TabKept(t, g, d, blind', joined')
    PROVE  Kept'
  <1>0. /\ row' = row /\ form'[t] = g /\ call'[t] = d
        /\ \A u \in Tabs \ {t} : form'[u] = form[u] /\ call'[u] = call[u]
        /\ \A m \in late : m.tab \in Tabs
    BY DEF TabTakes, Base, TypeOK
  <1>1. \A u \in Tabs \ {t} : TabKept(u, form[u], call[u], blind', joined')
    BY TabStays DEF Kept, Remembers
  <1>2. \A u \in Tabs : TabKept(u, form'[u], call'[u], blind', joined')
    BY <1>0, <1>1
  <1>3. \A m \in late' : /\ RequestKept(m.tab, form'[m.tab], m.req, joined')
                         /\ m.req.op = "create" => form'[m.tab].page = "left"
    <2> TAKE m \in late'
    <2>1. CASE m \in late /\ m.tab = t
      BY <1>0, <2>1, RequestStays DEF Kept, LateKept, Remembers
    <2>2. CASE m \in late /\ m.tab # t
      <3>1. form'[m.tab] = form[m.tab]
        BY <1>0, <2>2
      <3> QED
        BY <2>2, <3>1, RequestStays DEF Kept, LateKept, Remembers
    <2>3. CASE m \notin late
      BY <1>0, <2>3 DEF LateJoins, TabTakes
    <2> QED
      BY <2>1, <2>2, <2>3
  <1>4. ASSUME NEW u \in Tabs PROVE TabKept(u, form[u], call[u], blind, joined)'
    <2> PICK f, c, b, j : f = form'[u] /\ c = call'[u] /\ b = blind' /\ j = joined'
      OBVIOUS
    <2>1. TabKept(u, f, c, b, j)
      BY <1>2
    <2>2. TabKept(u, f, c, b, j)'
      BY <1>0, <2>1, SameRows
    <2> QED
      BY <2>2, ZenonT(60)
         DEF TabKept, RequestKept, ReplyKept, FormKept, BirthKept, Holds, Born, Answered
  <1>5. ASSUME NEW m \in late' PROVE LateKept(m)'
    <2> PICK f, j : f = form'[m.tab] /\ j = joined'
      OBVIOUS
    <2>1. RequestKept(m.tab, f, m.req, j)
      BY <1>3
    <2>2. RequestKept(m.tab, f, m.req, j)'
      BY <1>0, <2>1, SameRows
    <2> QED
      BY <1>3, <2>2 DEF LateKept, RequestKept, Holds
  <1> QED
    BY <1>0, <1>4, <1>5 DEF Kept

-----------------------------------------------------------------------------
(* A step of the table: a row keeps its version only with its content.     *)
Grows ==
    /\ row' \in [Ids -> Row]
    /\ \A i \in Ids :
        /\ row[i].version <= row'[i].version
        /\ row'[i].status = "draft" =>
              \/ row[i].version < row'[i].version
              \/ row[i].status = "draft" /\ row'[i].content = row[i].content
        /\ row'[i].status = "none" => row'[i].version = 0

LEMMA HeldStays ==
    ASSUME TypeOK, Grows, NEW i \in Ids, NEW v \in Nat, NEW S, Holds(i, v, S)
    PROVE  Holds(i, v, S)'
  <1>1. row[i].version \in Nat /\ row'[i].version \in Nat
    BY DEF TypeOK, Grows, Row
  <1> QED
    BY <1>1 DEF Holds, Grows

LEMMA RequestLasts ==
    ASSUME TypeOK, Grows, NEW t, NEW f, NEW req \in Request, NEW waited, NEW later,
           Addressed(req), RequestKept(t, f, req, waited), waited \subseteq later
    PROVE  RequestKept(t, f, req, later)'
  <1>1. req.version \in Nat
    BY DEF Request
  <1>2. req.op \in {"update", "publish"} => req.id \in Ids
    BY DEF Addressed
  <1> QED
    BY <1>1, <1>2, HeldStays DEF RequestKept

(* The forms stay as they are, the answers are new.                        *)
LEMMA ServerBase ==
    ASSUME Base, row' \in [Ids -> Row], OneListingPerClient', form' = form,
           acts' \in 0..MaxActs, call' \in [Tabs -> Calls],
           \A t \in Tabs : CallsOK(call'[t]), late' \subseteq late
    PROVE  Base'
  <1>1. TypeOK'
    BY DEF Base, TypeOK, Calls
  <1>2. \A m \in late' : Addressed(m.req)
    BY DEF Base
  <1> QED
    BY <1>1, <1>2 DEF Base, CallsOK, CallOK, Addressed, Answered, Fits

LEMMA ServerKeeps ==
    ASSUME Base, Kept, Grows, form' = form, late' \subseteq late, Remembers,
           \A t \in Tabs, slot \in Slots : call'[t][slot] # NoCall =>
               call[t][slot] # NoCall /\ call'[t][slot].req = call[t][slot].req,
           \A t \in Tabs, slot \in Slots : call[t][slot] # NoCall => call'[t][slot] # NoCall,
           \A t \in Tabs, slot \in Slots :
               call'[t][slot] # NoCall => ReplyKept(slot, call[t][slot])',
           \A t \in Tabs : BirthKept(t, form[t], call[t])'
    PROVE  Kept'
  <1>1. TypeOK /\ \A t \in Tabs : form[t] \in Form
    BY DEF Base, TypeOK
  <1>2. ASSUME NEW t \in Tabs, NEW slot \in Slots, call'[t][slot] # NoCall
        PROVE  RequestKept(t, form[t], call[t][slot].req, joined)'
    <2> PICK f \in Form : f = form[t] BY <1>1
    <2>1. call[t][slot] # NoCall /\ call[t][slot] \in Call /\ Addressed(call[t][slot].req)
      BY <1>1, <1>2 DEF Base, CallsOK, CallOK, TypeOK
    <2> PICK req \in Request : req = call[t][slot].req
      BY <2>1 DEF Call
    <2> PICK later : later = joined' OBVIOUS
    <2>2. RequestKept(t, f, req, joined)
      BY <2>1 DEF Kept, TabKept
    <2>3. RequestKept(t, f, req, later)'
      BY <1>1, <2>1, <2>2, RequestLasts DEF Remembers
    <2> QED
      BY <1>2, <2>3 DEF RequestKept, Holds
  <1>3. ASSUME NEW t \in Tabs
        PROVE  FormKept(t, form[t], call[t], blind, joined)'
    <2> PICK f \in Form : f = form[t] BY <1>1
    <2> PICK unseen : unseen = blind' OBVIOUS
    <2> PICK later : later = joined' OBVIOUS
    <2>0. f.version \in Nat /\ (f.id # NoId => f.id \in Ids)
      BY DEF Form
    <2>1. FormKept(t, f, call[t], blind, joined)
      BY DEF Kept, TabKept
    <2>2. f.id # NoId => Holds(f.id, f.version, f.shown)'
      BY <1>1, <2>0, <2>1, HeldStays DEF FormKept
    <2>3. t \notin unseen /\ f.page = "open" /\ ~f.unsaved /\ f.id # NoId
             => Holds(f.id, f.version, {f.values})'
      BY <1>1, <2>0, <2>1, HeldStays DEF FormKept, Remembers
    <2>4. f.submit = "own" => /\ call'[t]["save"] # NoCall
                              /\ call'[t]["save"].req.content \in f.submitted
      BY <2>1 DEF FormKept, Slots
    <2>5. f.submit = "joined" => t \in later
      BY DEF Remembers
    <2> QED
      BY <2>1, <2>2, <2>3, <2>4, <2>5 DEF FormKept, Holds
  <1>4. ASSUME NEW t \in Tabs
        PROVE  TabKept(t, form[t], call[t], blind, joined)'
    <2>1. \A slot \in Slots : call'[t][slot] # NoCall => form'[t].page = "open"
      BY DEF Kept, TabKept
    <2> QED
      BY <1>2, <1>3, <2>1 DEF TabKept
  <1>5. ASSUME NEW m \in late'
        PROVE  LateKept(m)'
    <2>1. m \in late /\ m.tab \in Tabs /\ m.req \in Request /\ Addressed(m.req)
      BY <1>1 DEF Base, TypeOK
    <2> PICK f \in Form : f = form[m.tab] BY <1>1, <2>1
    <2> PICK later : later = joined' OBVIOUS
    <2>2. RequestKept(m.tab, f, m.req, joined) /\ (m.req.op = "create" => f.page = "left")
      BY <2>1 DEF Kept, LateKept
    <2>3. RequestKept(m.tab, f, m.req, later)'
      BY <1>1, <2>1, <2>2, RequestLasts DEF Remembers
    <2> QED
      BY <2>2, <2>3 DEF LateKept, RequestKept, Holds
  <1>6. (\A i \in Ids : row[i].status = "none" => row[i].version = 0)'
    BY DEF Grows
  <1> QED
    BY <1>4, <1>5, <1>6 DEF Kept

(* What a request of tab t leaves: the table, and the answer rep.          *)
Blank == \A i \in Ids : row[i].status = "none" => row[i].version = 0

Effect(t, req, rep) ==
    /\ rep \in Reply /\ (rep.result = "ok" => rep.id \in Ids)
    /\ row' \in [Ids -> Row] /\ OneListingPerClient'
    /\ \A u : Born(u)' => Born(u) \/ (u = t /\ req.op = "create" /\ rep.result = "ok")
    /\ \A i \in Ids : row[i].status = "draft" /\ row'[i] # row[i] =>
           /\ req.op \in {"update", "publish"} /\ i = req.id
           /\ row[i].version = req.version /\ row'[i].by = t
           /\ row'[i].status = "published" => req.op = "publish"
    /\ Blank => Grows
    /\ rep.result = "ok" /\ (req.op = "create" => ~Born(t)) =>
           /\ Holds(rep.id, rep.version, {rep.content})'
           /\ req.op \in {"create", "update"} => rep.content = req.content

LEMMA Serving ==
    ASSUME Base, NEW t \in Tabs, NEW req \in Request, Addressed(req), NEW rep,
           row' = Run(req, t).rows, rep = Run(req, t).reply
    PROVE  Effect(t, req, rep)
  <1> DEFINE out == Run(req, t)
  <1>0. TypeOK /\ row \in [Ids -> Row] /\ OneListingPerClient
    BY DEF Base, TypeOK
  <1>1. rep \in Reply
    BY <1>0, Served
  <1>2. /\ req.version \in Nat /\ req.content \in Nat /\ req.op \in Ops
        /\ req.op # "create" => req.id \in Ids
    BY DEF Request, Addressed
  <1>3. ASSUME row' = row PROVE /\ row' \in [Ids -> Row] /\ OneListingPerClient'
                                /\ \A u : Born(u)' => Born(u)
                                /\ Blank => Grows
    <2>1. \A i \in Ids : row[i].version \in Nat
      BY <1>0 DEF Row
    <2> QED
      BY <1>0, <1>3, <2>1 DEF OneListingPerClient, Born, Blank, Grows
  <1>4. CASE Refuses(out)
    BY <1>1, <1>3, <1>4 DEF Refuses, Effect
  <1>5. CASE req.op = "create" /\ Finds(out, t)
    BY <1>1, <1>3, <1>5 DEF Finds, Effect, Born
  <1>6. CASE req.op = "load" /\ Reads(out, req)
    <2>1. Holds(rep.id, rep.version, {rep.content})'
      <3>1. row[req.id].version \in Nat
        BY <1>0, <1>2, <1>6 DEF Row
      <3> QED
        BY <1>6, <3>1 DEF Reads, Answers, Holds
    <2> QED
      BY <1>1, <1>2, <1>3, <1>6, <2>1 DEF Reads, Answers, Effect
  <1>7. CASE req.op = "create" /\ Creates(out, req, t)
    <2>1. PICK i \in Ids : /\ row[i].status = "none" /\ NoneOf(t)
                           /\ Changes(row', i)
                           /\ Stored(row'[i], "draft", 1, req.content, t, t)
                           /\ Answers(rep, i, 1, req.content)
      BY <1>7 DEF Creates
    <2>2. /\ row' \in [Ids -> Row] /\ \A j \in Ids \ {i} : row'[j] = row[j]
          /\ row'[i].status = "draft" /\ row'[i].client = t
          /\ row'[i].version = 1 /\ row'[i].content = req.content
          /\ rep.result = "ok" /\ rep.id = i /\ rep.version = 1 /\ rep.content = req.content
      BY <2>1 DEF Changes, Stored, Answers
    <2>3. OneListingPerClient'
      BY <1>0, <2>1, <2>2 DEF OneListingPerClient, NoneOf
    <2>4. \A u : Born(u)' => Born(u) \/ u = t
      BY <2>2 DEF Born
    <2>5. Blank => Grows
      <3>1. \A j \in Ids : row[j].version \in Nat
        BY <1>0 DEF Row
      <3> QED
        BY <2>1, <2>2, <3>1 DEF Blank, Grows
    <2>6. Holds(rep.id, rep.version, {rep.content})'
      BY <2>2 DEF Holds
    <2> QED
      BY <1>1, <1>7, <2>1, <2>2, <2>3, <2>4, <2>5, <2>6 DEF Effect
  <1>8. ASSUME NEW status \in {"draft", "published"}, NEW content,
               Writes(out, req, t, status, content),
               req.op \in {"update", "publish"},
               req.op = "update" => status = "draft" /\ content = req.content
        PROVE  Effect(t, req, rep)
    <2>0. /\ req.id \in Ids /\ row[req.id] \in Row /\ row[req.id].status = "draft"
          /\ row[req.id].version = req.version
      BY <1>0, <1>2, <1>8 DEF Writes
    <2>1. /\ row' \in [Ids -> Row] /\ \A j \in Ids \ {req.id} : row'[j] = row[j]
          /\ row'[req.id].status = status /\ row'[req.id].client = row[req.id].client
          /\ row'[req.id].version = req.version + 1 /\ row'[req.id].content = content
          /\ row'[req.id].by = t
          /\ rep.result = "ok" /\ rep.id = req.id /\ rep.version = req.version + 1
          /\ rep.content = content
      BY <1>8 DEF Writes, Changes, Stored, Answers
    <2>3. OneListingPerClient'
      <3>1. \A j \in Ids : /\ row'[j].client = row[j].client
                           /\ row'[j].status \in {"draft", "published"}
                                 => row[j].status \in {"draft", "published"}
        BY <2>0, <2>1
      <3> QED
        BY <1>0, <3>1 DEF OneListingPerClient
    <2>4. \A u : Born(u)' => Born(u)
      BY <2>0, <2>1 DEF Born
    <2>5. Blank => Grows
      <3>1. \A j \in Ids : row[j].version \in Nat
        BY <1>0 DEF Row
      <3> QED
        BY <1>2, <2>0, <2>1, <3>1 DEF Blank, Grows
    <2>6. Holds(rep.id, rep.version, {rep.content})'
      BY <1>2, <2>1 DEF Holds
    <2>7. req.op \in {"create", "update"} => rep.content = req.content
      BY <1>8, <2>1
    <2>8. \A i \in Ids : row[i].status = "draft" /\ row'[i] # row[i] =>
             /\ i = req.id /\ row[i].version = req.version /\ row'[i].by = t
             /\ row'[i].status = "published" => req.op = "publish"
      BY <1>8, <2>0, <2>1
    <2> QED
      BY <1>1, <1>8, <2>0, <2>1, <2>3, <2>4, <2>5, <2>6, <2>7, <2>8 DEF Effect
  <1>9. \/ Refuses(out)
        \/ req.op = "create"  /\ (Creates(out, req, t) \/ Finds(out, t))
        \/ req.op = "update"  /\ Writes(out, req, t, "draft", req.content)
        \/ req.op = "publish" /\ Writes(out, req, t, "published", row[req.id].content)
        \/ req.op = "load"    /\ Reads(out, req)
    BY <1>0, Served
  <1> HIDE DEF out
  <1>10. CASE req.op = "update" /\ Writes(out, req, t, "draft", req.content)
    BY <1>8, <1>10
  <1>11. CASE req.op = "publish" /\ Writes(out, req, t, "published", row[req.id].content)
    <2> PICK content : content = row[req.id].content OBVIOUS
    <2> QED
      BY <1>8, <1>11
  <1> QED
    BY <1>4, <1>5, <1>6, <1>7, <1>9, <1>10, <1>11

(* Who replaces a draft has had its content, who publishes it has          *)
(* submitted it or has joined a save.                                      *)
Minds ==
    \A i \in Ids :
        /\ row[i].status = "draft"
        /\ row'[i].version # row[i].version \/ row'[i].status = "published"
        =>
            /\ row[i].content \in form[row'[i].by].shown
            /\ row'[i].status = "published" /\ row'[i].by \notin joined
                   => row[i].content \in form[row'[i].by].submitted

LEMMA RequestMinds ==
    ASSUME NEW t \in Tabs, NEW req, NEW rep, Effect(t, req, rep),
           RequestKept(t, form[t], req, joined)
    PROVE  Minds
  BY DEF Effect, RequestKept, Holds, Minds

(* An answer that stays keeps what it says.                                *)
LEMMA ReplyLasts ==
    ASSUME Base, Kept, Grows, NEW u \in Tabs, NEW s \in Slots,
           call'[u][s] # NoCall, call'[u][s] = call[u][s]
    PROVE  ReplyKept(s, call[u][s])'
  <1>0. TypeOK
    BY DEF Base
  <1> PICK a : a = call[u][s] OBVIOUS
  <1>1. a # NoCall /\ a = call'[u][s]
    OBVIOUS
  <1>2. a \in Call /\ CallOK(s, a) /\ ReplyKept(s, a)
    BY <1>0, <1>1 DEF TypeOK, Base, CallsOK, Kept, TabKept
  <1>3. Answered(a) => a.reply \in Reply /\ a.reply.id \in Ids
    BY <1>2 DEF CallOK, Call, Answered
  <1>4. Answered(a) => a.reply.version \in Nat
    BY <1>3 DEF Reply
  <1> PICK i, v, n : i = a.reply.id /\ v = a.reply.version /\ n = a.reply.content
    OBVIOUS
  <1>5. Answered(a) => Holds(i, v, {n})'
    BY <1>0, <1>2, <1>3, <1>4, HeldStays DEF ReplyKept
  <1> QED
    BY <1>1, <1>2, <1>5 DEF ReplyKept, Answered, Holds

LEMMA ServeSteps ==
    ASSUME Base, NEW t \in Tabs, NEW slot \in Slots, Serve(t, slot)
    PROVE  Base' /\ (Kept /\ Remembers => Kept' /\ Minds)
  <1>0. TypeOK /\ call[t][slot] \in Call /\ CallOK(slot, call[t][slot])
        /\ call[t][slot] # NoCall
    BY DEF Base, TypeOK, CallsOK, Serve
  <1> PICK req \in Request : req = call[t][slot].req
    BY <1>0 DEF Call
  <1> PICK rep : rep = Run(req, t).reply OBVIOUS
  <1>1. Fits(slot, req.op) /\ Addressed(req) /\ call[t][slot].reply = NoReply
    BY <1>0 DEF CallOK, Serve
  <1>2. row' = Run(req, t).rows /\ form' = form /\ late' = late /\ acts' = acts
        /\ call' = [call EXCEPT ![t][slot].reply = rep]
    BY DEF Serve
  <1>3. Effect(t, req, rep)
    BY <1>1, <1>2, Serving
  <1> DEFINE c == [call[t][slot] EXCEPT !.reply = rep]
  <1>4. /\ c \in Call /\ c.req = req /\ c.reply = rep /\ c # NoCall
        /\ call' = [call EXCEPT ![t] = [call[t] EXCEPT ![slot] = c]]
    <2>1. rep \in Reply
      BY <1>3 DEF Effect
    <2>2. call \in [Tabs -> [Slots -> Call \cup {NoCall}]]
      BY <1>0 DEF TypeOK
    <2>3. c \in Call /\ c.req = req /\ c.reply = rep
      BY <1>0, <2>1 DEF Call
    <2> QED
      BY <1>2, <2>2, <2>3, CallsAssumption
  <1> PICK k : k = c OBVIOUS
  <1> HIDE DEF c
  <1>5. /\ call'[t][slot] = k
        /\ \A u \in Tabs, s \in Slots : u # t \/ s # slot => call'[u][s] = call[u][s]
        /\ call' \in [Tabs -> Calls]
        /\ k \in Call /\ k.req = req /\ k.reply = rep /\ k # NoCall
    BY <1>0, <1>4 DEF TypeOK, Calls
  <1>6. Base'
    <2>1. CallOK(slot, k)
      BY <1>1, <1>3, <1>5 DEF Effect, CallOK, Answered
    <2>2. \A u \in Tabs : CallsOK(call'[u])
      <3> TAKE u \in Tabs
      <3> SUFFICES ASSUME NEW s \in Slots, call'[u][s] # NoCall
                   PROVE  CallOK(s, call'[u][s])
        BY DEF CallsOK
      <3>1. CASE u = t /\ s = slot
        BY <1>5, <2>1, <3>1
      <3>2. CASE u # t \/ s # slot
        BY <1>5, <3>2 DEF Base, CallsOK
      <3> QED
        BY <3>1, <3>2
    <2>3. acts' \in 0..MaxActs
      BY <1>0, <1>2 DEF TypeOK
    <2> QED
      BY <1>2, <1>3, <1>5, <2>2, <2>3, ServerBase DEF Effect
  <1>7. ASSUME Kept, Remembers PROVE Kept' /\ Minds
    <2>1. /\ RequestKept(t, form[t], req, joined) /\ form[t].page = "open"
          /\ BirthKept(t, form[t], call[t])
      BY <1>0, <1>7 DEF Kept, TabKept
    <2>2. Minds
      BY <1>3, <2>1, RequestMinds
    <2>3. Grows
      BY <1>3, <1>7 DEF Effect, Kept, Blank
    <2>4. req.op = "create" => slot = "save" /\ ~Born(t)
      BY <1>1, <1>5, <2>1, <1>0 DEF Fits, BirthKept
    <2>5. \A u \in Tabs, s \in Slots : call'[u][s] # NoCall => ReplyKept(s, call[u][s])'
      <3> SUFFICES ASSUME NEW u \in Tabs, NEW s \in Slots, call'[u][s] # NoCall
                   PROVE  ReplyKept(s, call[u][s])'
        OBVIOUS
      <3>1. CASE u = t /\ s = slot
        <4>1. rep.result = "ok" =>
                 /\ Holds(rep.id, rep.version, {rep.content})'
                 /\ slot = "save" => rep.content = req.content
          BY <1>1, <1>3, <2>4 DEF Effect, Fits
        <4> QED
          BY <1>5, <3>1, <4>1 DEF ReplyKept, Answered, Holds
      <3>2. CASE u # t \/ s # slot
        BY <1>5, <1>7, <2>3, <3>2, ReplyLasts
      <3> QED
        BY <3>1, <3>2
    <2>6. \A u \in Tabs : BirthKept(u, form[u], call[u])'
      <3> SUFFICES ASSUME NEW u \in Tabs PROVE BirthKept(u, form[u], call[u])'
        OBVIOUS
      <3>0. BirthKept(u, form[u], call[u])
        BY <1>7 DEF Kept, TabKept
      <3>1. CASE u # t \/ slot # "save"
        <4>1. call'[u]["save"] = call[u]["save"]
          BY <1>5, <3>1 DEF Slots
        <4>2. Born(u)' => Born(u)
          BY <1>3, <2>4, <3>1 DEF Effect
        <4> QED
          BY <1>2, <3>0, <4>1, <4>2 DEF BirthKept, Answered
      <3>2. CASE u = t /\ slot = "save"
        <4>1. call'[u]["save"] = k /\ k.req = req /\ k.reply = rep /\ rep # NoReply
          BY <1>3, <1>5, <3>2, CallsAssumption DEF Effect
        <4>2. CASE req.op = "create"
          BY <1>2, <1>3, <1>5, <2>4, <3>2, <4>1, <4>2 DEF Effect, BirthKept, Answered
        <4>3. CASE req.op # "create"
          <5>1. Born(u)' => Born(u)
            BY <1>3, <4>3 DEF Effect
          <5> QED
            BY <1>0, <1>2, <3>0, <3>2, <4>1, <4>3, <5>1 DEF BirthKept
        <4> QED
          BY <4>2, <4>3
      <3> QED
        BY <3>1, <3>2
    <2>7. \A u \in Tabs, s \in Slots :
             /\ call'[u][s] # NoCall => /\ call[u][s] # NoCall
                                        /\ call'[u][s].req = call[u][s].req
             /\ call[u][s] # NoCall => call'[u][s] # NoCall
      BY <1>0, <1>5
    <2>8. late' \subseteq late /\ form' = form
      BY <1>2
    <2>9. Kept'
      BY <1>7, <2>3, <2>5, <2>6, <2>7, <2>8, ServerKeeps
    <2> QED
      BY <2>2, <2>9
  <1> QED
    BY <1>6, <1>7

LEMMA ServeLateSteps ==
    ASSUME Base, NEW m \in late, ServeLate(m)
    PROVE  Base' /\ (Kept /\ Remembers => Kept' /\ Minds)
  <1>0. TypeOK /\ m.tab \in Tabs /\ m.req \in Request /\ Addressed(m.req)
    BY DEF Base, TypeOK
  <1> PICK t \in Tabs, req \in Request : t = m.tab /\ req = m.req
    BY <1>0
  <1> PICK rep : rep = Run(req, t).reply OBVIOUS
  <1>1. /\ row' = Run(req, t).rows /\ form' = form /\ call' = call /\ acts' = acts
        /\ late' \subseteq late
    BY DEF ServeLate
  <1>2. Effect(t, req, rep)
    BY <1>0, <1>1, Serving
  <1>3. Base'
    BY <1>0, <1>1, <1>2, ServerBase DEF Effect, Base, TypeOK, Calls
  <1>4. ASSUME Kept, Remembers PROVE Kept' /\ Minds
    <2>1. RequestKept(t, form[t], req, joined) /\ (req.op = "create" => form[t].page = "left")
      BY <1>4 DEF Kept, LateKept
    <2>2. Minds
      BY <1>2, <2>1, RequestMinds
    <2>3. Grows
      BY <1>2, <1>4 DEF Effect, Kept, Blank
    <2>4. \A u \in Tabs, s \in Slots : call'[u][s] # NoCall => ReplyKept(s, call[u][s])'
      <3> SUFFICES ASSUME NEW u \in Tabs, NEW s \in Slots, call'[u][s] # NoCall
                   PROVE  ReplyKept(s, call[u][s])'
        OBVIOUS
      <3> QED
        BY <1>0, <1>1, <1>4, <2>3, ReplyLasts
    <2>5. \A u \in Tabs : BirthKept(u, form[u], call[u])'
      <3> SUFFICES ASSUME NEW u \in Tabs PROVE BirthKept(u, form[u], call[u])'
        OBVIOUS
      <3>0. TabKept(u, form[u], call[u], blind, joined) /\ "save" \in Slots
        BY <1>4 DEF Kept, Slots
      <3>1. CASE form[u].page = "left"
        BY <1>1, <3>0, <3>1 DEF TabKept, BirthKept
      <3>2. CASE form[u].page # "left"
        <4>1. Born(u)' => Born(u)
          BY <1>2, <2>1, <3>2 DEF Effect
        <4> QED
          BY <1>1, <3>0, <4>1 DEF TabKept, BirthKept, Answered
      <3> QED
        BY <3>1, <3>2
    <2>6. Kept'
      BY <1>1, <1>4, <2>3, <2>4, <2>5, ServerKeeps
    <2> QED
      BY <2>2, <2>6
  <1> QED
    BY <1>3, <1>4

LEMMA DeleteSteps ==
    ASSUME Base, NEW i \in Ids, Delete(i)
    PROVE  Base' /\ (Kept /\ Remembers => Kept' /\ Minds)
  <1>0. TypeOK /\ row \in [Ids -> Row] /\ row[i] \in Row
    BY DEF Base, TypeOK
  <1>1. /\ row[i].status = "draft" /\ row' = [row EXCEPT ![i].status = "gone"]
        /\ form' = form /\ call' = call /\ late' = late /\ acts' \in 0..MaxActs
    BY <1>0, DraftsAssumption DEF Delete, DeleteDraft, Act, TypeOK
  <1>2. /\ row' \in [Ids -> Row]
        /\ \A j \in Ids \ {i} : row'[j] = row[j]
        /\ row'[i].status = "gone" /\ row'[i].version = row[i].version
        /\ row'[i].client = row[i].client
    <2>1. row'[i] = [row[i] EXCEPT !.status = "gone"]
      BY <1>0, <1>1
    <2> QED
      BY <1>0, <1>1, <2>1 DEF Row
  <1>3. Base'
    <2>1. OneListingPerClient'
      BY <1>2 DEF Base, OneListingPerClient
    <2> QED
      BY <1>1, <1>2, <2>1, ServerBase DEF Base, TypeOK, Calls
  <1>4. ASSUME Kept, Remembers PROVE Kept' /\ Minds
    <2>1. Grows
      <3>1. \A j \in Ids : row[j].version \in Nat
        BY <1>0 DEF Row
      <3> QED
        BY <1>2, <1>4, <3>1 DEF Grows, Kept
    <2>2. Minds
      BY <1>2 DEF Minds
    <2>3. \A u : Born(u)' => Born(u)
      BY <1>2 DEF Born
    <2>4. \A u \in Tabs : BirthKept(u, form[u], call[u])'
      BY <1>1, <1>4, <2>3 DEF Kept, TabKept, BirthKept, Answered
    <2>5. \A u \in Tabs, s \in Slots : call'[u][s] # NoCall => ReplyKept(s, call[u][s])'
      <3> SUFFICES ASSUME NEW u \in Tabs, NEW s \in Slots, call'[u][s] # NoCall
                   PROVE  ReplyKept(s, call[u][s])'
        OBVIOUS
      <3> QED
        BY <1>1, <1>4, <2>1, ReplyLasts
    <2> QED
      BY <1>1, <1>4, <2>1, <2>2, <2>4, <2>5, ServerKeeps
  <1> QED
    BY <1>3, <1>4

-----------------------------------------------------------------------------
(* The steps of a tab.                                                     *)
LEMMA Asks ==
    ASSUME NEW op \in Ops, NEW f \in Form
    PROVE  /\ New(op, f) \in Call /\ New(op, f) # NoCall
           /\ New(op, f).req.op = op /\ New(op, f).req.id = f.id
           /\ New(op, f).req.version = f.version /\ New(op, f).req.content = f.values
           /\ New(op, f).reply = NoReply
  BY CallsAssumption DEF New, Call, Request, Form

LEMMA TabFacts ==
    ASSUME Base, NEW t \in Tabs
    PROVE  /\ TypeOK /\ form[t] \in Form /\ call[t] \in Calls /\ CallsOK(call[t])
           /\ late \subseteq [tab : Tabs, req : Request] /\ acts \in 0..MaxActs
           /\ \A slot \in Slots : call[t][slot] # NoCall =>
                  call[t][slot] \in Call /\ CallOK(slot, call[t][slot])
  BY DEF Base, TypeOK, Calls, CallsOK

LEMMA ActCounts ==
    ASSUME TypeOK, Act PROVE acts' \in 0..MaxActs
  BY DraftsAssumption DEF TypeOK, Act

(* A tab that is not opened yet has no id, no calls and no row.            *)
LEMMA Unopened ==
    ASSUME Kept, NEW t \in Tabs, form[t].page = "unopened"
    PROVE  /\ \A slot \in Slots : call[t][slot] = NoCall
           /\ ~Born(t) /\ form[t].id = NoId /\ form[t].submit # "own"
           /\ form[t].values \in form[t].shown
  <1>1. TabKept(t, form[t], call[t], blind, joined) /\ "save" \in Slots
    BY DEF Kept, Slots
  <1> QED
    BY <1>1 DEF TabKept, FormKept, BirthKept

LEMMA OpenSteps ==
    ASSUME Base, NEW t \in Tabs, Open(t)
    PROVE  Base' /\ (Kept /\ Remembers => Kept')
  <1>0. /\ TypeOK /\ form[t] \in Form /\ call[t] \in Calls /\ CallsOK(call[t])
        /\ form \in [Tabs -> Form] /\ call \in [Tabs -> Calls]
        /\ late' = late /\ row' = row /\ acts' \in 0..MaxActs
        /\ late \subseteq [tab : Tabs, req : Request]
        /\ form[t].page = "unopened"
    BY TabFacts DEF Open, TypeOK, Calls
  <1>1. ASSUME NEW g \in Form, NEW d \in Calls, CallsOK(d),
               form' = [form EXCEPT ![t] = g], call' = [call EXCEPT ![t] = d],
               g.page = "open", form[t].shown \subseteq g.shown,
               g.submit = form[t].submit, g.submitted = form[t].submitted,
               Kept => g.values \in g.shown,
               Kept => (g.id # NoId => Holds(g.id, g.version, {g.values})),
               \A slot \in Slots : d[slot] # NoCall => d[slot] = call[t][slot] \/
                   /\ slot = "load" /\ d[slot].reply = NoReply
                   /\ d[slot].req.op = "load"
        PROVE  Base' /\ (Kept /\ Remembers => Kept')
    <2>1. TabTakes(t, g, d)
      BY <1>0, <1>1 DEF TabTakes
    <2>2. Base'
      BY <1>1, <2>1, TabBase
    <2>3. ASSUME Kept, Remembers PROVE Kept'
      <3>1. \A slot \in Slots : call[t][slot] = NoCall
        BY <1>0, <2>3, Unopened
      <3>2. ~Born(t) /\ form[t].submit # "own" /\ "save" \in Slots
        BY <1>0, <2>3, Unopened DEF Slots
      <3>3. d["save"] = NoCall
        BY <1>1, <3>1, <3>2
      <3>4. g.id # NoId => Holds(g.id, g.version, {g.values}) /\ Holds(g.id, g.version, g.shown)
        BY <1>1, <2>3 DEF Holds
      <3>5. form'[t] = g
        BY <1>0, <1>1
      <3>6. g.submit = "joined" => t \in joined'
        BY <2>3, <3>5 DEF Remembers
      <3>7. FormKept(t, g, d, blind', joined')
        BY <1>1, <2>3, <3>2, <3>4, <3>6 DEF FormKept
      <3>8. BirthKept(t, g, d)
        BY <3>2, <3>3 DEF BirthKept
      <3>9. \A slot \in Slots : d[slot] # NoCall =>
               RequestKept(t, g, d[slot].req, joined') /\ ReplyKept(slot, d[slot])
        BY <1>1, <3>1 DEF RequestKept, ReplyKept, Answered
      <3>10. TabKept(t, g, d, blind', joined')
        BY <1>1, <3>7, <3>8, <3>9 DEF TabKept
      <3>11. LateJoins(t, g)
        BY <1>0 DEF LateJoins
      <3> QED
        BY <1>0, <1>1, <2>1, <2>3, <3>10, <3>11, TabKeeps
    <2> QED
      BY <2>2, <2>3
  <1>2. Kept => form[t].id = NoId /\ form[t].values \in form[t].shown
    BY <1>0, Unopened
  <1>3. CASE form' = [form EXCEPT ![t].page = "open"] /\ call' = call
    <2> DEFINE g == [form[t] EXCEPT !.page = "open"]
    <2>1. /\ g \in Form /\ g.page = "open" /\ form[t].shown \subseteq g.shown
          /\ g.submit = form[t].submit /\ g.submitted = form[t].submitted
          /\ g.values = form[t].values /\ g.shown = form[t].shown /\ g.id = form[t].id
      BY <1>0 DEF Form
    <2>2. form' = [form EXCEPT ![t] = g] /\ call' = [call EXCEPT ![t] = call[t]]
      BY <1>0, <1>3
    <2>3. Kept => g.values \in form[t].shown /\ g.id = NoId
      BY <1>2, <2>1
    <2> HIDE DEF g
    <2> QED
      BY <1>0, <1>1, <2>1, <2>2, <2>3
  <1>4. ASSUME NEW i \in Ids, row[i].status = "draft", call' = call,
               form' = [form EXCEPT ![t].page = "open", ![t].id = i,
                                    ![t].version = row[i].version,
                                    ![t].values = row[i].content,
                                    ![t].shown = @ \cup {row[i].content},
                                    ![t].state = "saved"]
        PROVE  Base' /\ (Kept /\ Remembers => Kept')
    <2> DEFINE g == [form[t] EXCEPT !.page = "open", !.id = i, !.version = row[i].version,
                                    !.values = row[i].content,
                                    !.shown = @ \cup {row[i].content}, !.state = "saved"]
    <2>0. row[i].version \in Nat /\ row[i].content \in Nat
      BY <1>0 DEF TypeOK, Row
    <2>1. g \in Form
      BY <1>0, <2>0 DEF Form
    <2>2. /\ g.page = "open" /\ form[t].shown \subseteq g.shown
          /\ g.submit = form[t].submit /\ g.submitted = form[t].submitted
          /\ g.values = row[i].content /\ g.id = i /\ g.version = row[i].version
          /\ g.values \in g.shown
      BY <1>0 DEF Form
    <2>3. Holds(g.id, g.version, {g.values})
      BY <2>0, <2>2 DEF Holds
    <2>4. form' = [form EXCEPT ![t] = g] /\ call' = [call EXCEPT ![t] = call[t]]
      BY <1>0, <1>4
    <2> HIDE DEF g
    <2> QED
      BY <1>0, <1>1, <2>1, <2>2, <2>3, <2>4
  <1>5. ASSUME NEW i \in Ids, form' = [form EXCEPT ![t].page = "open"],
               call' = [call EXCEPT ![t]["load"] = New("load", [form[t] EXCEPT !.id = i])]
        PROVE  Base' /\ (Kept /\ Remembers => Kept')
    <2> DEFINE g == [form[t] EXCEPT !.page = "open"]
               f == [form[t] EXCEPT !.id = i]
               c == New("load", f)
               d == [call[t] EXCEPT !["load"] = c]
    <2>0. f \in Form /\ f.id = i
      BY <1>0 DEF Form
    <2>1. /\ g \in Form /\ g.page = "open" /\ form[t].shown \subseteq g.shown
          /\ g.submit = form[t].submit /\ g.submitted = form[t].submitted
          /\ g.values = form[t].values /\ g.shown = form[t].shown /\ g.id = form[t].id
      BY <1>0 DEF Form
    <2>2. form' = [form EXCEPT ![t] = g] /\ call' = [call EXCEPT ![t] = d]
      BY <1>0, <1>5
    <2>3. /\ c \in Call /\ c # NoCall /\ c.req.op = "load" /\ c.req.id = i
          /\ c.reply = NoReply
      BY <2>0, Asks DEF Ops
    <2> HIDE DEF f, c, g
    <2>4. /\ d \in Calls /\ d["load"] = c
          /\ \A slot \in Slots : slot # "load" => d[slot] = call[t][slot]
      BY <1>0, <2>3 DEF Calls, Slots
    <2> HIDE DEF d
    <2>5. CallsOK(d)
      BY <1>0, <2>3, <2>4 DEF CallsOK, CallOK, Fits, Addressed, Answered
    <2>6. Kept => g.values \in form[t].shown /\ g.id = NoId
      BY <1>2, <2>1
    <2> QED
      BY <1>0, <1>1, <2>1, <2>2, <2>3, <2>4, <2>5, <2>6
  <1> QED
    BY <1>3, <1>4, <1>5 DEF Open

LEMMA EditSteps ==
    ASSUME Base, NEW t \in Tabs, Edit(t)
    PROVE  Base' /\ (Kept /\ Remembers => Kept')
  <1>0. /\ TypeOK /\ form[t] \in Form /\ call[t] \in Calls /\ CallsOK(call[t])
        /\ form \in [Tabs -> Form] /\ call \in [Tabs -> Calls]
        /\ late' = late /\ row' = row /\ call' = call /\ acts' \in 0..MaxActs
        /\ late \subseteq [tab : Tabs, req : Request]
        /\ form[t].page = "open"
    BY TabFacts, ActCounts DEF Edit, TypeOK, Calls, IsOpen
  <1> DEFINE n == acts + 1
             f == Typed(form[t])
             g == CASE Loading(t)               -> f
                    [] ~Loading(t) /\ ~f.online -> [f EXCEPT !.unsaved = TRUE,
                                                             !.state = "offline"]
                    [] ~Loading(t) /\ f.online  -> [f EXCEPT !.unsaved = TRUE,
                                                             !.timer = TRUE]
  <1>1. n \in Nat
    BY <1>0 DEF TypeOK
  <1>2. /\ f \in Form /\ f.page = form[t].page /\ f.id = form[t].id
        /\ f.version = form[t].version /\ f.submit = form[t].submit
        /\ f.submitted = form[t].submitted /\ f.values = n
        /\ f.shown = form[t].shown \cup {n} /\ f.unsaved = form[t].unsaved
        /\ f.online = form[t].online
    BY <1>0, <1>1 DEF Typed, Form
  <1>3. form' = [form EXCEPT ![t] = g] /\ call' = [call EXCEPT ![t] = call[t]]
    BY <1>0 DEF Edit
  <1> HIDE DEF f, n
  <1>4. /\ g \in Form /\ g.page = form[t].page /\ g.id = form[t].id
        /\ g.version = form[t].version /\ g.submit = form[t].submit
        /\ g.submitted = form[t].submitted /\ g.values = n
        /\ g.shown = form[t].shown \cup {n}
        /\ Loading(t) \/ g.unsaved
        /\ Loading(t) => g.unsaved = form[t].unsaved
    <2>1. CASE Loading(t)
      BY <1>2, <2>1
    <2>2. CASE ~Loading(t) /\ ~f.online
      <3>1. g = [f EXCEPT !.unsaved = TRUE, !.state = "offline"]
        BY <2>2
      <3> HIDE DEF g
      <3> QED
        BY <1>2, <2>2, <3>1 DEF Form
    <2>3. CASE ~Loading(t) /\ f.online
      <3>1. g = [f EXCEPT !.unsaved = TRUE, !.timer = TRUE]
        BY <2>3
      <3> HIDE DEF g
      <3> QED
        BY <1>2, <2>3, <3>1 DEF Form
    <2> QED
      BY <1>2, <2>1, <2>2, <2>3
  <1> HIDE DEF g
  <1>5. TabTakes(t, g, call[t])
    BY <1>0, <1>3 DEF TabTakes
  <1>6. Base'
    BY <1>0, <1>4, <1>5, TabBase
  <1>7. ASSUME Kept, Remembers PROVE Kept'
    <2>0. form'[t] = g
      BY <1>0, <1>3
    <2>1. TabKept(t, form[t], call[t], blind, joined)
      BY <1>7 DEF Kept
    <2>2. g.submit = "joined" => t \in joined'
      BY <1>7, <2>0 DEF Remembers
    <2>3. t \notin blind' /\ Loading(t) => form'[t].values = form[t].values
      BY <1>0, <1>7 DEF Remembers, Loading
    <2>4. FormKept(t, g, call[t], blind', joined')
      <3>0. FormKept(t, form[t], call[t], blind, joined)
        BY <2>1 DEF TabKept
      <3>1. g.values \in g.shown /\ (g.page = "unopened" => g.id = NoId)
        BY <1>4, <3>0 DEF FormKept
      <3>2. g.id # NoId => Holds(g.id, g.version, g.shown)
        BY <1>4, <3>0 DEF FormKept, Holds
      <3>3. t \notin blind' /\ g.page = "open" /\ ~g.unsaved /\ g.id # NoId
               => Holds(g.id, g.version, {g.values})
        BY <1>4, <1>7, <2>0, <2>3, <3>0 DEF FormKept, Holds, Remembers
      <3> QED
        BY <1>4, <2>2, <3>0, <3>1, <3>2, <3>3 DEF FormKept
    <2>5. BirthKept(t, g, call[t])
      BY <1>4, <2>1 DEF TabKept, BirthKept
    <2>6. \A slot \in Slots : call[t][slot] # NoCall =>
             RequestKept(t, g, call[t][slot].req, joined') /\ ReplyKept(slot, call[t][slot])
      BY <1>4, <1>7, <2>1, RequestStays DEF TabKept, Remembers
    <2>7. TabKept(t, g, call[t], blind', joined')
      BY <1>4, <2>1, <2>4, <2>5, <2>6 DEF TabKept
    <2>8. LateJoins(t, g)
      BY <1>0 DEF LateJoins
    <2> QED
      BY <1>0, <1>4, <1>5, <1>7, <2>7, <2>8, TabKeeps
  <1> QED
    BY <1>6, <1>7

(* The outcomes of persistDraft: the calls stay, or a save begins.         *)
SaveCall(f) == New(IF f.id = NoId THEN "create" ELSE "update", f)

LEMMA Persisting ==
    ASSUME Base, NEW t \in Tabs, NEW f \in Form, NEW force \in BOOLEAN,
           PersistDraft(t, f, force)
    PROVE  \E g \in Form, d \in Calls :
              /\ form' = [form EXCEPT ![t] = g] /\ call' = [call EXCEPT ![t] = d]
              /\ g.page = f.page /\ g.values = f.values /\ g.shown = f.shown
              /\ g.id = f.id /\ g.version = f.version
              /\ g.submit = f.submit /\ g.submitted = f.submitted
              /\ f.unsaved => g.unsaved
              /\ \/ d = call[t]
                 \/ ~Saving(t) /\ d = [call[t] EXCEPT !["save"] = SaveCall(f)]
              /\ force /\ f.online /\ ~Saving(t)
                    => d = [call[t] EXCEPT !["save"] = SaveCall(f)]
  <1>0. /\ call[t] \in Calls /\ call \in [Tabs -> Calls] /\ "save" \in Slots
    BY DEF Base, TypeOK, Calls, Slots
  <1> DEFINE g == [f EXCEPT !.timer = FALSE]
             Same(h) == /\ h.page = f.page /\ h.values = f.values /\ h.shown = f.shown
                        /\ h.id = f.id /\ h.version = f.version
                        /\ h.submit = f.submit /\ h.submitted = f.submitted
                        /\ f.unsaved => h.unsaved
             Moves(h, c) == /\ form' = [form EXCEPT ![t] = h]
                            /\ call' = [call EXCEPT ![t]["save"] = c]
  <1>1. \A c : [call EXCEPT ![t]["save"] = c] = [call EXCEPT ![t] = [call[t] EXCEPT !["save"] = c]]
    BY <1>0
  <1>2. [call[t] EXCEPT !["save"] = call[t]["save"]] = call[t]
    BY <1>0 DEF Calls
  <1>3. g \in Form /\ Same(g)
    BY DEF Form
  <1>4. CASE ~force /\ ~f.unsaved
    <2>1. Moves(g, call[t]["save"])
      BY <1>4 DEF PersistDraft
    <2> QED
      BY <1>0, <1>1, <1>2, <1>3, <1>4, <2>1
  <1>5. CASE ~(~force /\ ~f.unsaved) /\ ~f.online
    <2> DEFINE h == [g EXCEPT !.state = "offline", !.unsaved = TRUE]
    <2>1. Moves(h, call[t]["save"])
      BY <1>5 DEF PersistDraft
    <2>2. h \in Form /\ Same(h)
      BY <1>3 DEF Form
    <2> HIDE DEF h
    <2> QED
      BY <1>0, <1>1, <1>2, <1>5, <2>1, <2>2
  <1>6. CASE ~(~force /\ ~f.unsaved) /\ f.online /\ Saving(t)
    <2> DEFINE h == [g EXCEPT !.pending = TRUE]
    <2>1. Moves(h, call[t]["save"])
      BY <1>6 DEF PersistDraft
    <2>2. h \in Form /\ Same(h)
      BY <1>3 DEF Form
    <2> HIDE DEF h
    <2> QED
      BY <1>0, <1>1, <1>2, <1>6, <2>1, <2>2
  <1>7. CASE ~(~force /\ ~f.unsaved) /\ f.online /\ ~Saving(t)
    <2> DEFINE h == [g EXCEPT !.state = "saving"]
               d == [call[t] EXCEPT !["save"] = SaveCall(f)]
    <2>1. Moves(h, SaveCall(f))
      BY <1>7 DEF PersistDraft, SaveCall
    <2>2. h \in Form /\ Same(h)
      BY <1>3 DEF Form
    <2>3. d \in Calls
      BY <1>0, Asks DEF SaveCall, Ops, Calls
    <2>4. call' = [call EXCEPT ![t] = d]
      BY <1>1, <2>1
    <2> HIDE DEF h
    <2> QED
      BY <1>7, <2>1, <2>2, <2>3, <2>4
  <1> QED
    BY <1>4, <1>5, <1>6, <1>7

(* persistDraft called with a form f that differs from the tab's form in   *)
(* its submission and its network only.                                    *)
LEMMA PersistSteps ==
    ASSUME Base, NEW t \in Tabs, NEW f \in Form, NEW force \in BOOLEAN,
           PersistDraft(t, f, force), acts' \in 0..MaxActs,
           form[t].page = "open", f.page = "open",
           f.values = form[t].values, f.shown = form[t].shown,
           f.id = form[t].id, f.version = form[t].version,
           f.unsaved = form[t].unsaved, form[t].submitted \subseteq f.submitted,
           f.submit = "own" =>
              \/ form[t].submit = "own"
              \/ force /\ f.online /\ ~Saving(t) /\ f.values \in f.submitted
    PROVE  Base' /\ (Kept /\ Remembers => Kept')
  <1> PICK g \in Form, d \in Calls :
              /\ form' = [form EXCEPT ![t] = g] /\ call' = [call EXCEPT ![t] = d]
              /\ g.page = f.page /\ g.values = f.values /\ g.shown = f.shown
              /\ g.id = f.id /\ g.version = f.version
              /\ g.submit = f.submit /\ g.submitted = f.submitted
              /\ f.unsaved => g.unsaved
              /\ \/ d = call[t]
                 \/ ~Saving(t) /\ d = [call[t] EXCEPT !["save"] = SaveCall(f)]
              /\ force /\ f.online /\ ~Saving(t)
                    => d = [call[t] EXCEPT !["save"] = SaveCall(f)]
    BY Persisting
  <1>0. /\ TypeOK /\ form[t] \in Form /\ call[t] \in Calls /\ CallsOK(call[t])
        /\ form \in [Tabs -> Form] /\ late' = late /\ row' = row
        /\ late \subseteq [tab : Tabs, req : Request] /\ "save" \in Slots
    BY TabFacts DEF PersistDraft, TypeOK, Slots
  <1> DEFINE c == SaveCall(f)
             Asked == ~Saving(t) /\ d = [call[t] EXCEPT !["save"] = c]
  <1>1. /\ c \in Call /\ c # NoCall /\ c.reply = NoReply
        /\ c.req.op = (IF f.id = NoId THEN "create" ELSE "update")
        /\ c.req.id = f.id /\ c.req.version = f.version /\ c.req.content = f.values
    BY Asks DEF SaveCall, Ops
  <1>2. d = call[t] \/ Asked
    OBVIOUS
  <1>3. Asked => /\ d["save"] = c /\ call[t]["save"] = NoCall
                 /\ \A slot \in Slots : slot # "save" => d[slot] = call[t][slot]
    BY <1>0 DEF Calls, Saving
  <1>4. f.id # NoId => f.id \in Ids
    BY DEF Form
  <1> HIDE DEF c
  <1>5. CallsOK(d)
    <2>1. Asked => CallOK("save", c)
      BY <1>1, <1>4 DEF CallOK, Fits, Addressed, Answered
    <2> QED
      BY <1>0, <1>2, <1>3, <2>1 DEF CallsOK
  <1>6. TabTakes(t, g, d)
    BY <1>0 DEF TabTakes
  <1>7. Base'
    BY <1>5, <1>6, TabBase
  <1>8. ASSUME Kept, Remembers PROVE Kept'
    <2>0. /\ form'[t] = g /\ TabKept(t, form[t], call[t], blind, joined)
          /\ blind \subseteq blind' /\ joined \subseteq joined'
      BY <1>0, <1>8 DEF Kept, Remembers
    <2>1. /\ FormKept(t, form[t], call[t], blind, joined)
          /\ BirthKept(t, form[t], call[t])
      BY <2>0 DEF TabKept
    <2>2. g.submit = "joined" => t \in joined'
      BY <1>8, <2>0 DEF Remembers
    <2>3. f.id # NoId => Holds(f.id, f.version, f.shown)
      BY <2>1 DEF FormKept
    <2>4. \A slot \in Slots : call[t][slot] # NoCall =>
             RequestKept(t, g, call[t][slot].req, joined') /\ ReplyKept(slot, call[t][slot])
      BY <2>0, RequestStays DEF TabKept
    <2>5. Asked => RequestKept(t, g, c.req, joined') /\ ReplyKept("save", c)
      BY <1>1, <2>1, <2>3 DEF RequestKept, ReplyKept, Answered, FormKept
    <2>6. \A slot \in Slots : d[slot] # NoCall =>
             RequestKept(t, g, d[slot].req, joined') /\ ReplyKept(slot, d[slot])
      BY <1>2, <1>3, <2>4, <2>5
    <2>7. FormKept(t, g, d, blind', joined')
      <3>1. t \notin blind' /\ ~g.unsaved /\ g.id # NoId => Holds(g.id, g.version, {g.values})
        BY <2>0, <2>1 DEF FormKept
      <3>2. g.submit = "own" => d["save"] # NoCall /\ d["save"].req.content \in g.submitted
        <4>1. CASE form[t].submit = "own"
          <5>1. Saving(t) /\ call[t]["save"].req.content \in form[t].submitted
            BY <2>1, <4>1 DEF FormKept, Saving
          <5>2. d = call[t]
            BY <1>2, <5>1
          <5> QED
            BY <5>1, <5>2 DEF Saving
        <4>2. CASE force /\ f.online /\ ~Saving(t) /\ f.values \in f.submitted
          <5>1. d["save"] = c
            BY <1>3, <4>2 DEF c
          <5> QED
            BY <1>1, <4>2, <5>1
        <4> QED
          BY <4>1, <4>2
      <3> QED
        BY <2>1, <2>2, <2>3, <3>1, <3>2 DEF FormKept
    <2>8. BirthKept(t, g, d)
      <3>1. CASE d = call[t]
        BY <2>1, <3>1 DEF BirthKept
      <3>2. CASE Asked
        <4>1. Born(t) => g.id # NoId
          BY <1>3, <2>1, <3>2 DEF BirthKept
        <4>2. d["save"] = c
          BY <1>3, <3>2
        <4> QED
          BY <1>1, <4>1, <4>2 DEF BirthKept
      <3> QED
        BY <1>2, <3>1, <3>2
    <2>9. TabKept(t, g, d, blind', joined')
      BY <2>6, <2>7, <2>8 DEF TabKept
    <2>10. LateJoins(t, g)
      BY <1>0 DEF LateJoins
    <2> QED
      BY <1>6, <1>8, <2>9, <2>10, TabKeeps
  <1> QED
    BY <1>7, <1>8

LEMMA TimerSteps ==
    ASSUME Base, NEW t \in Tabs, TimerFires(t)
    PROVE  Base' /\ (Kept /\ Remembers => Kept')
  BY TabFacts, PersistSteps DEF TimerFires, IsOpen

LEMMA SaveNowSteps ==
    ASSUME Base, NEW t \in Tabs, SaveNow(t)
    PROVE  Base' /\ (Kept /\ Remembers => Kept')
  BY TabFacts, ActCounts, PersistSteps DEF SaveNow, IsOpen

LEMMA SubmitSteps ==
    ASSUME Base, NEW t \in Tabs, Submit(t)
    PROVE  Base' /\ (Kept /\ Remembers => Kept')
  <1> DEFINE answer == CASE ~form[t].online -> "no"
                         [] form[t].online /\ Saving(t) -> "joined"
                         [] form[t].online /\ ~Saving(t) -> "own"
             f == [form[t] EXCEPT !.submitted = @ \cup {form[t].values}, !.submit = answer]
  <1>0. /\ TypeOK /\ form[t] \in Form /\ acts' \in 0..MaxActs /\ form[t].page = "open"
        /\ PersistDraft(t, f, TRUE)
    BY TabFacts, ActCounts DEF Submit, IsOpen
  <1>1. /\ answer \in {"no", "own", "joined", "publishing"}
        /\ answer = "own" => form[t].online /\ ~Saving(t)
    OBVIOUS
  <1> HIDE DEF answer
  <1>2. /\ f \in Form /\ f.page = "open" /\ f.values = form[t].values
        /\ f.shown = form[t].shown /\ f.id = form[t].id /\ f.version = form[t].version
        /\ f.unsaved = form[t].unsaved /\ f.submitted = form[t].submitted \cup {form[t].values}
        /\ f.submit = answer /\ f.online = form[t].online
    BY <1>0, <1>1 DEF Form
  <1> HIDE DEF f
  <1> QED
    BY <1>0, <1>1, <1>2, PersistSteps

LEMMA GoOnlineSteps ==
    ASSUME Base, NEW t \in Tabs, GoOnline(t)
    PROVE  Base' /\ (Kept /\ Remembers => Kept')
  <1> DEFINE f == [form[t] EXCEPT !.online = TRUE]
  <1>0. /\ TypeOK /\ form[t] \in Form /\ acts' \in 0..MaxActs /\ form[t].page = "open"
        /\ PersistDraft(t, f, form[t].unsaved)
    BY TabFacts, ActCounts DEF GoOnline, IsOpen
  <1>1. /\ f \in Form /\ f.page = "open" /\ f.values = form[t].values
        /\ f.shown = form[t].shown /\ f.id = form[t].id /\ f.version = form[t].version
        /\ f.unsaved = form[t].unsaved /\ f.submitted = form[t].submitted
        /\ f.submit = form[t].submit /\ form[t].unsaved \in BOOLEAN
    BY <1>0 DEF Form
  <1> HIDE DEF f
  <1> QED
    BY <1>0, <1>1, PersistSteps

LEMMA ReloadSteps ==
    ASSUME Base, NEW t \in Tabs, Reload(t)
    PROVE  Base' /\ (Kept /\ Remembers => Kept')
  <1> DEFINE c == New("load", form[t])
             d == [call[t] EXCEPT !["load"] = c]
  <1>0. /\ TypeOK /\ form[t] \in Form /\ call[t] \in Calls /\ CallsOK(call[t])
        /\ form \in [Tabs -> Form] /\ call \in [Tabs -> Calls]
        /\ late' = late /\ row' = row /\ form' = form /\ acts' \in 0..MaxActs
        /\ late \subseteq [tab : Tabs, req : Request]
        /\ form[t].page = "open" /\ form[t].id # NoId
        /\ "load" \in Slots /\ "save" \in Slots /\ "load" # "save"
    BY TabFacts, ActCounts DEF Reload, TypeOK, Calls, IsOpen, Slots
  <1>1. /\ c \in Call /\ c # NoCall /\ c.req.op = "load" /\ c.req.id = form[t].id
        /\ c.reply = NoReply /\ form[t].id \in Ids
    BY <1>0, Asks DEF Ops, Form
  <1>2. form' = [form EXCEPT ![t] = form[t]] /\ call' = [call EXCEPT ![t] = d]
    BY <1>0 DEF Reload
  <1> HIDE DEF c
  <1>3. /\ d \in Calls /\ d["load"] = c
        /\ \A slot \in Slots : slot # "load" => d[slot] = call[t][slot]
    BY <1>0, <1>1 DEF Calls
  <1> HIDE DEF d
  <1>4. CallsOK(d)
    BY <1>0, <1>1, <1>3 DEF CallsOK, CallOK, Fits, Addressed, Answered
  <1>5. TabTakes(t, form[t], d)
    BY <1>0, <1>2 DEF TabTakes
  <1>6. Base'
    BY <1>0, <1>3, <1>4, <1>5, TabBase
  <1>7. ASSUME Kept, Remembers PROVE Kept'
    <2>0. TabKept(t, form[t], call[t], blind', joined')
      BY <1>7, TabStays DEF Kept, Remembers
    <2>1. d["save"] = call[t]["save"]
      BY <1>0, <1>3
    <2>2. RequestKept(t, form[t], c.req, joined') /\ ReplyKept("load", c)
      BY <1>1 DEF RequestKept, ReplyKept, Answered
    <2>3. \A slot \in Slots : d[slot] # NoCall =>
             RequestKept(t, form[t], d[slot].req, joined') /\ ReplyKept(slot, d[slot])
      BY <1>3, <2>0, <2>2 DEF TabKept
    <2>4. TabKept(t, form[t], d, blind', joined')
      BY <1>0, <2>0, <2>1, <2>3 DEF TabKept, FormKept, BirthKept
    <2>5. LateJoins(t, form[t])
      BY <1>0 DEF LateJoins
    <2> QED
      BY <1>0, <1>3, <1>5, <1>7, <2>4, <2>5, TabKeeps
  <1> QED
    BY <1>6, <1>7

LEMMA RefreshSteps ==
    ASSUME Base, NEW t \in Tabs, Refresh(t)
    PROVE  Base' /\ (Kept /\ Remembers => Kept')
  <1> DEFINE g == [form[t] EXCEPT !.timer = FALSE]
  <1>0. /\ TypeOK /\ form[t] \in Form /\ call[t] \in Calls /\ CallsOK(call[t])
        /\ form \in [Tabs -> Form] /\ call \in [Tabs -> Calls]
        /\ late' = late /\ row' = row /\ acts' \in 0..MaxActs
        /\ late \subseteq [tab : Tabs, req : Request]
        /\ form[t].page = "open" /\ "load" \in Slots /\ "save" \in Slots
        /\ form' = [form EXCEPT ![t] = g]
    BY TabFacts, ActCounts DEF Refresh, TypeOK, Calls, IsOpen, Slots
  <1>1. /\ g \in Form /\ g.page = form[t].page /\ g.values = form[t].values
        /\ g.shown = form[t].shown /\ g.id = form[t].id /\ g.version = form[t].version
        /\ g.unsaved = form[t].unsaved /\ g.submitted = form[t].submitted
        /\ g.submit = form[t].submit
    BY <1>0 DEF Form
  <1> HIDE DEF g
  <1>2. ASSUME NEW d \in Calls, CallsOK(d), call' = [call EXCEPT ![t] = d],
               d["save"] = call[t]["save"],
               \A slot \in Slots : d[slot] # NoCall => d[slot] = call[t][slot] \/
                   /\ slot = "load" /\ d[slot].reply = NoReply
                   /\ d[slot].req.op = "load"
        PROVE  Base' /\ (Kept /\ Remembers => Kept')
    <2>1. TabTakes(t, g, d)
      BY <1>0, <1>1, <1>2 DEF TabTakes
    <2>2. Base'
      BY <1>1, <1>2, <2>1, TabBase
    <2>3. ASSUME Kept, Remembers PROVE Kept'
      <3>1. TabKept(t, form[t], call[t], blind', joined')
        BY <2>3, TabStays DEF Kept, Remembers
      <3>2. TabKept(t, g, call[t], blind', joined')
        BY <1>1, <3>1 DEF TabKept, FormKept, BirthKept, RequestKept
      <3>3. \A slot \in Slots : d[slot] # NoCall =>
               RequestKept(t, g, d[slot].req, joined') /\ ReplyKept(slot, d[slot])
        BY <1>2, <3>2 DEF TabKept, RequestKept, ReplyKept, Answered
      <3>4. TabKept(t, g, d, blind', joined')
        BY <1>0, <1>1, <1>2, <3>2, <3>3 DEF TabKept, FormKept, BirthKept
      <3>5. LateJoins(t, g)
        BY <1>0 DEF LateJoins
      <3> QED
        BY <1>0, <1>1, <1>2, <2>1, <2>3, <3>4, <3>5, TabKeeps
    <2> QED
      BY <2>2, <2>3
  <1>3. CASE call' = call
    BY <1>0, <1>2, <1>3
  <1>4. ASSUME NEW i \in Ids,
               call' = [call EXCEPT ![t]["load"] = New("load", [form[t] EXCEPT !.id = i])]
        PROVE  Base' /\ (Kept /\ Remembers => Kept')
    <2> DEFINE f == [form[t] EXCEPT !.id = i]
               c == New("load", f)
               d == [call[t] EXCEPT !["load"] = c]
    <2>1. f \in Form /\ f.id = i
      BY <1>0 DEF Form
    <2>2. call' = [call EXCEPT ![t] = d]
      BY <1>0, <1>4
    <2>3. /\ c \in Call /\ c # NoCall /\ c.req.op = "load" /\ c.req.id = i
          /\ c.reply = NoReply
      BY <2>1, Asks DEF Ops
    <2> HIDE DEF f, c
    <2>4. /\ d \in Calls /\ d["load"] = c /\ d["save"] = call[t]["save"]
          /\ \A slot \in Slots : slot # "load" => d[slot] = call[t][slot]
      BY <1>0, <2>3 DEF Calls
    <2> HIDE DEF d
    <2>5. CallsOK(d)
      BY <1>0, <2>3, <2>4 DEF CallsOK, CallOK, Fits, Addressed, Answered
    <2> QED
      BY <1>2, <2>2, <2>3, <2>4, <2>5
  <1> QED
    BY <1>3, <1>4 DEF Refresh

LEMMA GoOfflineSteps ==
    ASSUME Base, NEW t \in Tabs, GoOffline(t)
    PROVE  Base' /\ (Kept /\ Remembers => Kept')
  <1> DEFINE answer == IF form[t].unsaved THEN "offline" ELSE form[t].state
             g == [form[t] EXCEPT !.online = FALSE, !.state = answer]
  <1>0. /\ TypeOK /\ form[t] \in Form /\ call[t] \in Calls /\ CallsOK(call[t])
        /\ form \in [Tabs -> Form] /\ call \in [Tabs -> Calls]
        /\ late' = late /\ row' = row /\ call' = call /\ acts' \in 0..MaxActs
        /\ late \subseteq [tab : Tabs, req : Request]
        /\ form[t].page = "open"
    BY TabFacts, ActCounts DEF GoOffline, TypeOK, Calls, IsOpen
  <1>1. form' = [form EXCEPT ![t] = g] /\ call' = [call EXCEPT ![t] = call[t]]
    BY <1>0 DEF GoOffline
  <1>2. answer \in {"idle", "saving", "saved", "offline", "conflict", "error"}
    BY <1>0 DEF Form
  <1> HIDE DEF answer
  <1>3. /\ g \in Form /\ g.page = form[t].page /\ g.values = form[t].values
        /\ g.shown = form[t].shown /\ g.id = form[t].id /\ g.version = form[t].version
        /\ g.unsaved = form[t].unsaved /\ g.submitted = form[t].submitted
        /\ g.submit = form[t].submit
    BY <1>0, <1>2 DEF Form
  <1> HIDE DEF g
  <1>4. TabTakes(t, g, call[t])
    BY <1>0, <1>1 DEF TabTakes
  <1>5. Base'
    BY <1>0, <1>3, <1>4, TabBase
  <1>6. ASSUME Kept, Remembers PROVE Kept'
    <2>0. TabKept(t, form[t], call[t], blind', joined')
      BY <1>6, TabStays DEF Kept, Remembers
    <2>1. TabKept(t, g, call[t], blind', joined')
      BY <1>3, <2>0 DEF TabKept, FormKept, BirthKept, RequestKept
    <2>2. LateJoins(t, g)
      BY <1>0 DEF LateJoins
    <2> QED
      BY <1>0, <1>3, <1>4, <1>6, <2>1, <2>2, TabKeeps
  <1> QED
    BY <1>5, <1>6

-----------------------------------------------------------------------------
(* The tab hears the reply rep to a call.                                  *)
Heard(t, slot, rep) ==
    /\ call[t][slot] # NoCall /\ rep \in Reply
    /\ rep.result = "ok" => rep.id \in Ids
    /\ row' = row /\ acts' = acts
    /\ late' \subseteq [tab : Tabs, req : Request]
    /\ \A m \in late' \ late : m.tab = t /\ Addressed(m.req)

HeardKept(t, slot, rep) ==
    /\ rep.result = "ok" =>
          /\ Holds(rep.id, rep.version, {rep.content})
          /\ slot = "save" => rep.content = call[t][slot].req.content
    /\ slot = "save" /\ rep.result # "ok" /\ Born(t) => form[t].id # NoId
    /\ \A m \in late' \ late : /\ RequestKept(t, form[t], m.req, joined)
                               /\ m.req.op = "create" => form'[t].page = "left"

LEMMA Told ==
    ASSUME NEW f \in Form, NEW rep \in Reply, NEW n, NEW h,
           h = Repeat(Outcome(f, rep, n))
    PROVE  /\ h \in Form /\ h.page = f.page /\ h.values = f.values
           /\ h.shown = f.shown /\ h.submit = f.submit /\ h.submitted = f.submitted
           /\ rep.result = "ok" => h.id = rep.id /\ h.version = rep.version
           /\ rep.result # "ok" => h.id = f.id /\ h.version = f.version /\ h.unsaved
           /\ rep.result = "ok" /\ ~h.unsaved => f.values = n
  <1> DEFINE o == Outcome(f, rep, n)
             g == [f EXCEPT !.id = rep.id, !.version = rep.version]
             Facts(x) ==
               /\ x \in Form /\ x.page = f.page /\ x.values = f.values
               /\ x.shown = f.shown /\ x.submit = f.submit /\ x.submitted = f.submitted
               /\ rep.result = "ok" => x.id = rep.id /\ x.version = rep.version
               /\ rep.result # "ok" => x.id = f.id /\ x.version = f.version /\ x.unsaved
               /\ rep.result = "ok" /\ ~x.unsaved => f.values = n
  <1>0. rep.id \in Ids \cup {NoId} /\ rep.version \in Nat
        /\ rep.result \in {"ok", "conflict", "failed"}
    BY DEF Reply
  <1>1. /\ g \in Form /\ g.page = f.page /\ g.values = f.values
        /\ g.shown = f.shown /\ g.submit = f.submit /\ g.submitted = f.submitted
        /\ g.id = rep.id /\ g.version = rep.version
    BY <1>0 DEF Form
  <1> HIDE DEF g
  <1>2. Facts(o)
    <2>1. CASE rep.result # "ok"
      <3> DEFINE answer == CASE rep.result = "conflict" -> "conflict"
                             [] rep.result = "failed" /\ f.online -> "error"
                             [] rep.result = "failed" /\ ~f.online -> "offline"
                 x == [f EXCEPT !.unsaved = TRUE, !.state = answer]
      <3>1. o = x
        BY <2>1 DEF Outcome, NotSaved
      <3>2. answer \in {"idle", "saving", "saved", "offline", "conflict", "error"}
        BY <1>0, <2>1 DEF Form
      <3> HIDE DEF answer, o
      <3>3. Facts(x)
        BY <2>1, <3>2 DEF Form
      <3> QED
        BY <3>1, <3>3
    <2>2. CASE rep.result = "ok" /\ f.values = n /\ ~f.pending
      <3> DEFINE x == [g EXCEPT !.unsaved = FALSE, !.state = "saved"]
      <3>1. o = x
        BY <2>2 DEF Outcome, g
      <3>2. Facts(x)
        BY <1>1, <2>2, ZenonT(60) DEF Form
      <3> HIDE DEF o, x
      <3> QED
        BY <3>1, <3>2
    <2>3. CASE rep.result = "ok" /\ ~(f.values = n /\ ~f.pending)
      <3> DEFINE x == [g EXCEPT !.unsaved = TRUE, !.pending = TRUE]
      <3>1. o = x
        BY <2>3 DEF Outcome, g
      <3>2. Facts(x)
        BY <1>1, <2>3 DEF Form
      <3> HIDE DEF o, x
      <3> QED
        BY <3>1, <3>2
    <2> QED
      BY <2>1, <2>2, <2>3
  <1> HIDE DEF o
  <1>3. CASE h = o
    BY <1>2, <1>3
  <1>4. CASE h # o
    <2>1. h = [o EXCEPT !.pending = FALSE, !.timer = TRUE]
      BY <1>4 DEF Repeat, o
    <2>2. o \in Form
      BY <1>2
    <2>3. /\ h \in Form /\ h.page = o.page /\ h.values = o.values /\ h.shown = o.shown
          /\ h.submit = o.submit /\ h.submitted = o.submitted /\ h.id = o.id
          /\ h.version = o.version /\ h.unsaved = o.unsaved
      BY <2>1, <2>2 DEF Form
    <2> QED
      BY <1>2, <2>3
  <1> QED
    BY <1>3, <1>4

LEMMA SaveSettled ==
    ASSUME Base, NEW t \in Tabs, NEW rep, form[t].page = "open",
           Heard(t, "save", rep), SaveSettles(t, rep)
    PROVE  Base' /\ (Kept /\ Remembers /\ HeardKept(t, "save", rep) => Kept')
  <1> DEFINE n == call[t]["save"].req.content
             h == Repeat(Outcome(form[t], rep, n))
             goes == \/ h.submit = "own" /\ rep.result = "ok"
                     \/ h.submit = "joined" /\ h.id # NoId
             g == CASE goes -> [h EXCEPT !.submit = "publishing"]
                    [] ~goes /\ h.submit \in {"own", "joined"} -> [h EXCEPT !.submit = "no"]
                    [] OTHER -> h
             c == New("publish", h)
             d == [call[t] EXCEPT !["save"] = NoCall,
                                  !["publish"] = IF goes THEN c ELSE @]
  <1>0. /\ TypeOK /\ form[t] \in Form /\ call[t] \in Calls /\ CallsOK(call[t])
        /\ form \in [Tabs -> Form] /\ call \in [Tabs -> Calls]
        /\ row' = row /\ acts' \in 0..MaxActs
        /\ "publish" \in Slots /\ "save" \in Slots /\ "publish" # "save"
        /\ rep \in Reply
    BY TabFacts DEF Heard, TypeOK, Calls, Slots
  <1>1. form' = [form EXCEPT ![t] = g] /\ call' = [call EXCEPT ![t] = d]
    BY <1>0 DEF SaveSettles
  <1>2. /\ h \in Form /\ h.page = "open" /\ h.values = form[t].values
        /\ h.shown = form[t].shown /\ h.submit = form[t].submit
        /\ h.submitted = form[t].submitted
        /\ rep.result = "ok" => h.id = rep.id /\ h.version = rep.version
        /\ rep.result # "ok" =>
               h.id = form[t].id /\ h.version = form[t].version /\ h.unsaved
        /\ rep.result = "ok" /\ ~h.unsaved => form[t].values = n
    BY <1>0, Told
  <1> HIDE DEF h
  <1>3. goes => h.id \in Ids
    BY <1>2 DEF Heard, Form
  <1>4. /\ c \in Call /\ c # NoCall /\ c.reply = NoReply /\ c.req.op = "publish"
        /\ c.req.id = h.id /\ c.req.version = h.version
    BY <1>2, Asks DEF Ops
  <1> HIDE DEF c
  <1>5. /\ d \in Calls /\ d["save"] = NoCall
        /\ d["publish"] = (IF goes THEN c ELSE call[t]["publish"])
        /\ \A slot \in Slots \ {"save", "publish"} : d[slot] = call[t][slot]
    BY <1>0, <1>4 DEF Calls
  <1>6. /\ g \in Form /\ g.page = "open" /\ g.values = h.values /\ g.shown = h.shown
        /\ g.submitted = h.submitted /\ g.id = h.id /\ g.version = h.version
        /\ g.unsaved = h.unsaved /\ g.submit \notin {"own", "joined"}
    <2>1. CASE goes
      <3>1. g = [h EXCEPT !.submit = "publishing"]
        BY <2>1
      <3> HIDE DEF g, goes
      <3> QED
        BY <1>2, <3>1 DEF Form
    <2>2. CASE ~goes /\ h.submit \in {"own", "joined"}
      <3>1. g = [h EXCEPT !.submit = "no"]
        BY <2>2
      <3> HIDE DEF g, goes
      <3> QED
        BY <1>2, <3>1 DEF Form
    <2>3. CASE ~goes /\ h.submit \notin {"own", "joined"}
      <3>1. g = h
        BY <2>3
      <3> HIDE DEF g, goes
      <3> QED
        BY <1>2, <2>3, <3>1 DEF Form
    <2> QED
      BY <2>1, <2>2, <2>3
  <1> HIDE DEF g, d
  <1>7. CallsOK(d)
    <2>1. goes => CallOK("publish", c)
      BY <1>3, <1>4 DEF CallOK, Fits, Addressed, Answered
    <2> HIDE DEF goes
    <2> QED
      BY <1>0, <1>5, <2>1 DEF CallsOK
  <1>8. TabTakes(t, g, d)
    BY <1>0, <1>1 DEF TabTakes, Heard
  <1>9. Base'
    BY <1>5, <1>6, <1>7, <1>8, TabBase
  <1>10. ASSUME Kept, Remembers, HeardKept(t, "save", rep) PROVE Kept'
    <2>0. /\ TabKept(t, form[t], call[t], blind, joined) /\ joined \subseteq joined'
          /\ call[t]["save"] # NoCall
      BY <1>10 DEF Kept, Remembers, Heard
    <2>1. /\ FormKept(t, form[t], call[t], blind, joined)
          /\ BirthKept(t, form[t], call[t])
          /\ RequestKept(t, form[t], call[t]["save"].req, joined)
          /\ CallOK("save", call[t]["save"])
      BY <1>0, <2>0 DEF TabKept, CallsOK
    <2>2. n \in form[t].shown
      BY <2>1 DEF RequestKept, CallOK, Fits
    <2>3. rep.result = "ok" => rep.content = n /\ Holds(h.id, h.version, {n})
      BY <1>2, <1>10 DEF HeardKept
    <2>4. h.id # NoId => Holds(h.id, h.version, h.shown)
      BY <1>2, <2>1, <2>2, <2>3 DEF FormKept, Holds
    <2>5. ~h.unsaved => Holds(h.id, h.version, {h.values})
      BY <1>2, <2>3
    <2>6. FormKept(t, g, d, blind', joined')
      BY <1>2, <1>6, <2>1, <2>4, <2>5 DEF FormKept
    <2>7. Born(t) => h.id # NoId
      <3>1. CASE rep.result = "ok"
        BY <1>2, <3>1, DraftsAssumption DEF Heard
      <3>2. CASE rep.result # "ok"
        BY <1>2, <1>10, <3>2 DEF HeardKept
      <3> QED
        BY <3>1, <3>2
    <2>8. BirthKept(t, g, d)
      BY <1>5, <1>6, <2>7 DEF BirthKept
    <2>9. goes => RequestKept(t, g, c.req, joined')
      <3>1. ASSUME goes, t \notin joined' PROVE Holds(h.id, h.version, h.submitted)
        <4>1. h.submit = "own" /\ rep.result = "ok"
          BY <1>2, <2>0, <2>1, <3>1 DEF FormKept
        <4>2. n \in h.submitted
          BY <1>2, <2>1, <4>1 DEF FormKept
        <4> QED
          BY <2>3, <4>1, <4>2 DEF Holds
      <3>2. goes => h.id # NoId
        BY <1>3, DraftsAssumption
      <3> HIDE DEF goes
      <3> QED
        BY <1>4, <1>6, <2>4, <3>1, <3>2 DEF RequestKept
    <2>10. \A slot \in Slots : call[t][slot] # NoCall =>
             RequestKept(t, g, call[t][slot].req, joined') /\ ReplyKept(slot, call[t][slot])
      BY <1>2, <1>6, <2>0, RequestStays DEF TabKept
    <2>11. ReplyKept("publish", c)
      BY <1>4 DEF ReplyKept, Answered
    <2> HIDE DEF goes
    <2>12. TabKept(t, g, d, blind', joined')
      <3>1. ASSUME NEW slot \in Slots, d[slot] # NoCall
            PROVE  RequestKept(t, g, d[slot].req, joined') /\ ReplyKept(slot, d[slot])
        <4>1. CASE slot = "publish" /\ goes
          BY <1>5, <2>9, <2>11, <4>1
        <4>2. CASE slot # "save" /\ ~(slot = "publish" /\ goes)
          <5>1. d[slot] = call[t][slot]
            BY <1>5, <4>2
          <5> QED
            BY <2>10, <3>1, <5>1
        <4> QED
          BY <1>5, <3>1, <4>1, <4>2
      <3> QED
        BY <1>6, <2>6, <2>8, <3>1 DEF TabKept
    <2>13. LateJoins(t, g)
      <3>1. form'[t] = g
        BY <1>0, <1>1
      <3> QED
        BY <1>2, <1>6, <1>10, <2>0, <3>1, RequestStays DEF HeardKept, LateJoins
    <2>14. form[t].page # "left"
      OBVIOUS
    <2> QED
      BY <1>2, <1>5, <1>6, <1>8, <1>10, <2>12, <2>13, <2>14, TabKeeps
  <1> QED
    BY <1>9, <1>10

LEMMA LoadSettled ==
    ASSUME Base, NEW t \in Tabs, NEW rep, form[t].page = "open",
           Heard(t, "load", rep), LoadSettles(t, rep)
    PROVE  Base' /\ (Kept /\ Remembers /\ HeardKept(t, "load", rep) => Kept')
  <1> DEFINE taken == [form[t] EXCEPT !.id = rep.id, !.version = rep.version,
                                      !.values = rep.content,
                                      !.shown = @ \cup {rep.content},
                                      !.unsaved = FALSE, !.state = "saved"]
             g == CASE rep.result = "ok" -> taken
                    [] rep.result # "ok" /\ call[t]["load"].reply # NoReply -> form[t]
                    [] OTHER -> [form[t] EXCEPT !.state = "error"]
             d == [call[t] EXCEPT !["load"] = NoCall]
  <1>0. /\ TypeOK /\ form[t] \in Form /\ call[t] \in Calls /\ CallsOK(call[t])
        /\ form \in [Tabs -> Form] /\ call \in [Tabs -> Calls]
        /\ row' = row /\ acts' \in 0..MaxActs
        /\ "load" \in Slots /\ "save" \in Slots /\ "load" # "save"
        /\ rep \in Reply
    BY TabFacts DEF Heard, TypeOK, Calls, Slots
  <1>1. form' = [form EXCEPT ![t] = g] /\ call' = [call EXCEPT ![t] = d]
    BY <1>0 DEF LoadSettles
  <1>2. /\ g \in Form /\ g.page = "open"
        /\ g.submit = form[t].submit /\ g.submitted = form[t].submitted
        /\ rep.result = "ok" =>
              /\ g.id = rep.id /\ g.version = rep.version /\ g.values = rep.content
              /\ g.shown = form[t].shown \cup {rep.content}
        /\ rep.result # "ok" =>
              /\ g.id = form[t].id /\ g.version = form[t].version
              /\ g.values = form[t].values /\ g.shown = form[t].shown
              /\ g.unsaved = form[t].unsaved
    <2>1. CASE rep.result = "ok"
      <3>1. g = taken
        BY <2>1
      <3>2. /\ rep.id \in Ids \cup {NoId} /\ rep.version \in Nat /\ rep.content \in Nat
        BY <1>0 DEF Reply
      <3> HIDE DEF g
      <3> QED
        BY <1>0, <2>1, <3>1, <3>2 DEF Form
    <2>2. CASE rep.result # "ok" /\ call[t]["load"].reply # NoReply
      BY <1>0, <2>2
    <2>3. CASE rep.result # "ok" /\ call[t]["load"].reply = NoReply
      <3>1. g = [form[t] EXCEPT !.state = "error"]
        BY <2>3
      <3> HIDE DEF g
      <3> QED
        BY <1>0, <2>3, <3>1 DEF Form
    <2> QED
      BY <2>1, <2>2, <2>3
  <1>3. /\ d \in Calls /\ d["load"] = NoCall
        /\ \A slot \in Slots : slot # "load" => d[slot] = call[t][slot]
    BY <1>0 DEF Calls
  <1> HIDE DEF g, d
  <1>4. CallsOK(d)
    BY <1>0, <1>3 DEF CallsOK
  <1>5. TabTakes(t, g, d)
    BY <1>0, <1>1 DEF TabTakes, Heard
  <1>6. Base'
    BY <1>2, <1>3, <1>4, <1>5, TabBase
  <1>7. ASSUME Kept, Remembers, HeardKept(t, "load", rep) PROVE Kept'
    <2>0. /\ TabKept(t, form[t], call[t], blind, joined) /\ joined \subseteq joined'
          /\ blind \subseteq blind' /\ form'[t] = g
      BY <1>0, <1>1, <1>7 DEF Kept, Remembers
    <2>1. /\ FormKept(t, form[t], call[t], blind, joined)
          /\ BirthKept(t, form[t], call[t])
      BY <2>0 DEF TabKept
    <2>2. form[t].shown \subseteq g.shown /\ d["save"] = call[t]["save"]
      BY <1>0, <1>2, <1>3
    <2>3. rep.result = "ok" => Holds(g.id, g.version, {g.values}) /\ g.values \in g.shown
      BY <1>2, <1>7 DEF HeardKept
    <2>4. g.submit = "joined" => t \in joined'
      BY <1>7, <2>0 DEF Remembers
    <2>5. FormKept(t, g, d, blind', joined')
      <3>1. CASE rep.result = "ok"
        BY <1>2, <2>1, <2>2, <2>3, <2>4, <3>1 DEF FormKept, Holds
      <3>2. CASE rep.result # "ok"
        BY <1>2, <2>0, <2>1, <2>2, <2>4, <3>2 DEF FormKept
      <3> QED
        BY <3>1, <3>2
    <2>6. BirthKept(t, g, d)
      <3>1. CASE rep.result = "ok"
        <4>1. g.id # NoId
          BY <1>2, <3>1, DraftsAssumption DEF Heard
        <4> QED
          BY <1>2, <2>1, <2>2, <4>1 DEF BirthKept
      <3>2. CASE rep.result # "ok"
        BY <1>2, <2>1, <2>2, <3>2 DEF BirthKept
      <3> QED
        BY <3>1, <3>2
    <2>7. \A slot \in Slots : d[slot] # NoCall =>
             RequestKept(t, g, d[slot].req, joined') /\ ReplyKept(slot, d[slot])
      BY <1>2, <1>3, <2>0, <2>2, RequestStays DEF TabKept
    <2>8. TabKept(t, g, d, blind', joined')
      BY <1>2, <2>5, <2>6, <2>7 DEF TabKept
    <2>9. LateJoins(t, g)
      BY <1>2, <1>7, <2>0, <2>2, RequestStays DEF HeardKept, LateJoins
    <2>10. form[t].page # "left"
      OBVIOUS
    <2> QED
      BY <1>2, <1>3, <1>5, <1>7, <2>2, <2>8, <2>9, <2>10, TabKeeps
  <1> QED
    BY <1>6, <1>7

(* The tab gives up its submission, or everything as it leaves.            *)
LEMMA EndSteps ==
    ASSUME Base, NEW t \in Tabs, NEW g \in Form, NEW d \in Calls, TabTakes(t, g, d),
           form[t].page = "open",
           g.values = form[t].values, g.shown = form[t].shown, g.id = form[t].id,
           g.version = form[t].version, g.submitted = form[t].submitted,
           g.submit = "no",
           \/ g.page = "open" /\ g.unsaved = form[t].unsaved
           \/ g.page = "left" /\ \A slot \in Slots : d[slot] = NoCall,
           \A slot \in Slots : d[slot] = call[t][slot]
                                  \/ (d[slot] = NoCall /\ (slot # "save" \/ g.page = "left"))
    PROVE  /\ Base'
           /\ Kept /\ Remembers
              /\ (\A m \in late' \ late : /\ RequestKept(t, form[t], m.req, joined)
                                          /\ m.req.op = "create" => g.page = "left")
              => Kept'
  <1>0. CallsOK(call[t]) /\ "save" \in Slots
    BY TabFacts DEF Slots
  <1>1. CallsOK(d)
    BY <1>0 DEF CallsOK
  <1>2. Base'
    BY <1>1, TabBase
  <1>3. ASSUME Kept, Remembers,
               \A m \in late' \ late : /\ RequestKept(t, form[t], m.req, joined)
                                       /\ m.req.op = "create" => g.page = "left"
        PROVE  Kept'
    <2>0. /\ TabKept(t, form[t], call[t], blind, joined) /\ joined \subseteq joined'
          /\ blind \subseteq blind'
      BY <1>3 DEF Kept, Remembers
    <2>1. FormKept(t, g, d, blind', joined')
      BY <2>0 DEF TabKept, FormKept
    <2>2. BirthKept(t, g, d)
      <3>1. CASE g.page = "left"
        BY <1>0, <3>1 DEF BirthKept
      <3>2. CASE g.page = "open"
        <4>1. d["save"] = call[t]["save"]
          BY <1>0, <3>2
        <4> QED
          BY <2>0, <3>2, <4>1 DEF TabKept, BirthKept
      <3> QED
        BY <3>1, <3>2
    <2>3. \A slot \in Slots : d[slot] # NoCall =>
             /\ g.page = "open"
             /\ RequestKept(t, g, d[slot].req, joined') /\ ReplyKept(slot, d[slot])
      BY <2>0, RequestStays DEF TabKept
    <2>4. TabKept(t, g, d, blind', joined')
      BY <2>1, <2>2, <2>3 DEF TabKept
    <2>5. LateJoins(t, g)
      BY <1>3, <2>0, RequestStays DEF LateJoins
    <2>6. form[t].page # "left"
      OBVIOUS
    <2> QED
      BY <1>3, <2>4, <2>5, <2>6, TabKeeps
  <1> QED
    BY <1>2, <1>3

NoCalls == [slot \in Slots |-> NoCall]

LEMMA PublishSettled ==
    ASSUME Base, NEW t \in Tabs, NEW rep, form[t].page = "open",
           Heard(t, "publish", rep), PublishSettles(t, rep)
    PROVE  /\ Base'
           /\ Kept /\ Remembers /\ HeardKept(t, "publish", rep) => Kept'
           /\ rep.result = "ok" <=> form'[t].page = "left"
  <1>0. /\ form[t] \in Form /\ call[t] \in Calls
        /\ form \in [Tabs -> Form] /\ call \in [Tabs -> Calls]
        /\ row' = row /\ acts' \in 0..MaxActs
        /\ "publish" \in Slots /\ "save" \in Slots /\ "publish" # "save"
    BY TabFacts DEF Heard, Base, TypeOK, Calls, Slots
  <1>1. CASE rep.result = "ok"
    <2> DEFINE g == [form[t] EXCEPT !.page = "left", !.unsaved = FALSE,
                                    !.timer = FALSE, !.submit = "no"]
    <2>1. /\ g \in Form /\ g.page = "left" /\ g.submit = "no"
          /\ g.values = form[t].values /\ g.shown = form[t].shown /\ g.id = form[t].id
          /\ g.version = form[t].version /\ g.submitted = form[t].submitted
      BY <1>0 DEF Form
    <2>2. form' = [form EXCEPT ![t] = g] /\ call' = [call EXCEPT ![t] = NoCalls]
      BY <1>0, <1>1 DEF PublishSettles, NoCalls
    <2>3. NoCalls \in Calls /\ \A slot \in Slots : NoCalls[slot] = NoCall
      BY DEF NoCalls, Calls
    <2> HIDE DEF g
    <2>4. TabTakes(t, g, NoCalls) /\ form'[t].page = "left"
      BY <1>0, <2>1, <2>2 DEF TabTakes, Heard
    <2> QED
      BY <1>1, <2>1, <2>2, <2>3, <2>4, EndSteps DEF HeardKept
  <1>2. CASE rep.result # "ok"
    <2> DEFINE g == [form[t] EXCEPT !.submit = "no"]
               d == [call[t] EXCEPT !["publish"] = NoCall]
    <2>1. /\ g \in Form /\ g.page = "open" /\ g.submit = "no"
          /\ g.unsaved = form[t].unsaved
          /\ g.values = form[t].values /\ g.shown = form[t].shown /\ g.id = form[t].id
          /\ g.version = form[t].version /\ g.submitted = form[t].submitted
      BY <1>0 DEF Form
    <2>2. form' = [form EXCEPT ![t] = g] /\ call' = [call EXCEPT ![t] = d]
      BY <1>0, <1>2 DEF PublishSettles
    <2>3. d \in Calls /\ \A slot \in Slots : d[slot] = call[t][slot]
                                                \/ (d[slot] = NoCall /\ slot # "save")
      BY <1>0 DEF Calls
    <2> HIDE DEF g, d
    <2>4. TabTakes(t, g, d) /\ form'[t] = g
      BY <1>0, <2>1, <2>2 DEF TabTakes, Heard
    <2> QED
      BY <1>2, <2>1, <2>2, <2>3, <2>4, EndSteps DEF HeardKept
  <1> QED
    BY <1>1, <1>2

LEMMA OrphansFacts ==
    ASSUME Base, NEW t \in Tabs, form[t].page = "open", NEW m \in Orphans(t)
    PROVE  /\ m \in [tab : Tabs, req : Request] /\ m.tab = t /\ Addressed(m.req)
           /\ Kept => RequestKept(t, form[t], m.req, joined)
  <1> PICK slot \in Slots : /\ call[t][slot] # NoCall
                            /\ m = [tab |-> t, req |-> call[t][slot].req]
    BY DEF Orphans
  <1>1. call[t][slot] \in Call /\ CallOK(slot, call[t][slot])
    BY TabFacts
  <1> QED
    BY <1>1 DEF Call, CallOK, Kept, TabKept

LEMMA LeaveSteps ==
    ASSUME Base, NEW t \in Tabs, Leave(t)
    PROVE  Base' /\ (Kept /\ Remembers => Kept')
  <1> DEFINE g == [form[t] EXCEPT !.page = "left", !.timer = FALSE, !.submit = "no"]
  <1>0. /\ form[t] \in Form /\ call[t] \in Calls
        /\ form \in [Tabs -> Form] /\ call \in [Tabs -> Calls]
        /\ late \subseteq [tab : Tabs, req : Request]
        /\ row' = row /\ acts' \in 0..MaxActs /\ form[t].page = "open"
        /\ late' = late \cup Orphans(t)
    BY TabFacts DEF Leave, Base, TypeOK, Calls, IsOpen
  <1>1. /\ g \in Form /\ g.page = "left" /\ g.submit = "no"
        /\ g.values = form[t].values /\ g.shown = form[t].shown /\ g.id = form[t].id
        /\ g.version = form[t].version /\ g.submitted = form[t].submitted
    BY <1>0 DEF Form
  <1>2. form' = [form EXCEPT ![t] = g] /\ call' = [call EXCEPT ![t] = NoCalls]
    BY <1>0 DEF Leave, NoCalls
  <1>3. NoCalls \in Calls /\ \A slot \in Slots : NoCalls[slot] = NoCall
    BY DEF NoCalls, Calls
  <1> HIDE DEF g
  <1>4. TabTakes(t, g, NoCalls)
    BY <1>0, <1>2, OrphansFacts DEF TabTakes
  <1>5. \A m \in late' \ late : Kept => RequestKept(t, form[t], m.req, joined)
    BY <1>0, OrphansFacts
  <1> QED
    BY <1>0, <1>1, <1>3, <1>4, <1>5, EndSteps

LEMMA Settled ==
    ASSUME Base, NEW t \in Tabs, NEW slot \in Slots, NEW rep, form[t].page = "open",
           Heard(t, slot, rep), Settles(t, slot, rep)
    PROVE  Base' /\ (Kept /\ Remembers /\ HeardKept(t, slot, rep) => Kept')
  <1>1. CASE slot = "save"
    BY <1>1, SaveSettled DEF Settles
  <1>2. CASE slot = "load"
    BY <1>2, LoadSettled DEF Settles
  <1>3. CASE slot = "publish"
    BY <1>3, PublishSettled DEF Settles
  <1> QED
    BY <1>1, <1>2, <1>3 DEF Slots

LEMMA DeliverSteps ==
    ASSUME Base, NEW t \in Tabs, NEW slot \in Slots, Deliver(t, slot)
    PROVE  Base' /\ (Kept /\ Remembers => Kept')
  <1> PICK rep : rep = call[t][slot].reply OBVIOUS
  <1>0. /\ late \subseteq [tab : Tabs, req : Request]
        /\ form[t].page = "open" /\ call[t][slot] # NoCall /\ rep # NoReply
        /\ Settles(t, slot, rep) /\ row' = row /\ acts' = acts
        /\ call[t][slot] \in Call /\ CallOK(slot, call[t][slot])
        /\ \A m \in late' \ late : m \in Orphans(t) /\ form'[t].page = "left"
    BY TabFacts DEF Deliver, IsOpen, Settles
  <1>1. \A m \in late' \ late :
           /\ m \in [tab : Tabs, req : Request] /\ m.tab = t /\ Addressed(m.req)
           /\ Kept => RequestKept(t, form[t], m.req, joined)
    BY <1>0, OrphansFacts
  <1>2. rep \in Reply /\ (rep.result = "ok" => rep.id \in Ids)
    BY <1>0 DEF Call, CallOK, Answered
  <1>3. Heard(t, slot, rep)
    BY <1>0, <1>1, <1>2 DEF Heard
  <1>4. Kept => HeardKept(t, slot, rep)
    <2> SUFFICES ASSUME Kept PROVE HeardKept(t, slot, rep)
      OBVIOUS
    <2>1. ReplyKept(slot, call[t][slot]) /\ BirthKept(t, form[t], call[t])
      BY <1>0 DEF Kept, TabKept
    <2>2. rep.result = "ok" => /\ Holds(rep.id, rep.version, {rep.content})
                               /\ slot = "save" => rep.content = call[t][slot].req.content
      BY <1>0, <2>1 DEF ReplyKept, Answered
    <2>3. slot = "save" /\ rep.result # "ok" /\ Born(t) => form[t].id # NoId
      BY <1>0, <2>1 DEF BirthKept, Answered
    <2> QED
      BY <1>0, <1>1, <2>2, <2>3 DEF HeardKept
  <1> QED
    BY <1>0, <1>3, <1>4, Settled

(* Here alone it matters that the answer of a creation is not lost.        *)
LEMMA CallFailsSteps ==
    ASSUME Base, NEW t \in Tabs, NEW slot \in Slots, CallFails(t, slot)
    PROVE  Base' /\ (Kept /\ Remembers /\ "create" \notin Unreliable => Kept')
  <1> PICK c : c = call[t][slot] OBVIOUS
  <1>0. /\ late \subseteq [tab : Tabs, req : Request]
        /\ form[t].page = "open" /\ c # NoCall
        /\ c.reply # NoReply => c.req.op \in Unreliable
        /\ Settles(t, slot, Failed) /\ row' = row /\ acts' = acts
        /\ c \in Call /\ CallOK(slot, c)
        /\ \A m \in late' \ late : m = [tab |-> t, req |-> c.req] /\ c.req.op \in Unreliable
    BY TabFacts DEF CallFails, IsOpen, Settles
  <1>1. Failed \in Reply /\ Failed.result = "failed"
    BY DEF Failed, Reply
  <1>2. Heard(t, slot, Failed)
    BY <1>0, <1>1 DEF Heard, Call, CallOK
  <1>3. Kept /\ "create" \notin Unreliable => HeardKept(t, slot, Failed)
    <2> SUFFICES ASSUME Kept, "create" \notin Unreliable PROVE HeardKept(t, slot, Failed)
      OBVIOUS
    <2>1. RequestKept(t, form[t], c.req, joined) /\ BirthKept(t, form[t], call[t])
      BY <1>0 DEF Kept, TabKept
    <2>2. slot = "save" /\ Born(t) => form[t].id # NoId
      BY <1>0, <2>1 DEF BirthKept, Answered
    <2> QED
      BY <1>0, <1>1, <2>1, <2>2 DEF HeardKept
  <1> QED
    BY <1>0, <1>2, <1>3, Settled

-----------------------------------------------------------------------------
LEMMA InitBase == Init => Base
  <1> SUFFICES ASSUME Init PROVE Base
    OBVIOUS
  <1>1. /\ row \in [Ids -> Row] /\ \A i \in Ids : row[i].status = "none"
    BY DEF Init, Row
  <1>2. form \in [Tabs -> Form]
    BY DEF Init, Form
  <1>3. /\ call \in [Tabs -> [Slots -> Call \cup {NoCall}]]
        /\ \A t \in Tabs, slot \in Slots : call[t][slot] = NoCall
    BY DEF Init
  <1>4. late = {} /\ acts \in 0..MaxActs
    BY DraftsAssumption DEF Init
  <1> QED
    BY <1>1, <1>2, <1>3, <1>4 DEF Base, TypeOK, OneListingPerClient, CallsOK

LEMMA InitKept == MCInit => Kept
  <1> SUFFICES ASSUME MCInit PROVE Kept
    OBVIOUS
  <1>1. /\ row \in [Ids -> Row]
        /\ \A i \in Ids : /\ row[i].status = "none" /\ row[i].client = NoTab
                          /\ row[i].version = 0
    BY DEF MCInit, Init, Row
  <1>2. \A t \in Tabs : /\ form[t].page = "unopened" /\ form[t].values = 0
                        /\ form[t].shown = {0} /\ form[t].id = NoId
                        /\ form[t].submit = "no"
    BY DEF MCInit, Init
  <1>3. \A t \in Tabs, slot \in Slots : call[t][slot] = NoCall
    BY DEF MCInit, Init
  <1>4. late = {}
    BY DEF MCInit, Init
  <1>5. ASSUME NEW t \in Tabs PROVE TabKept(t, form[t], call[t], blind, joined)
    <2>1. ~Born(t)
      BY <1>1, DraftsAssumption DEF Born
    <2>2. call[t]["save"] = NoCall
      BY <1>3 DEF Slots
    <2> QED
      BY <1>2, <1>3, <2>1, <2>2 DEF TabKept, FormKept, BirthKept
  <1> QED
    BY <1>1, <1>4, <1>5 DEF Kept

(* Every step keeps the invariants; the server's steps mind what the forms *)
(* have held.                                                              *)
LEMMA NextSteps ==
    ASSUME Base, Next
    PROVE  /\ Base'
           /\ Kept /\ Remembers /\ "create" \notin Unreliable => Kept' /\ Minds
  <1>0. row' = row => Minds
    BY DEF Minds
  <1>1. ASSUME NEW t \in Tabs, Seller(t) \/ TimerFires(t)
        PROVE  /\ Base' /\ (Kept /\ Remembers => Kept') /\ row' = row
    <2>1. CASE Open(t)
      BY <2>1, OpenSteps DEF Open
    <2>2. CASE Edit(t)
      BY <2>2, EditSteps DEF Edit
    <2>3. CASE SaveNow(t)
      BY <2>3, SaveNowSteps DEF SaveNow, PersistDraft
    <2>4. CASE Submit(t)
      BY <2>4, SubmitSteps DEF Submit, PersistDraft
    <2>5. CASE Reload(t)
      BY <2>5, ReloadSteps DEF Reload
    <2>6. CASE Refresh(t)
      BY <2>6, RefreshSteps DEF Refresh
    <2>7. CASE GoOffline(t)
      BY <2>7, GoOfflineSteps DEF GoOffline
    <2>8. CASE GoOnline(t)
      BY <2>8, GoOnlineSteps DEF GoOnline, PersistDraft
    <2>9. CASE Leave(t)
      BY <2>9, LeaveSteps DEF Leave
    <2>10. CASE TimerFires(t)
      BY <2>10, TimerSteps DEF TimerFires, PersistDraft
    <2> QED
      BY <1>1, <2>1, <2>2, <2>3, <2>4, <2>5, <2>6, <2>7, <2>8, <2>9, <2>10 DEF Seller
  <1>2. ASSUME NEW t \in Tabs, NEW slot \in Slots, Deliver(t, slot)
        PROVE  /\ Base' /\ (Kept /\ Remembers => Kept') /\ row' = row
    BY <1>2, DeliverSteps DEF Deliver, Settles
  <1>3. ASSUME NEW t \in Tabs, NEW slot \in Slots, CallFails(t, slot)
        PROVE  /\ Base' /\ (Kept /\ Remembers /\ "create" \notin Unreliable => Kept')
               /\ row' = row
    BY <1>3, CallFailsSteps DEF CallFails, Settles
  <1>4. \/ \E t \in Tabs : Seller(t) \/ TimerFires(t)
        \/ \E t \in Tabs, slot \in Slots : Serve(t, slot)
        \/ \E t \in Tabs, slot \in Slots : Deliver(t, slot)
        \/ \E t \in Tabs, slot \in Slots : CallFails(t, slot)
        \/ \E m \in late : ServeLate(m)
        \/ \E i \in Ids : Delete(i)
    BY DEF Next
  <1> QED
    BY <1>0, <1>1, <1>2, <1>3, <1>4, ServeSteps, ServeLateSteps, DeleteSteps

LEMMA StutterBase == Base /\ UNCHANGED vars => Base'
  BY DEF Base, TypeOK, OneListingPerClient, vars, CallsOK, CallOK, Answered, Fits, Addressed

LEMMA StutterKept ==
    ASSUME Kept, UNCHANGED MCVars
    PROVE  Kept'
  <1>0. /\ row' = row /\ form' = form /\ call' = call /\ late' = late
        /\ blind' = blind /\ joined' = joined
    BY DEF MCVars, vars
  <1>1. ASSUME NEW t \in Tabs PROVE TabKept(t, form[t], call[t], blind, joined)'
    <2> PICK f, c, b, j : f = form[t] /\ c = call[t] /\ b = blind /\ j = joined
      OBVIOUS
    <2>1. TabKept(t, f, c, b, j)'
      BY <1>0, SameRows DEF Kept
    <2> QED
      BY <1>0, <2>1, ZenonT(60)
         DEF TabKept, RequestKept, ReplyKept, FormKept, BirthKept, Holds, Born, Answered
  <1>2. ASSUME NEW m \in late' PROVE LateKept(m)'
    <2> PICK f, j : f = form[m.tab] /\ j = joined
      OBVIOUS
    <2>1. RequestKept(m.tab, f, m.req, j)'
      BY <1>0, SameRows DEF Kept, LateKept
    <2> QED
      BY <1>0, <2>1 DEF Kept, LateKept, RequestKept, Holds
  <1> QED
    BY <1>0, <1>1, <1>2 DEF Kept

(* Rows, forms, calls and requests hold the values the code can give them. *)
THEOREM TypeCorrect == Spec => []TypeOK
  <1>1. Base /\ [Next]_vars => Base'
    BY NextSteps, StutterBase
  <1>2. Base => TypeOK
    BY DEF Base
  <1> QED
    BY InitBase, <1>1, <1>2, PTL DEF Spec

(* docs/listing-drafts.md: "A published draft keeps its client id so a     *)
(* delayed create retry cannot create a second listing": whichever answers *)
(* are lost, and however late the server runs the calls that a tab has     *)
(* given up (create_draft, src/backend/app/api/v1/listings.py), the rows   *)
(* of a client id that are not deleted are at most one.                    *)
THEOREM OneListing == Spec => []OneListingPerClient
  <1>1. Base /\ [Next]_vars => Base'
    BY NextSteps, StutterBase
  <1>2. Base => OneListingPerClient
    BY DEF Base
  <1> QED
    BY InitBase, <1>1, <1>2, PTL DEF Spec

LEMMA Histories == MCNext => Remembers
  BY DEF MCNext, Remembers

LEMMA Invariants ==
    ASSUME "create" \notin Unreliable
    PROVE  MCSpec => [](Base /\ Kept)
  <1>1. MCInit => Base /\ Kept
    BY InitBase, InitKept DEF MCInit
  <1>2. Base /\ Kept /\ [MCNext]_MCVars => (Base /\ Kept)'
    <2>1. Base /\ Kept /\ MCNext => (Base /\ Kept)'
      BY NextSteps, Histories DEF MCNext
    <2>2. Base /\ Kept /\ UNCHANGED MCVars => (Base /\ Kept)'
      BY StutterBase, StutterKept DEF MCVars
    <2> QED
      BY <2>1, <2>2
  <1> QED
    BY <1>1, <1>2, PTL DEF MCSpec

(* While no answer to a creation is lost, whoever stores or publishes a    *)
(* draft has had the content it replaces in its own form, in any number of *)
(* tabs and with any other answers lost or late (the version compared      *)
(* under the row's lock, and the version a tab learns with the content).   *)
THEOREM NothingUnseen ==
    ASSUME "create" \notin Unreliable
    PROVE  MCSpec => NoUnseenOverwrite
  <1>1. Base /\ Kept /\ [MCNext]_MCVars =>
          [\A i \in Ids : row[i].status = "draft" /\ row[i].version' # row[i].version
                             => row[i].content \in form[row'[i].by].shown]_vars
    <2> SUFFICES ASSUME Base, Kept, MCNext, NEW i \in Ids, row[i].status = "draft",
                        row[i].version' # row[i].version
                 PROVE  row[i].content \in form[row'[i].by].shown
      BY DEF MCVars, vars
    <2>1. Minds
      BY NextSteps, Histories DEF MCNext
    <2> QED
      BY <2>1 DEF Minds
  <1> QED
    BY <1>1, Invariants, PTL DEF NoUnseenOverwrite, MCSpec

(* While no answer to a creation is lost, a form whose change handler has  *)
(* seen every edit, that shows no unsaved edits and is at the server's     *)
(* version, shows what the server holds (CreateListingForm.tsx,            *)
(* persistDraft): no order of edits, saves, repeated saves, loads, reloads *)
(* and failures makes it say "saved" of what was not stored.               *)
THEOREM SavedIsTrue ==
    ASSUME "create" \notin Unreliable
    PROVE  MCSpec => []SavedUnlessBlind
  <1>1. Base /\ Kept => SavedUnlessBlind
    <2> SUFFICES ASSUME Base, Kept, NEW t \in Tabs \ blind PROVE ShowsStored(t)
      BY DEF SavedUnlessBlind
    <2>1. FormKept(t, form[t], call[t], blind, joined)
      BY DEF Kept, TabKept
    <2> QED
      BY <2>1 DEF ShowsStored, IsOpen, FormKept, Holds
  <1> QED
    BY <1>1, Invariants, PTL

(* While no answer to a creation is lost, a draft is published with what   *)
(* its form held when the seller submitted it, unless a submission of the  *)
(* tab has joined a save already under way (CreateListingForm.tsx:358).    *)
THEOREM PublishedIsSubmitted ==
    ASSUME "create" \notin Unreliable
    PROVE  MCSpec => SubmittedUnlessJoined
  <1>1. Base /\ Kept /\ [MCNext]_MCVars =>
          [\A i \in Ids : row'[i].by \notin joined => PublishesSubmitted(i)]_MCVars
    <2> SUFFICES ASSUME Base, Kept, MCNext, NEW i \in Ids, row'[i].by \notin joined
                 PROVE  PublishesSubmitted(i)
      OBVIOUS
    <2>1. Minds
      BY NextSteps, Histories DEF MCNext
    <2> QED
      BY <2>1 DEF Minds, PublishesSubmitted
  <1> QED
    BY <1>1, Invariants, PTL DEF SubmittedUnlessJoined, MCSpec

-----------------------------------------------------------------------------
(* A form f with unsaved edits has a timer, a save among the calls c, or   *)
(* shows why not.  Only a refresh that drops a timer excuses a tab, until  *)
(* it is not quiet any more; and a form not opened yet has no edits.       *)
Reasons == {"offline", "conflict", "error"}

Awake(f, c) ==
    f.page = "open" /\ f.unsaved => f.timer \/ c["save"] # NoCall \/ f.state \in Reasons

Excused(t) == t \in silenced \/ (Refresh(t) /\ form[t].timer)

Silences == \A t \in Tabs : Excused(t) /\ Quiet(t)' => t \in silenced'

Alert == \A t \in Tabs : /\ t \in silenced \/ Awake(form[t], call[t])
                         /\ form[t].page = "unopened" => ~form[t].unsaved

LEMMA TabAwake ==
    ASSUME Base, Alert, Silences, NEW t \in Tabs, NEW g, NEW d,
           Excused(t) \/ Awake(g, d), g.page = "unopened" => ~g.unsaved,
           form' = [form EXCEPT ![t] = g], call' = [call EXCEPT ![t] = d]
    PROVE  Alert'
  <1>0. form \in [Tabs -> Form] /\ call \in [Tabs -> Calls]
    BY DEF Base, TypeOK, Calls
  <1>1. ASSUME NEW u \in Tabs, Excused(u) \/ Awake(form'[u], call'[u])
        PROVE  u \in silenced' \/ Awake(form'[u], call'[u])
    <2>1. Quiet(u)' <=> ~Awake(form'[u], call'[u])
      BY DEF Quiet, Awake, IsOpen, Saving, Reasons
    <2> QED
      BY <1>1, <2>1 DEF Silences
  <1>2. ASSUME NEW u \in Tabs, u # t
        PROVE  /\ form'[u] = form[u] /\ call'[u] = call[u]
               /\ Excused(u) \/ Awake(form'[u], call'[u])
    BY <1>0, <1>2 DEF Alert, Excused
  <1>3. form'[t] = g /\ call'[t] = d
    BY <1>0
  <1>4. ASSUME NEW u \in Tabs
        PROVE  /\ u \in silenced' \/ Awake(form'[u], call'[u])
               /\ form'[u].page = "unopened" => ~form'[u].unsaved
    BY <1>1, <1>2, <1>3 DEF Alert
  <1> QED
    BY <1>4 DEF Alert, Awake

(* persistDraft repeats a save under way, begins one, or tells that there  *)
(* is no network (CreateListingForm.tsx:340-391).                          *)
LEMMA PersistAwake ==
    ASSUME Base, Alert, Silences, NEW t \in Tabs, NEW f \in Form, NEW force \in BOOLEAN,
           PersistDraft(t, f, force), f.page = "open"
    PROVE  Alert'
  <1>0. call[t] \in Calls /\ call \in [Tabs -> Calls] /\ "save" \in Slots
    BY DEF Base, TypeOK, Calls, Slots
  <1> DEFINE g == [f EXCEPT !.timer = FALSE]
             now == call[t]["save"]
             With(c) == [call[t] EXCEPT !["save"] = c]
             Moves(h, c) == form' = [form EXCEPT ![t] = h] /\ call' = [call EXCEPT ![t]["save"] = c]
  <1>1. \A c : /\ [call EXCEPT ![t]["save"] = c] = [call EXCEPT ![t] = With(c)]
               /\ With(c)["save"] = c
    BY <1>0 DEF Calls
  <1> HIDE DEF With
  <1>2. ASSUME NEW h, NEW c, Moves(h, c), Awake(h, With(c)), h.page = "open"
        PROVE  Alert'
    BY <1>1, <1>2, TabAwake
  <1>3. CASE ~force /\ ~f.unsaved
    <2>1. Moves(g, now)
      BY <1>3 DEF PersistDraft
    <2>2. g.page = "open" /\ ~g.unsaved
      BY <1>3 DEF Form
    <2> HIDE DEF g
    <2> QED
      BY <1>2, <2>1, <2>2 DEF Awake
  <1>4. CASE ~(~force /\ ~f.unsaved) /\ ~f.online
    <2> DEFINE h == [g EXCEPT !.state = "offline", !.unsaved = TRUE]
    <2>1. Moves(h, now)
      BY <1>4 DEF PersistDraft
    <2>2. h.page = "open" /\ h.state \in Reasons
      BY DEF Form, Reasons
    <2> HIDE DEF h
    <2> QED
      BY <1>2, <2>1, <2>2 DEF Awake
  <1>5. CASE ~(~force /\ ~f.unsaved) /\ f.online /\ Saving(t)
    <2> DEFINE h == [g EXCEPT !.pending = TRUE]
    <2>1. Moves(h, now)
      BY <1>5 DEF PersistDraft
    <2>2. h.page = "open" /\ With(now)["save"] # NoCall
      BY <1>1, <1>5 DEF Form, Saving
    <2> HIDE DEF h
    <2> QED
      BY <1>2, <2>1, <2>2 DEF Awake
  <1>6. CASE ~(~force /\ ~f.unsaved) /\ f.online /\ ~Saving(t)
    <2> DEFINE h == [g EXCEPT !.state = "saving"]
               c == SaveCall(f)
    <2>1. Moves(h, c)
      BY <1>6 DEF PersistDraft, SaveCall
    <2>2. h.page = "open" /\ c # NoCall
      BY Asks DEF Form, SaveCall, Ops
    <2>3. With(c)["save"] # NoCall
      BY <1>1, <2>2
    <2> HIDE DEF h, c
    <2> QED
      BY <1>2, <2>1, <2>2, <2>3 DEF Awake
  <1> QED
    BY <1>3, <1>4, <1>5, <1>6

LEMMA SellerAwake ==
    ASSUME Base, Alert, Silences, NEW t \in Tabs, Seller(t) \/ TimerFires(t)
    PROVE  Alert'
  <1>0. /\ form[t] \in Form /\ call[t] \in Calls
        /\ Excused(t) \/ Awake(form[t], call[t])
        /\ form[t].page = "unopened" => ~form[t].unsaved
        /\ form \in [Tabs -> Form] /\ call \in [Tabs -> Calls] /\ "save" \in Slots
    BY DEF Base, TypeOK, Calls, Alert, Excused, Slots
  <1>1. CASE Open(t)
    <2>0. form[t].page = "unopened" /\ ~form[t].unsaved
      BY <1>0, <1>1 DEF Open
    <2> PICK g, d : /\ form' = [form EXCEPT ![t] = g] /\ call' = [call EXCEPT ![t] = d]
                    /\ g.page = "open" /\ ~g.unsaved
      <3>1. CASE form' = [form EXCEPT ![t].page = "open"]
        <4> DEFINE g == [form[t] EXCEPT !.page = "open"]
        <4>1. form' = [form EXCEPT ![t] = g] /\ g.page = "open" /\ ~g.unsaved
          BY <1>0, <2>0, <3>1 DEF Form
        <4>2. \E d : call' = [call EXCEPT ![t] = d]
          <5>1. CASE call' = call
            BY <1>0, <5>1
          <5>2. CASE \E c : call' = [call EXCEPT ![t]["load"] = c]
            BY <1>0, <5>2
          <5> QED
            BY <1>1, <5>1, <5>2 DEF Open
        <4> QED
          BY <4>1, <4>2
      <3>2. ASSUME NEW i \in Ids,
                   form' = [form EXCEPT ![t].page = "open", ![t].id = i,
                                    ![t].version = row[i].version,
                                    ![t].values = row[i].content,
                                    ![t].shown = @ \cup {row[i].content},
                                    ![t].state = "saved"],
                   call' = call
            PROVE  \E g, d : /\ form' = [form EXCEPT ![t] = g]
                             /\ call' = [call EXCEPT ![t] = d]
                             /\ g.page = "open" /\ ~g.unsaved
        <4> DEFINE g == [form[t] EXCEPT !.page = "open", !.id = i,
                                        !.version = row[i].version,
                                        !.values = row[i].content,
                                        !.shown = @ \cup {row[i].content},
                                        !.state = "saved"]
        <4>1. form' = [form EXCEPT ![t] = g] /\ call' = [call EXCEPT ![t] = call[t]]
          BY <1>0, <3>2
        <4>2. g.page = "open" /\ ~g.unsaved
          BY <1>0, <2>0 DEF Form
        <4> HIDE DEF g
        <4> QED
          BY <4>1, <4>2
      <3> QED
        BY <1>1, <3>1, <3>2 DEF Open
    <2> QED
      BY TabAwake DEF Awake
  <1>2. CASE Edit(t)
    <2> DEFINE f == Typed(form[t])
    <2>1. f \in Form /\ f.page = form[t].page /\ f.unsaved = form[t].unsaved
          /\ f.timer = form[t].timer /\ f.state = form[t].state
      <3>1. acts + 1 \in Nat
        BY DraftsAssumption DEF Base, TypeOK
      <3> DEFINE x == acts + 1
                 s == form[t].shown \cup {x}
      <3>2. x \in Nat /\ s \in SUBSET Nat
        BY <1>0, <3>1 DEF Form
      <3>3. f = [form[t] EXCEPT !.values = x, !.shown = s]
        BY DEF Typed
      <3> HIDE DEF x, s, f
      <3> QED
        BY <1>0, <3>2, <3>3 DEF Form
    <2>2. form[t].page = "open" /\ call' = [call EXCEPT ![t] = call[t]]
      BY <1>0, <1>2 DEF Edit, IsOpen
    <2> HIDE DEF f
    <2>3. CASE form' = [form EXCEPT ![t] = f]
      <3>1. Excused(t) \/ Awake(f, call[t])
        BY <1>0, <2>1, <2>2 DEF Awake
      <3> QED
        BY <2>1, <2>2, <2>3, <3>1, TabAwake
    <2>4. CASE form' = [form EXCEPT ![t] = [f EXCEPT !.unsaved = TRUE, !.state = "offline"]]
      <3> DEFINE g == [f EXCEPT !.unsaved = TRUE, !.state = "offline"]
      <3>1. g.page = "open" /\ g.state \in Reasons
        BY <2>1, <2>2 DEF Form, Reasons
      <3> HIDE DEF g
      <3>2. Awake(g, call[t])
        BY <3>1 DEF Awake
      <3> QED
        BY <2>2, <2>4, <3>1, <3>2, TabAwake DEF g
    <2>5. CASE form' = [form EXCEPT ![t] = [f EXCEPT !.unsaved = TRUE, !.timer = TRUE]]
      <3> DEFINE g == [f EXCEPT !.unsaved = TRUE, !.timer = TRUE]
      <3>1. g.page = "open" /\ g.timer
        BY <2>1, <2>2 DEF Form
      <3> HIDE DEF g
      <3>2. Awake(g, call[t])
        BY <3>1 DEF Awake
      <3> QED
        BY <2>2, <2>5, <3>1, <3>2, TabAwake DEF g
    <2> QED
      BY <1>2, <2>3, <2>4, <2>5 DEF Edit, f
  <1>3. CASE TimerFires(t) \/ SaveNow(t)
    <2>1. \E force \in BOOLEAN : PersistDraft(t, form[t], force)
      BY <1>3 DEF TimerFires, SaveNow
    <2> QED
      BY <1>0, <1>3, <2>1, PersistAwake DEF TimerFires, SaveNow, IsOpen
  <1>4. CASE Submit(t)
    <2> DEFINE s == CASE ~form[t].online -> "no"
                      [] form[t].online /\ Saving(t) -> "joined"
                      [] form[t].online /\ ~Saving(t) -> "own"
    <2>1. s \in {"no", "own", "joined"}
      BY <1>0 DEF Form
    <2>2. PersistDraft(t, [form[t] EXCEPT !.submitted = @ \cup {form[t].values},
                                          !.submit = s], TRUE)
      BY <1>4 DEF Submit
    <2> HIDE DEF s
    <2> DEFINE f == [form[t] EXCEPT !.submitted = @ \cup {form[t].values}, !.submit = s]
    <2>3. f \in Form /\ f.page = "open"
      BY <1>0, <1>4, <2>1 DEF Form, Submit, IsOpen
    <2> HIDE DEF f
    <2> QED
      BY <2>2, <2>3, PersistAwake DEF f
  <1>5. CASE Reload(t)
    <2> DEFINE d == [call[t] EXCEPT !["load"] = New("load", form[t])]
    <2>1. /\ form' = [form EXCEPT ![t] = form[t]] /\ call' = [call EXCEPT ![t] = d]
          /\ d["save"] = call[t]["save"] /\ form[t].page = "open"
      BY <1>0, <1>5 DEF Reload, Calls, IsOpen
    <2> HIDE DEF d
    <2>2. Excused(t) \/ Awake(form[t], d)
      BY <1>0, <2>1 DEF Awake
    <2> QED
      BY <2>1, <2>2, TabAwake
  <1>6. CASE GoOffline(t)
    <2> DEFINE x == IF form[t].unsaved THEN "offline" ELSE form[t].state
               g == [form[t] EXCEPT !.online = FALSE, !.state = x]
    <2>1. form' = [form EXCEPT ![t] = g] /\ call' = [call EXCEPT ![t] = call[t]]
      BY <1>0, <1>6 DEF GoOffline
    <2>2. form[t].unsaved => x \in Reasons
      BY DEF Reasons
    <2> HIDE DEF x
    <2>3. g.page = "open" /\ g.unsaved = form[t].unsaved /\ g.state = x
      BY <1>0, <1>6 DEF Form, GoOffline, IsOpen
    <2> HIDE DEF g
    <2>4. Excused(t) \/ Awake(g, call[t])
      BY <2>2, <2>3 DEF Awake
    <2> QED
      BY <2>1, <2>3, <2>4, TabAwake
  <1>7. CASE GoOnline(t)
    <2> DEFINE f == [form[t] EXCEPT !.online = TRUE]
    <2>1. f \in Form /\ f.page = "open" /\ form[t].unsaved \in BOOLEAN
      BY <1>0, <1>7 DEF Form, GoOnline, IsOpen
    <2>2. PersistDraft(t, f, form[t].unsaved)
      BY <1>7 DEF GoOnline
    <2> HIDE DEF f
    <2> QED
      BY <2>1, <2>2, PersistAwake
  <1>8. CASE Leave(t)
    <2> DEFINE g == [form[t] EXCEPT !.page = "left", !.timer = FALSE, !.submit = "no"]
    <2>1. form' = [form EXCEPT ![t] = g] /\ call' = [call EXCEPT ![t] = NoCalls]
      BY <1>0, <1>8 DEF Leave, NoCalls
    <2>2. g.page = "left"
      BY <1>0 DEF Form
    <2> HIDE DEF g
    <2> QED
      BY <2>1, <2>2, TabAwake DEF Awake
  <1>9. CASE Refresh(t)
    <2> DEFINE g == [form[t] EXCEPT !.timer = FALSE]
    <2> PICK d : call' = [call EXCEPT ![t] = d] /\ d["save"] = call[t]["save"]
      <3>1. CASE call' = call
        BY <1>0, <3>1
      <3>2. ASSUME NEW c, call' = [call EXCEPT ![t]["load"] = c]
            PROVE  \E d : call' = [call EXCEPT ![t] = d] /\ d["save"] = call[t]["save"]
        <4>1. [call[t] EXCEPT !["load"] = c]["save"] = call[t]["save"]
          BY <1>0 DEF Calls
        <4> QED
          BY <1>0, <3>2, <4>1
      <3> QED
        BY <1>9, <3>1, <3>2 DEF Refresh
    <2>1. form' = [form EXCEPT ![t] = g] /\ form[t].page = "open"
      BY <1>0, <1>9 DEF Refresh, IsOpen
    <2>2. /\ g.page = form[t].page /\ g.unsaved = form[t].unsaved
          /\ g.state = form[t].state
      BY <1>0 DEF Form
    <2> HIDE DEF g
    <2>3. form[t].timer => Excused(t)
      BY <1>9 DEF Excused
    <2>4. Excused(t) \/ Awake(g, d)
      BY <1>0, <2>2, <2>3 DEF Awake
    <2> QED
      BY <2>1, <2>2, <2>4, TabAwake
  <1> QED
    BY <1>1, <1>2, <1>3, <1>4, <1>5, <1>6, <1>7, <1>8, <1>9 DEF Seller

(* An answer: a save that did not store everything is repeated by a timer  *)
(* or tells why not.                                                       *)
LEMMA OutcomeAwake ==
    ASSUME NEW f \in Form, NEW rep \in Reply, NEW n, NEW h,
           h = Repeat(Outcome(f, rep, n)), h.unsaved
    PROVE  h.timer \/ h.state \in Reasons
  <1> DEFINE o == Outcome(f, rep, n)
             g == [f EXCEPT !.id = rep.id, !.version = rep.version]
  <1>0. rep.result \in {"ok", "conflict", "failed"} /\ f.online \in BOOLEAN /\ g \in Form
    BY DEF Reply, Form
  <1>1. o \in Form /\ (o.unsaved => o.pending \/ o.state \in Reasons)
    <2>1. CASE rep.result # "ok"
      <3> DEFINE x == CASE rep.result = "conflict" -> "conflict"
                        [] rep.result = "failed" /\ f.online -> "error"
                        [] rep.result = "failed" /\ ~f.online -> "offline"
      <3>1. x \in Reasons
        BY <1>0, <2>1 DEF Reasons
      <3>2. o = [f EXCEPT !.unsaved = TRUE, !.state = x]
        BY <2>1 DEF Outcome, NotSaved
      <3> HIDE DEF x, o
      <3> QED
        BY <3>1, <3>2 DEF Form, Reasons
    <2>2. CASE rep.result = "ok" /\ f.values = n /\ ~f.pending
      <3>1. o = [g EXCEPT !.unsaved = FALSE, !.state = "saved"]
        BY <2>2 DEF Outcome
      <3> HIDE DEF o, g
      <3> QED
        BY <1>0, <3>1 DEF Form
    <2>3. CASE rep.result = "ok" /\ ~(f.values = n /\ ~f.pending)
      <3>1. o = [g EXCEPT !.unsaved = TRUE, !.pending = TRUE]
        BY <2>3 DEF Outcome
      <3> HIDE DEF o, g
      <3> QED
        BY <1>0, <3>1 DEF Form
    <2> QED
      BY <2>1, <2>2, <2>3
  <1>2. h = IF o.pending THEN [o EXCEPT !.pending = FALSE, !.timer = TRUE] ELSE o
    BY DEF Repeat
  <1> HIDE DEF o
  <1>3. CASE o.pending
    <2>1. h = [o EXCEPT !.pending = FALSE, !.timer = TRUE]
      BY <1>2, <1>3
    <2> QED
      BY <1>1, <2>1 DEF Form
  <1>4. CASE ~o.pending
    BY <1>1, <1>2, <1>4
  <1> QED
    BY <1>3, <1>4

LEMMA SaveAwake ==
    ASSUME Base, Alert, Silences, NEW t \in Tabs, NEW rep \in Reply, form[t].page = "open",
           SaveSettles(t, rep)
    PROVE  Alert'
  <1> DEFINE n == call[t]["save"].req.content
             h == Repeat(Outcome(form[t], rep, n))
             goes == \/ h.submit = "own" /\ rep.result = "ok"
                     \/ h.submit = "joined" /\ h.id # NoId
             g == CASE goes -> [h EXCEPT !.submit = "publishing"]
                    [] ~goes /\ h.submit \in {"own", "joined"} -> [h EXCEPT !.submit = "no"]
                    [] OTHER -> h
             d == [call[t] EXCEPT !["save"] = NoCall,
                                  !["publish"] = IF goes THEN New("publish", h) ELSE @]
  <1>0. /\ form[t] \in Form /\ form \in [Tabs -> Form] /\ call \in [Tabs -> Calls]
        /\ "publish" \in Slots /\ "save" \in Slots /\ "publish" # "save"
    BY TabFacts DEF Base, TypeOK, Calls, Slots
  <1>1. form' = [form EXCEPT ![t] = g] /\ call' = [call EXCEPT ![t] = d]
    BY <1>0 DEF SaveSettles
  <1>2. h \in Form /\ h.page = "open"
    BY <1>0, Told
  <1>3. h.unsaved => h.timer \/ h.state \in Reasons
    BY <1>0, OutcomeAwake
  <1> HIDE DEF h, goes, d
  <1>4. /\ g.page = "open" /\ g.unsaved = h.unsaved
        /\ g.timer = h.timer /\ g.state = h.state
    <2>1. CASE goes
      <3>1. g = [h EXCEPT !.submit = "publishing"]
        BY <2>1
      <3> HIDE DEF g
      <3> QED
        BY <1>2, <3>1 DEF Form
    <2>2. CASE ~goes /\ h.submit \in {"own", "joined"}
      <3>1. g = [h EXCEPT !.submit = "no"]
        BY <2>2
      <3> HIDE DEF g
      <3> QED
        BY <1>2, <3>1 DEF Form
    <2>3. CASE ~goes /\ h.submit \notin {"own", "joined"}
      BY <1>2, <2>3
    <2> QED
      BY <2>1, <2>2, <2>3
  <1> HIDE DEF g
  <1>5. Awake(g, d)
    BY <1>3, <1>4 DEF Awake
  <1> QED
    BY <1>1, <1>4, <1>5, TabAwake

LEMMA LoadAwake ==
    ASSUME Base, Alert, Silences, NEW t \in Tabs, NEW rep \in Reply, form[t].page = "open",
           LoadSettles(t, rep)
    PROVE  Alert'
  <1> DEFINE d == [call[t] EXCEPT !["load"] = NoCall]
  <1>0. /\ form[t] \in Form /\ form \in [Tabs -> Form] /\ call \in [Tabs -> Calls]
        /\ call[t] \in Calls
        /\ Excused(t) \/ Awake(form[t], call[t])
    BY TabFacts DEF Base, TypeOK, Calls, Alert, Excused
  <1>1. call' = [call EXCEPT ![t] = d] /\ d["save"] = call[t]["save"]
    BY <1>0 DEF LoadSettles, Calls, Slots
  <1> HIDE DEF d
  <1>2. CASE rep.result = "ok"
    <2> DEFINE g == [form[t] EXCEPT !.id = rep.id, !.version = rep.version,
                                    !.values = rep.content,
                                    !.shown = @ \cup {rep.content},
                                    !.unsaved = FALSE, !.state = "saved"]
    <2>1. form' = [form EXCEPT ![t] = g]
      BY <1>2 DEF LoadSettles
    <2>2. g.page = "open" /\ ~g.unsaved
      BY <1>0 DEF Form
    <2> HIDE DEF g
    <2>3. Awake(g, d)
      BY <2>2 DEF Awake
    <2> QED
      BY <1>1, <2>1, <2>2, <2>3, TabAwake
  <1>3. CASE rep.result # "ok" /\ call[t]["load"].reply # NoReply
    <2>1. form' = [form EXCEPT ![t] = form[t]]
      BY <1>3 DEF LoadSettles
    <2>2. Excused(t) \/ Awake(form[t], d)
      BY <1>0, <1>1 DEF Awake
    <2> QED
      BY <1>1, <2>1, <2>2, TabAwake
  <1>4. CASE rep.result # "ok" /\ ~(call[t]["load"].reply # NoReply)
    <2> DEFINE g == [form[t] EXCEPT !.state = "error"]
    <2>1. form' = [form EXCEPT ![t] = g]
      BY <1>4 DEF LoadSettles
    <2>2. g.page = "open" /\ g.state \in Reasons
      BY <1>0 DEF Form, Reasons
    <2> HIDE DEF g
    <2>3. Awake(g, d)
      BY <2>2 DEF Awake
    <2> QED
      BY <1>1, <2>1, <2>2, <2>3, TabAwake
  <1> QED
    BY <1>2, <1>3, <1>4

LEMMA PublishAwake ==
    ASSUME Base, Alert, Silences, NEW t \in Tabs, NEW rep \in Reply, form[t].page = "open",
           PublishSettles(t, rep)
    PROVE  Alert'
  <1>0. /\ form[t] \in Form /\ form \in [Tabs -> Form] /\ call \in [Tabs -> Calls]
        /\ call[t] \in Calls
        /\ Excused(t) \/ Awake(form[t], call[t])
    BY TabFacts DEF Base, TypeOK, Calls, Alert, Excused
  <1>1. CASE rep.result = "ok"
    <2> DEFINE g == [form[t] EXCEPT !.page = "left", !.unsaved = FALSE,
                                    !.timer = FALSE, !.submit = "no"]
    <2>1. form' = [form EXCEPT ![t] = g] /\ call' = [call EXCEPT ![t] = NoCalls]
      BY <1>0, <1>1 DEF PublishSettles, NoCalls
    <2>2. g.page = "left"
      BY <1>0 DEF Form
    <2> HIDE DEF g
    <2>3. Awake(g, NoCalls)
      BY <2>2 DEF Awake
    <2> QED
      BY <2>1, <2>2, <2>3, TabAwake
  <1>2. CASE rep.result # "ok"
    <2> DEFINE g == [form[t] EXCEPT !.submit = "no"]
               d == [call[t] EXCEPT !["publish"] = NoCall]
    <2>1. form' = [form EXCEPT ![t] = g] /\ call' = [call EXCEPT ![t] = d]
      BY <1>0, <1>2 DEF PublishSettles
    <2>2. /\ g.page = form[t].page /\ g.unsaved = form[t].unsaved
          /\ g.timer = form[t].timer /\ g.state = form[t].state
      BY <1>0 DEF Form
    <2>3. d["save"] = call[t]["save"]
      BY <1>0 DEF Calls, Slots
    <2> HIDE DEF g, d
    <2>4. Excused(t) \/ Awake(g, d)
      BY <1>0, <2>2, <2>3 DEF Awake
    <2> QED
      BY <2>1, <2>2, <2>4, TabAwake
  <1> QED
    BY <1>1, <1>2

LEMMA SettlesAwake ==
    ASSUME Base, Alert, Silences, NEW t \in Tabs, NEW slot \in Slots,
           Deliver(t, slot) \/ CallFails(t, slot)
    PROVE  Alert'
  <1>1. \E rep \in Reply : Settles(t, slot, rep) /\ form[t].page = "open"
    <2>1. CASE Deliver(t, slot)
      <3> PICK rep : rep = call[t][slot].reply OBVIOUS
      <3>1. /\ form[t].page = "open" /\ Settles(t, slot, rep)
            /\ call[t][slot] \in Call /\ rep # NoReply
        BY <2>1, TabFacts DEF Deliver, IsOpen
      <3>2. rep \in Reply
        BY <3>1 DEF Call
      <3> QED
        BY <3>1, <3>2
    <2>2. CASE CallFails(t, slot)
      <3>1. Failed \in Reply
        BY DEF Failed, Reply
      <3>2. form[t].page = "open" /\ Settles(t, slot, Failed)
        BY <2>2 DEF CallFails, IsOpen
      <3> QED
        BY <3>1, <3>2
    <2> QED
      BY <2>1, <2>2
  <1> PICK rep \in Reply : Settles(t, slot, rep) /\ form[t].page = "open"
    BY <1>1
  <1>2. CASE slot = "save"
    BY <1>2, SaveAwake DEF Settles
  <1>3. CASE slot = "load"
    BY <1>3, LoadAwake DEF Settles
  <1>4. CASE slot = "publish"
    BY <1>4, PublishAwake DEF Settles
  <1> QED
    BY <1>2, <1>3, <1>4 DEF Slots

LEMMA ServeAwake ==
    ASSUME Base, Alert, Silences, NEW t \in Tabs, NEW slot \in Slots, Serve(t, slot)
    PROVE  Alert'
  <1>0. /\ form \in [Tabs -> Form] /\ call \in [Tabs -> Calls] /\ call[t] \in Calls
        /\ Excused(t) \/ Awake(form[t], call[t])
        /\ form[t].page = "unopened" => ~form[t].unsaved
        /\ form' = form /\ TypeOK
        /\ call[t][slot] \in Call /\ CallOK(slot, call[t][slot])
    BY DEF Base, TypeOK, CallsOK, Calls, Alert, Excused, Serve
  <1> PICK req \in Request : req = call[t][slot].req
    BY <1>0 DEF Call
  <1> PICK rep : rep = Run(req, t).reply OBVIOUS
  <1> DEFINE c == [call[t][slot] EXCEPT !.reply = rep]
             d == [call[t] EXCEPT ![slot] = c]
  <1>1. Addressed(req) /\ call' = [call EXCEPT ![t][slot].reply = rep]
    BY <1>0 DEF CallOK, Serve
  <1>2. form' = [form EXCEPT ![t] = form[t]] /\ call' = [call EXCEPT ![t] = d]
    BY <1>0, <1>1
  <1>3. c # NoCall
    <2>1. rep \in Reply
      BY <1>0, <1>1, Served
    <2>2. c \in Call
      BY <1>0, <2>1 DEF Call
    <2> QED
      BY <2>2, CallsAssumption
  <1>4. d["save"] = IF slot = "save" THEN c ELSE call[t]["save"]
    BY <1>0 DEF Calls, Slots
  <1> HIDE DEF c, d
  <1>5. Excused(t) \/ Awake(form[t], d)
    BY <1>0, <1>3, <1>4 DEF Awake
  <1> QED
    BY <1>0, <1>2, <1>5, TabAwake

(* However the seller's edits, saves, repeats, submissions, reloads and    *)
(* changes of the network meet the answers, lost and late ones included, a *)
(* form with unsaved edits has a save or a timer under way or says why not *)
(* (CreateListingForm.tsx, persistDraft and its finally block), unless it  *)
(* is quiet since a refresh after an image operation dropped the timer     *)
(* (the cleanup at CreateListingForm.tsx:513).                             *)
THEOREM NeverQuiet == MCSpec => []NeverStuckUnlessSilenced
  <1>1. MCInit => Base /\ Alert
    <2>1. ASSUME MCInit, NEW t \in Tabs
          PROVE  form[t].page = "unopened" /\ ~form[t].unsaved
      BY <2>1 DEF MCInit, Init
    <2> QED
      BY <2>1, InitBase DEF MCInit, Alert, Awake
  <1>2. Base /\ Alert /\ MCNext => (Base /\ Alert)'
    <2> SUFFICES ASSUME Base, Alert, MCNext PROVE Alert'
      BY NextSteps DEF MCNext
    <2>1. Silences
      BY DEF MCNext, Silences, Excused
    <2>2. ASSUME form' = form, call' = call PROVE Alert'
      <3>1. ASSUME NEW t \in Tabs PROVE t \in silenced' \/ Awake(form'[t], call'[t])
        <4>1. t \in silenced \/ Awake(form[t], call[t])
          BY DEF Alert
        <4>2. Quiet(t)' <=> ~Awake(form'[t], call'[t])
          BY DEF Quiet, Awake, IsOpen, Saving, Reasons
        <4> QED
          BY <2>1, <2>2, <4>1, <4>2 DEF Silences, Excused
      <3> QED
        BY <2>2, <3>1 DEF Alert, Awake
    <2>3. ASSUME NEW t \in Tabs, Seller(t) \/ TimerFires(t) PROVE Alert'
      BY <2>1, <2>3, SellerAwake
    <2>4. ASSUME NEW t \in Tabs, NEW slot \in Slots,
                 Serve(t, slot) \/ Deliver(t, slot) \/ CallFails(t, slot)
          PROVE  Alert'
      BY <2>1, <2>4, ServeAwake, SettlesAwake
    <2>5. (\E m \in late : ServeLate(m)) \/ (\E i \in Ids : Delete(i))
              => form' = form /\ call' = call
      BY DEF ServeLate, Delete
    <2> QED
      BY <2>2, <2>3, <2>4, <2>5 DEF MCNext, Next
  <1>3. Base /\ Alert /\ UNCHANGED MCVars => (Base /\ Alert)'
    BY StutterBase DEF MCVars, vars, Alert, Awake
  <1>4. Alert => NeverStuckUnlessSilenced
    BY DEF Alert, Awake, NeverStuckUnlessSilenced, Quiet, IsOpen, Saving, Reasons
  <1> QED
    BY <1>1, <1>2, <1>3, <1>4, PTL DEF MCSpec
=============================================================================
