------------------------------ MODULE SocialCard ----------------------------
(* The picture of an article for social networks: the preview panel in the *)
(* editor's form, the endpoint behind it, and the subprocesses that draw.  *)
(* The panel is mounted anew with every edit of the text; a subprocess is  *)
(* stopped when its time is over or its request is cancelled, and the      *)
(* place it takes is free once it has ended.                               *)
EXTENDS Naturals, FiniteSets

CONSTANTS
    Editors,
    Texts,          \* what title and description may say
    Calls,
    MaxConcurrent,  \* subprocesses at a time (runner.ts:5)
    Budget          \* calls of one editor in a minute (endpoint.ts:24); the budget of all
                    \* editors together is left out

VARIABLES
    text,    \* editor -> the text in the form
    panel,   \* editor -> [card, busy]: the text of the card it shows, or None
    urls,    \* object URLs that have not been revoked
    call,    \* call -> [by, input, mine, aborted, step, failed, drawn] or None
    active,  \* places taken
    spent    \* editor -> calls in this minute

vars == <<text, panel, urls, call, active, spent>>

None == "none"
Blank == [card |-> None, busy |-> FALSE]
NoCall == [step |-> "none", by |-> None]
Owns(e) == IF panel[e].card = None THEN 0 ELSE 1
Waiting(e) == {c \in Calls : call[c].by = e /\ call[c].mine}

-----------------------------------------------------------------------------
(* SocialPreview.tsx:9-20, 28-33: an edit unmounts the panel; its request  *)
(* is aborted, its URL revoked.                                            *)
X_Edit(e, t) ==   \* mutant
    /\ t # text[e] /\ text' = [text EXCEPT ![e] = t]
    /\ UNCHANGED <<panel, urls, call, active, spent>>
Edit(e, t) ==
    /\ t # text[e]
    /\ text' = [text EXCEPT ![e] = t]
    /\ panel' = [panel EXCEPT ![e] = Blank]
    /\ urls' = urls - Owns(e)
    /\ call' = [c \in Calls |-> IF c \in Waiting(e)
                    THEN [call[c] EXCEPT !.mine = FALSE, !.aborted = TRUE] ELSE call[c]]
    /\ UNCHANGED <<active, spent>>

(* SocialPreview.tsx:35-51.  A text that is not valid is refused, below.   *)
Generate(e) ==
    /\ ~panel[e].busy
    /\ \E c \in Calls :
          /\ call[c] = NoCall
          /\ call' = [call EXCEPT ![c] = [by |-> e, input |-> text[e], mine |-> TRUE,
                         aborted |-> FALSE, step |-> "sent", failed |-> FALSE, drawn |-> None]]
    /\ panel' = [panel EXCEPT ![e] = [card |-> None, busy |-> TRUE]]
    /\ urls' = urls - Owns(e)
    /\ UNCHANGED <<text, active, spent>>

(* SocialPreview.tsx:45, 64-72: the panel's own timer aborts the request.  *)
GiveUp(c) ==
    /\ call[c] # NoCall /\ call[c].mine
    /\ call' = [call EXCEPT ![c].mine = FALSE, ![c].aborted = TRUE]
    /\ panel' = [panel EXCEPT ![call[c].by] = Blank]
    /\ UNCHANGED <<text, urls, active, spent>>

(* SocialPreview.tsx:52-63: a picture arrives, also for a panel that is no *)
(* longer there; or an error does.                                         *)
X_Arrive(c) ==   \* mutant
    /\ call[c].step = "done"
    /\ IF call[c].drawn # None
       THEN /\ urls' = urls + 1
            /\ panel' = IF call[c].mine
                        THEN [panel EXCEPT ![call[c].by] = [card |-> call[c].drawn, busy |-> FALSE]]
                        ELSE panel
       ELSE /\ panel' = IF call[c].mine THEN [panel EXCEPT ![call[c].by] = Blank] ELSE panel
            /\ UNCHANGED urls
    /\ call' = [call EXCEPT ![c] = NoCall]
    /\ UNCHANGED <<text, active, spent>>
Arrive(c) ==
    /\ call[c].step = "done"
    /\ IF call[c].mine
       THEN /\ panel' = [panel EXCEPT ![call[c].by] = [card |-> call[c].drawn, busy |-> FALSE]]
            /\ urls' = IF call[c].drawn = None THEN urls ELSE urls + 1
       ELSE UNCHANGED <<panel, urls>>
    /\ call' = [call EXCEPT ![c] = NoCall]
    /\ UNCHANGED <<text, active, spent>>

-----------------------------------------------------------------------------
(* endpoint.ts:61-98.  Who asks, from where and for which article is       *)
(* tested before and after the budget is charged.                          *)
Refuse(c) ==
    /\ call[c].step \in {"sent", "charged"}
    /\ call' = [call EXCEPT ![c].step = "done"]
    /\ UNCHANGED <<text, panel, urls, active, spent>>

CreateRenderBudget(c) ==
    /\ call[c].step = "sent"
    /\ IF spent[call[c].by] >= Budget
       THEN call' = [call EXCEPT ![c].step = "done"] /\ UNCHANGED spent
       ELSE /\ call' = [call EXCEPT ![c].step = "charged"]
            /\ spent' = [spent EXCEPT ![call[c].by] = @ + 1]
    /\ UNCHANGED <<text, panel, urls, active>>
MinutePasses ==
    /\ spent' = [e \in Editors |-> 0]
    /\ UNCHANGED <<text, panel, urls, call, active>>

(* runner.ts:7-26: a place and a subprocess, if there is a place.          *)
RenderSocialCard(c) ==
    /\ call[c].step = "charged"
    /\ IF active >= MaxConcurrent
       THEN call' = [call EXCEPT ![c].step = "done"] /\ UNCHANGED active
       ELSE call' = [call EXCEPT ![c].step = "running"] /\ active' = active + 1
    /\ UNCHANGED <<text, panel, urls, spent>>

(* runner.ts:27-36: its time is over, or the endpoint sees the abort.  The *)
(* subprocess is told to end; whatever it answered no longer counts.       *)
X_Stop(c) ==   \* mutant
    /\ call[c].step = "running" /\ ~call[c].failed
    /\ call' = [call EXCEPT ![c].failed = TRUE] /\ active' = active - 1
    /\ UNCHANGED <<text, panel, urls, spent>>
Stop(c) ==
    /\ call[c].step = "running" /\ ~call[c].failed
    /\ call' = [call EXCEPT ![c].failed = TRUE]
    /\ UNCHANGED <<text, panel, urls, active, spent>>
Cancelled(c) ==
    /\ call[c].step = "charged" /\ call[c].aborted
    /\ call' = [call EXCEPT ![c].step = "done"]
    /\ UNCHANGED <<text, panel, urls, active, spent>>

(* core.ts and worker.ts: the subprocess sends a picture; it sends no      *)
(* picture if the text does not fit or a resource is missing.              *)
RenderSocialCardCore(c) ==
    /\ call[c].step = "running" /\ call[c].drawn = None
    /\ call' = [call EXCEPT ![c].drawn = call[c].input]
    /\ UNCHANGED <<text, panel, urls, active, spent>>

(* runner.ts:37-51: the subprocess has ended, by itself or not, with its   *)
(* answer or without.                                                      *)
Close(c) ==
    /\ call[c].step = "running"
    /\ active' = active - 1
    /\ \E clean \in BOOLEAN :
          call' = [call EXCEPT ![c].step = "done",
                       ![c].drawn = IF clean /\ ~call[c].failed THEN @ ELSE None]
    /\ UNCHANGED <<text, panel, urls, spent>>

Init ==
    /\ text \in [Editors -> Texts] /\ panel = [e \in Editors |-> Blank] /\ urls = 0
    /\ call = [c \in Calls |-> NoCall] /\ active = 0 /\ spent = [e \in Editors |-> 0]

Next ==
    \/ \E e \in Editors : Generate(e) \/ \E t \in Texts : Edit(e, t)
    \/ MinutePasses
    \/ \E c \in Calls :
          \/ GiveUp(c) \/ Arrive(c) \/ Refuse(c) \/ CreateRenderBudget(c)
          \/ RenderSocialCard(c) \/ Cancelled(c) \/ Stop(c) \/ RenderSocialCardCore(c) \/ Close(c)

Spec == Init /\ [][Next]_vars
-----------------------------------------------------------------------------
(* The card on the screen is the card of the text in the form; no URL      *)
(* outlives its panel, and no panel waits without a request under way      *)
(* (SocialPreview.tsx:9-73); the places taken are the subprocesses there   *)
(* are, also after timeouts and cancellations (runner.ts:5-55).            *)
CardsAreTheirs ==
    /\ \A e \in Editors :
          /\ panel[e].card \in {None, text[e]}
          /\ panel[e].busy => Waiting(e) # {}
    /\ urls = Cardinality({e \in Editors : panel[e].card # None})
    /\ active = Cardinality({c \in Calls : call[c].step = "running"})
    /\ active <= MaxConcurrent
=============================================================================
