----------------------------- MODULE Moderation -----------------------------
(* Risk signals open moderation cases about listings, users report them    *)
(* and their conversations; administrators decide on their screens.        *)
EXTENDS Naturals, FiniteSets

CONSTANTS
    Admins,
    Calls,
    Signals,
    Cases,
    Listings

VARIABLES
    listing,  \* "pending", "public" or "rejected"
    case,     \* case -> [status, about]
    report,   \* listing -> its one report: "none", "open", "resolved", "dismissed"
    noted,    \* the reports closed with the note that the listing was taken down
    signal,   \* signal -> "new", the listing no open case was found of, or "done"
    risk,     \* admin -> the cases the queue shows
    reports,  \* admin -> the listings whose reports are shown
    call      \* call -> [by, op, todo, dirty, step] or None

vars == <<listing, case, report, noted, signal, risk, reports, call>>

None == [step |-> "none", op |-> "none"]
Open == {"open", "reviewing"}
Final == [clear |-> "cleared", approve |-> "approved", reject |-> "rejected"]
OpenCases(l) == {c \in Cases : case[c].status \in Open /\ case[c].about = l}
Existing == {c \in Cases : case[c].status # "none"}

(* risk_service.py:161-190: a signal joins the open case of its listing,   *)
(* or opens one.                                                           *)
X_CreateCase(s) ==   \* mutant
    /\ \/ \E l \in Listings : signal[s] = "new" /\ signal' = [signal EXCEPT ![s] = l] /\ UNCHANGED case
       \/ /\ signal[s] \in Listings
          /\ \E c \in Cases \ Existing :
                case' = [case EXCEPT ![c] = [status |-> "open", about |-> signal[s]]]
          /\ signal' = [signal EXCEPT ![s] = "done"]
    /\ UNCHANGED <<listing, report, noted, risk, reports, call>>
CreateCase(s) ==
    /\ \/ \E l \in Listings :
             /\ signal[s] = "new"
             /\ signal' = [signal EXCEPT ![s] = IF OpenCases(l) = {} THEN l ELSE "done"]
             /\ UNCHANGED case
       \/ /\ signal[s] \in Listings
          /\ \E c \in Cases \ Existing :
                case' = [case EXCEPT ![c] = [status |-> "open", about |-> signal[s]]]
          /\ signal' = [signal EXCEPT ![s] = "done"]
    /\ UNCHANGED <<listing, report, noted, risk, reports, call>>

(* listings.py:386-418 through the button of a public listing: one report  *)
(* of a user, opened again by the next.                                    *)
ReportButton(l) ==
    /\ listing[l] = "public" /\ report[l] # "open"
    /\ report' = [report EXCEPT ![l] = "open"] /\ noted' = noted \ {l}
    /\ UNCHANGED <<listing, case, signal, risk, reports, call>>

(* conversation_safety_service.py:172-241: every report of a conversation  *)
(* or of a message in it opens a case of its own.                          *)
SafetyReportButton ==
    /\ \E c \in Cases \ Existing :
          case' = [case EXCEPT ![c] = [status |-> "open", about |-> "conversation"]]
    /\ UNCHANGED <<listing, report, noted, signal, risk, reports, call>>

-----------------------------------------------------------------------------
(* The screens.  No button waits for the answer of another.  Who holds a   *)
(* case decides nothing and is left out, and with it the row's other       *)
(* button, which gives the case back and leaves its status.                *)
ModerationRiskPage(a) ==
    /\ risk' = [risk EXCEPT ![a] = Existing]
    /\ UNCHANGED <<listing, case, report, noted, signal, reports, call>>
AdminReportsPage(a) ==
    /\ reports' = [reports EXCEPT ![a] = {l \in Listings : report[l] # "none"}]
    /\ UNCHANGED <<listing, case, report, noted, signal, risk, call>>

Send(a, op, on) ==
    /\ \E k \in Calls :
          /\ call[k] = None
          /\ call' = [call EXCEPT ![k] = [by |-> a, op |-> op, todo |-> on, dirty |-> {},
                                          step |-> "sent"]]
    /\ UNCHANGED <<listing, case, report, noted, signal, risk, reports>>

BulkAction(a) ==
    \E S \in (SUBSET risk[a]) \ {{}}, op \in DOMAIN Final : Send(a, op, S)
ToggleAssignment(a) ==
    \E c \in risk[a] : Send(a, "assign", {c})
AdminReportActions(a) ==
    \E l \in reports[a], op \in {"resolved", "dismissed", "takedown"} : Send(a, op, {l})
ModerationRiskQueue(a) == BulkAction(a) \/ ToggleAssignment(a)

-----------------------------------------------------------------------------
(* moderation_case_service.py:168-176: the status is written only if it    *)
(* was read as open.                                                       *)
Assign(k) ==
    LET c == CHOOSE x \in call[k].todo : TRUE IN
    /\ call[k].op = "assign"
    /\ \/ /\ call[k].step = "sent"
          /\ call' = IF case[c].status = "open" THEN [call EXCEPT ![k].step = "loaded"]
                     ELSE [call EXCEPT ![k] = None]
          /\ UNCHANGED case
       \/ /\ call[k].step = "loaded"
          /\ case' = [case EXCEPT ![c].status = "reviewing"]
          /\ call' = [call EXCEPT ![k] = None]
    /\ UNCHANGED <<listing, report, noted, signal, risk, reports>>

(* moderation_case_service.py:188-230: a listing's approval or rejection   *)
(* commits what is pending, the status of its own case comes after.        *)
Committed(k) ==
    [c \in Cases |->
        IF c \in call[k].dirty THEN [case[c] EXCEPT !.status = Final[call[k].op]] ELSE case[c]]
BulkCase(k, c) ==
    LET l == case[c].about
        moves == /\ l \in Listings
                 /\ \/ call[k].op = "approve" /\ listing[l] # "public"
                    \/ call[k].op = "reject" /\ listing[l] # "rejected"
    IN  /\ call[k].op \in DOMAIN Final /\ call[k].step = "sent" /\ c \in call[k].todo
        /\ IF moves
           THEN /\ listing' = [listing EXCEPT ![l] = IF call[k].op = "approve" THEN "public" ELSE "rejected"]
                /\ case' = Committed(k)
                /\ call' = [call EXCEPT ![k].todo = @ \ {c}, ![k].dirty = {c}]
           ELSE /\ call' = [call EXCEPT ![k].todo = @ \ {c}, ![k].dirty = @ \cup {c}]
                /\ UNCHANGED <<listing, case>>
        /\ UNCHANGED <<report, noted, signal, risk, reports>>
X_BulkEnd(k) ==   \* mutant
    /\ call[k].op \in DOMAIN Final /\ call[k].step = "sent" /\ call[k].todo = {}
    /\ call' = [call EXCEPT ![k] = None]
    /\ UNCHANGED <<listing, case, report, noted, signal, risk, reports>>
BulkEnd(k) ==
    /\ call[k].op \in DOMAIN Final /\ call[k].step = "sent" /\ call[k].todo = {}
    /\ case' = Committed(k)
    /\ call' = [call EXCEPT ![k] = None]
    /\ UNCHANGED <<listing, report, noted, signal, risk, reports>>

(* moderation_service.py:98-132, the first call of a takedown.             *)
RejectListing(k) ==
    LET l == CHOOSE x \in call[k].todo : TRUE IN
    /\ call[k].op = "takedown" /\ call[k].step = "sent"
    /\ listing' = [listing EXCEPT ![l] = "rejected"]
    /\ call' = [call EXCEPT ![k].step = "rejected"]
    /\ UNCHANGED <<case, report, noted, signal, risk, reports>>

(* moderation_service.py:187-200, and the second.                          *)
ResolveReport(k) ==
    LET l == CHOOSE x \in call[k].todo : TRUE
        down == call[k].op = "takedown"
    IN  /\ call[k].op \in {"resolved", "dismissed", "takedown"}
        /\ call[k].step = IF down THEN "rejected" ELSE "sent"
        /\ report' = [report EXCEPT ![l] = IF down THEN "resolved" ELSE call[k].op]
        /\ noted' = IF down THEN noted \cup {l} ELSE noted \ {l}
        /\ call' = [call EXCEPT ![k].step = "done"]
        /\ UNCHANGED <<listing, case, signal, risk, reports>>

(* A call fails at any step: what it has not committed is lost.            *)
Fail(k) ==
    /\ call[k].step \in {"sent", "loaded", "rejected"} /\ call' = [call EXCEPT ![k] = None]
    /\ UNCHANGED <<listing, case, report, noted, signal, risk, reports>>

(* The answer of a report refreshes the reports; the queue shows the       *)
(* decided rows on, so that the other answers change nothing here.         *)
Answer(k) ==
    /\ call[k].step = "done" /\ call' = [call EXCEPT ![k] = None]
    /\ reports' = [reports EXCEPT ![call[k].by] = {l \in Listings : report[l] # "none"}]
    /\ UNCHANGED <<listing, case, report, noted, signal, risk>>

Init ==
    /\ listing \in [Listings -> {"pending", "public"}]
    /\ case = [c \in Cases |-> [status |-> "none", about |-> "none"]]
    /\ report = [l \in Listings |-> "none"] /\ noted = {}
    /\ signal = [s \in Signals |-> "new"]
    /\ risk = [a \in Admins |-> {}] /\ reports = [a \in Admins |-> {}]
    /\ call = [k \in Calls |-> None]

Next ==
    \/ \E s \in Signals : CreateCase(s)
    \/ \E l \in Listings : ReportButton(l)
    \/ SafetyReportButton
    \/ \E a \in Admins :
          ModerationRiskPage(a) \/ AdminReportsPage(a) \/ ModerationRiskQueue(a) \/ AdminReportActions(a)
    \/ \E k \in Calls :
          \/ Assign(k) \/ BulkEnd(k) \/ RejectListing(k) \/ ResolveReport(k) \/ Fail(k) \/ Answer(k)
          \/ \E c \in Cases : BulkCase(k, c)

Spec == Init /\ [][Next]_vars
=============================================================================
