------------------------------- MODULE SeoForm ------------------------------
(* The form of the SEO landing pages: an administrator picks a landing,    *)
(* edits it, previews and saves it.  A landing is for one scope, a         *)
(* category with or without a brand; its texts are left out.               *)
EXTENDS Naturals, FiniteSets

CONSTANTS
    Landings,
    Scopes

VARIABLES
    landing,  \* landing -> its scope, or "none"
    list,     \* the landings the page lists, with the scope it knows
    form,     \* [scope, from]: what is typed, and the landing it was filled from
    editing,  \* the landing a save goes to, or "new"
    preview,  \* the landing or scope previewed, or "none"
    call      \* [op, to, scope, from, step, got] or None

vars == <<landing, list, form, editing, preview, call>>

None == [step |-> "none"]
Empty == [scope |-> "none", from |-> "new"]
Taken(scope, l) == \E m \in Landings \ {l} : landing[m] = scope

X_SelectLanding(l) ==   \* mutant
    /\ list[l] # "none"
    /\ form' = [scope |-> list[l], from |-> l] /\ preview' = "none"
    /\ UNCHANGED <<landing, list, editing, call>>
SelectLanding(l) ==
    /\ list[l] # "none"
    /\ editing' = l /\ form' = [scope |-> list[l], from |-> l] /\ preview' = "none"
    /\ UNCHANGED <<landing, list, call>>
Reset ==
    /\ editing # "new"
    /\ editing' = "new" /\ form' = Empty /\ preview' = "none"
    /\ UNCHANGED <<landing, list, call>>
Fields ==
    /\ \E s \in Scopes : form' = [form EXCEPT !.scope = s]
    /\ UNCHANGED <<landing, list, editing, preview, call>>

(* One call at a time; the form may be changed meanwhile.                  *)
Send(op) ==
    /\ call = None
    /\ call' = [op |-> op, to |-> editing, scope |-> form.scope, from |-> form.from,
                step |-> "sent", got |-> "none"]
    /\ UNCHANGED <<landing, list, form, editing, preview>>
RunPreview == Send("preview")
Save == Send("save")

(* seo_landing_service.py:190-295: two landings never share a scope.       *)
Preview ==
    /\ call.step = "sent" /\ call.op = "preview" /\ call.scope \in Scopes
    /\ call' = [call EXCEPT !.step = "done", !.got = call.scope]
    /\ UNCHANGED <<landing, list, form, editing, preview>>
X_Upsert ==   \* mutant
    /\ call.step = "sent" /\ call.op = "save" /\ call.scope \in Scopes
    /\ \E l \in Landings :
          /\ IF call.to = "new" THEN landing[l] = "none" ELSE l = call.to
          /\ landing' = [landing EXCEPT ![l] = call.scope]
          /\ call' = [call EXCEPT !.step = "done", !.got = l]
    /\ UNCHANGED <<list, form, editing, preview>>
Upsert ==
    /\ call.step = "sent" /\ call.op = "save" /\ call.scope \in Scopes
    /\ \E l \in Landings :
          /\ IF call.to = "new" THEN landing[l] = "none" ELSE l = call.to
          /\ ~Taken(call.scope, l)
          /\ landing' = [landing EXCEPT ![l] = call.scope]
          /\ call' = [call EXCEPT !.step = "done", !.got = l]
    /\ UNCHANGED <<list, form, editing, preview>>
Refused ==
    /\ call.step \in {"sent", "done"} /\ call' = None
    /\ UNCHANGED <<landing, list, form, editing, preview>>

(* The answer of a save makes its landing the edited one, whatever the     *)
(* form was filled from meanwhile.                                         *)
Answer ==
    /\ call.step = "done" /\ call' = None
    /\ preview' = call.got
    /\ IF call.op = "save"
       THEN /\ editing' = call.got /\ list' = [list EXCEPT ![call.got] = call.scope]
            /\ form' = IF form.from = call.from THEN [form EXCEPT !.from = call.got] ELSE form
       ELSE UNCHANGED <<editing, list, form>>
    /\ UNCHANGED landing

(* The page, opened or opened again.                                       *)
AdminSeoPage ==
    /\ call = None
    /\ list' = landing /\ form' = Empty /\ editing' = "new" /\ preview' = "none"
    /\ UNCHANGED <<landing, call>>

Init ==
    /\ landing \in {f \in [Landings -> Scopes \cup {"none"}] :
           \A l, m \in Landings : l # m => f[l] = "none" \/ f[l] # f[m]}
    /\ list = landing /\ form = Empty /\ editing = "new" /\ preview = "none" /\ call = None

Next ==
    \/ \E l \in Landings : SelectLanding(l)
    \/ Reset \/ Fields \/ RunPreview \/ Save \/ Preview \/ Upsert \/ Refused \/ Answer \/ AdminSeoPage

Spec == Init /\ [][Next]_vars

-----------------------------------------------------------------------------
(* A history for the property below: another landing was picked, or the    *)
(* form cleared, while a save was under way (crossed).                     *)
VARIABLES crossed

MCInit == Init /\ crossed = FALSE
MCNext == /\ Next
          /\ crossed' = (crossed \/ (call.step # "none" /\ call' = call /\ editing' # editing))

(* A save goes to the landing its form was filled from, and two landings   *)
(* never share a scope (SeoLandingManager.tsx:60-130,                      *)
(* seo_landing_service.py:190-295): the answer of a save that is overtaken *)
(* by another choice makes the form save to the wrong landing.             *)
SavesTheEditedUnlessCrossed ==
    \/ crossed
    \/ /\ editing = form.from
       /\ \A l, m \in Landings : (l # m /\ landing[l] # "none") => landing[l] # landing[m]
=============================================================================
