---------------------------- MODULE MCDataExports ----------------------------
(* Values for the constants of DataExports, and two histories: two HTTP    *)
(* requests have been under way at once (raced), and something died in the *)
(* middle of its work or a failing storage call took effect (died).        *)
EXTENDS DataExports, TLC

VARIABLES raced, died

Racing == \E r, q \in Requests : r # q /\ request[r] # Idle /\ request[q] # Idle

(* A process that ends before its last step: the job it works on is not    *)
(* settled, or an archive stays that no step will name.                    *)
Dying == \/ \E r \in Requests : RequestDies(r)
         \/ WorkerDies
         \/ JobFails /\ archives' # archives

MCInit == Init /\ raced = FALSE /\ died = FALSE
MCNext == Next /\ raced' = (raced \/ Racing') /\ died' = (died \/ Dying)
MCSpec == MCInit /\ [][MCNext]_<<vars, raced, died>>

ExportSymmetry == Permutations(Exports) \cup Permutations(Requests)

(* A link is a one-time link and a cooldown holds one job, whatever dies,  *)
(* as long as no two requests overlap (account_service.py:202-231,         *)
(* 788-822).                                                               *)
OneJobOneDownloadUnlessRaced == raced \/ (ServedOnce /\ OncePerCooldown)

(* docs/account-security-privacy.md: "Failed jobs retry up to three times":*)
(* every job ends, ready or failed, unless something dies on the way       *)
(* (account_service.py:725-785).                                           *)
JobEndsUnlessDied ==
    \A e \in Exports : job[e].status \in {"pending", "processing"}
                           ~> died \/ job[e].status \in {"ready", "failed"}

(* docs/account-security-privacy.md, retention matrix: an archive is kept  *)
(* for 24 hours at most; downloaded or not, it goes away again, unless     *)
(* something dies on the way (account_service.py:809-844).                 *)
ArchiveGoesUnlessDied ==
    \A e \in Exports : e \in archives ~> died \/ e \notin archives
=============================================================================
