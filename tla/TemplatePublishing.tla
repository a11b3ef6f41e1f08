------------------------- MODULE TemplatePublishing -------------------------
(***************************************************************************)
(* The screening template of one position: its question bank, its          *)
(* configuration row (services/db/screening_configs.py) and the recruiter  *)
(* who edits, approves and publishes it from one or more browser tabs      *)
(* (application/position_publishing_service.py, position_question_service, *)
(* position_service).  A request reads the configuration in one            *)
(* transaction and writes the whole row back in another; a change of the   *)
(* bank is one transaction and the revocation of the approval another.     *)
(***************************************************************************)
EXTENDS Naturals, FiniteSets

CONSTANTS Tabs,     \* requests of the recruiter that may be under way at once
          MaxEdits, \* bound: changes of the bank
          MaxTabRequests \* bound: requests of the recruiter

ASSUME TemplateAssumption == MaxEdits \in Nat /\ MaxTabRequests \in Nat

VARIABLES
    bank,     \* the bank's content: how often it has been changed, 0 is empty
    config,   \* the configuration row
    tab,      \* per tab: the request under way and the row it has read
    reviewed, \* history: the contents a recruiter has approved
    queues,   \* AUTO queues created for the position
    asked     \* requests begun

templateVars == <<bank, config, tab, reviewed, queues, asked>>

\* approvedBank is history: the content at the time of the approval.
Config == [approved : BOOLEAN, approvedBank : 0..(MaxEdits + 1),
           accept : BOOLEAN, autoQueue : Nat]

Request == {"idle", "settings", "approve", "publish", "unpublish", "revoke"}

TemplateTypeOK ==
    /\ bank \in 0..(MaxEdits + 1)
    /\ config \in Config
    /\ tab \in [Tabs -> [doing : Request, copy : Config]]
    /\ reviewed \subseteq 1..(MaxEdits + 1)
    /\ queues \in Nat
    /\ asked \in 0..MaxTabRequests

\* A position that has been approved and published.
TemplateInit ==
    /\ bank = 1
    /\ config = [approved |-> TRUE, approvedBank |-> 1, accept |-> TRUE, autoQueue |-> 1]
    /\ tab = [t \in Tabs |-> [doing |-> "idle", copy |-> config]]
    /\ reviewed = {1}
    /\ queues = 1
    /\ asked = 0

\* is_published, of the row as some request has read it.
IsPublished(c) == c.approved /\ c.accept

Begins(t) == tab[t].doing = "idle" /\ asked < MaxTabRequests /\ asked' = asked + 1
Done(t) == [tab EXCEPT ![t].doing = "idle"]

\* settings, approve_template, publish or unpublish reads the row, and refuses
\* what is not ready.
TabReads(t, request) ==
    /\ Begins(t)
    /\ request = "approve" => bank > 0
    /\ request = "publish" => config.approved
    /\ tab' = [tab EXCEPT ![t] = [doing |-> request, copy |-> config]]
    /\ UNCHANGED <<bank, config, reviewed, queues>>

SettingsSaved(t) ==
    /\ tab[t].doing = "settings"
    /\ config' = tab[t].copy
    /\ tab' = Done(t)
    /\ UNCHANGED <<bank, reviewed, queues, asked>>

TemplateApproved(t) ==
    /\ tab[t].doing = "approve"
    /\ config' = [tab[t].copy EXCEPT !.approved = TRUE, !.approvedBank = bank]
    /\ reviewed' = reviewed \union {bank}
    /\ tab' = Done(t)
    /\ UNCHANGED <<bank, queues, asked>>

\* The AUTO queue is created the first time.
Published(t) ==
    /\ tab[t].doing = "publish"
    /\ LET first == tab[t].copy.autoQueue = 0
       IN  /\ queues' = IF first THEN queues + 1 ELSE queues
           /\ config' = [tab[t].copy EXCEPT
                            !.accept = TRUE,
                            !.autoQueue = IF first THEN queues + 1 ELSE @]
    /\ tab' = Done(t)
    /\ UNCHANGED <<bank, reviewed, asked>>

Unpublished(t) ==
    /\ tab[t].doing = "unpublish"
    /\ config' = [tab[t].copy EXCEPT !.accept = FALSE]
    /\ tab' = Done(t)
    /\ UNCHANGED <<bank, reviewed, queues, asked>>

\* A question is added, changed, deleted or moved, or the position edited.
ContentEdited(t) ==
    /\ Begins(t)
    /\ bank < MaxEdits + 1
    /\ bank' = bank + 1
    /\ tab' = [tab EXCEPT ![t].doing = "revoke"]
    /\ UNCHANGED <<config, reviewed, queues>>

\* Mutant: a position that is published stays published.
Revoked_StaysPublished == [config EXCEPT !.approvedBank = 0]

\* revoke_approval's row.
Revoked == [config EXCEPT !.approved = FALSE, !.approvedBank = 0, !.accept = FALSE]

ApprovalRevoked(t) ==
    /\ tab[t].doing = "revoke"
    /\ config' = IF config.approved THEN Revoked ELSE config
    /\ tab' = Done(t)
    /\ UNCHANGED <<bank, reviewed, queues, asked>>

TemplateNext ==
    \E t \in Tabs :
        \/ \E request \in {"settings", "approve", "publish", "unpublish"} : TabReads(t, request)
        \/ SettingsSaved(t) \/ TemplateApproved(t) \/ Published(t) \/ Unpublished(t)
        \/ ContentEdited(t) \/ ApprovalRevoked(t)

\* Once no request is under way, what is published is what was approved
\* (screening_configs.py, revoke_approval: an approval never silently goes
\* stale).
PublishedIsReviewed ==
    (\A t \in Tabs : tab[t].doing = "idle") /\ IsPublished(config) =>
        config.approvedBank = bank
=============================================================================
