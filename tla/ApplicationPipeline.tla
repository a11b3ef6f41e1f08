------------------------ MODULE ApplicationPipeline ------------------------
(***************************************************************************)
(* From the public application form to the interview link in a mailbox:    *)
(* ApplicationPipelineService.apply and PipelineService.issue_invitation   *)
(* as requests that may run at once and die between any two transactions,  *)
(* the rate limiter, the durable links (interview_invitation_service,      *)
(* interview_landing_service), the recruiter's template and the email      *)
(* outbox.  One position; every step of a request is one transaction.      *)
(***************************************************************************)
EXTENDS TemplatePublishing, EmailOutbox

CONSTANTS Emails,       \* normalised addresses
          Requests,     \* requests the API may serve at once
          MaxPerDay,    \* max_applications_per_day of the position
          MaxRequests,  \* bound: requests served
          MaxMishaps,   \* bound: requests and workers that die, links that lapse
          AutoInvite    \* auto_create_invitation

ASSUME PipelineAssumption ==
    /\ Emails # {}
    /\ MaxPerDay \in Nat \ {0} /\ MaxRequests \in Nat /\ MaxMishaps \in Nat
    /\ AutoInvite \in BOOLEAN

VARIABLES
    application, \* job_applications, by address
    candidate,   \* candidates, by id
    link,        \* interview_invitations, by id
    req,         \* per request: where it is and what it holds
    served, crashes

pipelineVars == <<application, candidate, link, req, served, crashes>>
vars == <<application, candidate, link, req, served, crashes, templateVars, outboxVars>>

State == {"none", "received", "candidate_created", "plan_ready", "invited"}
Application == [state : State, candidate : Nat]
NoApplication == [state |-> "none", candidate |-> 0]

\* plan: the content of the bank its approved plan copies, 0 for no plan.
Candidate == [status : {"new", "applied", "queued", "invited"}, plan : Nat,
              item : {"none", "awaiting", "armed"}]

InvitationStatus == {"active", "revoked", "expired"}

\* lapsed: expires_at has passed.
Link == [candidate : Nat, status : InvitationStatus,
         lapsed : BOOLEAN]

Stage == {"idle", "lookup", "limit", "insert", "candidate", "applied", "record", "plan",
          "queue", "ready", "active", "revoke", "create", "email", "status", "invited"}

InitialReq == [at |-> "idle", email |-> CHOOSE e \in Emails : TRUE, apply |-> FALSE,
               copy |-> NoApplication, old |-> 0, new |-> 0]

Req == [at : Stage, email : Emails, apply : BOOLEAN, copy : Application,
        old : Nat, new : Nat]

PipelineInit ==
    /\ application = [e \in Emails |-> NoApplication]
    /\ candidate = << >>
    /\ link = << >>
    /\ req = [r \in Requests |-> InitialReq]
    /\ served = 0
    /\ crashes = 0

Init == PipelineInit /\ TemplateInit /\ OutboxInit

At(r, stage) == req[r].at = stage
Goes(r, stage) == [req EXCEPT ![r].at = stage]
Ends(r) == [req EXCEPT ![r] = InitialReq]
Mine(r) == req[r].copy.candidate      \* the candidate the request works for

Elsewhere == <<served, crashes, templateVars, outboxVars>>

-----------------------------------------------------------------------------
(* apply, up to a row on file.                                             *)

\* Slug and configuration are read; a job that is not published is not there.
Apply(r, e) ==
    /\ At(r, "idle") /\ served < MaxRequests
    /\ IsPublished(config)
    /\ served' = served + 1
    /\ req' = [req EXCEPT ![r] = [InitialReq EXCEPT !.at = "lookup", !.email = e, !.apply = TRUE]]
    /\ UNCHANGED <<application, candidate, link, crashes, templateVars, outboxVars>>

LookUp(r) ==
    /\ At(r, "lookup")
    /\ LET row == application[req[r].email]
       IN  req' = IF row.state = "none" THEN Goes(r, "limit")
                  ELSE [req EXCEPT ![r].at = "candidate", ![r].copy = row]
    /\ UNCHANGED <<application, candidate, link, Elsewhere>>

OnFile == {e \in Emails : application[e].state # "none"}

\* ApplicationRateLimiter.check, for applications of the same day.
LimitReached == Cardinality(OnFile) >= MaxPerDay

CheckLimit(r) ==
    /\ At(r, "limit")
    /\ req' = IF LimitReached THEN Ends(r) ELSE Goes(r, "insert")
    /\ UNCHANGED <<application, candidate, link, Elsewhere>>

\* create; a request that loses the race goes on with the other's row.
Insert(r) ==
    /\ At(r, "insert")
    /\ LET e == req[r].email
           row == IF application[e].state = "none"
                  THEN [NoApplication EXCEPT !.state = "received"] ELSE application[e]
       IN  /\ application' = [application EXCEPT ![e] = row]
           /\ req' = [req EXCEPT ![r].at = "candidate", ![r].copy = row]
    /\ UNCHANGED <<candidate, link, Elsewhere>>

-----------------------------------------------------------------------------
(* _advance.                                                               *)

\* _ensure_candidate creates a candidate unless the row read has one.
EnsureCandidate(r) ==
    /\ At(r, "candidate")
    /\ IF Mine(r) # 0
       THEN req' = Goes(r, "plan") /\ UNCHANGED candidate
       ELSE /\ candidate' = Append(candidate, [status |-> "new", plan |-> 0, item |-> "none"])
            /\ req' = [req EXCEPT ![r].at = "applied",
                                  ![r].copy.candidate = Len(candidate) + 1]
    /\ UNCHANGED <<application, link, Elsewhere>>

\* APPLIED, and the CV with it.
MarkApplied(r) ==
    /\ At(r, "applied")
    /\ candidate' = [candidate EXCEPT ![Mine(r)].status = "applied"]
    /\ req' = Goes(r, "record")
    /\ UNCHANGED <<application, link, Elsewhere>>

\* Mutant: only the state of the row is written.
RowWritten_StateOnly(r, state) ==
    [application EXCEPT ![req[r].email].state = state,
                        ![req[r].email].candidate = IF @ = 0 THEN Mine(r) ELSE @]

\* update writes the whole row from the request's copy.
RowWritten(r, state) ==
    [application EXCEPT ![req[r].email] = [req[r].copy EXCEPT !.state = state]]

SetState(r, stage, state, next) ==
    /\ At(r, stage)
    /\ application' = RowWritten(r, state)
    /\ req' = [req EXCEPT ![r].at = next, ![r].copy.state = state]
    /\ UNCHANGED <<candidate, link, Elsewhere>>

RecordCandidate(r) == SetState(r, "record", "candidate_created", "plan")

\* materialize_from_template copies the bank into a plan already approved.
MaterializePlan(r) ==
    /\ At(r, "plan")
    /\ IF req[r].copy.state = "candidate_created"
       THEN /\ candidate' = [candidate EXCEPT ![Mine(r)].plan = bank]
            /\ req' = Goes(r, "queue")
       ELSE /\ req' = IF req[r].copy.state = "plan_ready" /\ AutoInvite
                      THEN Goes(r, "active") ELSE Ends(r)
            /\ UNCHANGED candidate
    /\ UNCHANGED <<application, link, Elsewhere>>

\* _ensure_queued: an item the worker may not claim yet.
EnsureQueued(r) ==
    /\ At(r, "queue")
    /\ candidate' = IF candidate[Mine(r)].item # "none" THEN candidate
                    ELSE [candidate EXCEPT ![Mine(r)].item = "awaiting",
                             ![Mine(r)].status = IF @ \in {"new", "applied"} THEN "queued" ELSE @]
    /\ req' = Goes(r, "ready")
    /\ UNCHANGED <<application, link, Elsewhere>>

PlanReady(r) ==
    SetState(r, "ready", "plan_ready", IF AutoInvite THEN "active" ELSE "idle")

-----------------------------------------------------------------------------
(* issue_or_rotate, its email, and the recruiter's resend.                 *)

\* issue_invitation: a candidate on file with an item in the automatic queue.
Resend(r, e) ==
    /\ At(r, "idle") /\ served < MaxRequests
    /\ application[e].candidate # 0
    /\ candidate[application[e].candidate].item # "none"
    /\ served' = served + 1
    /\ req' = [req EXCEPT ![r] = [InitialReq EXCEPT !.at = "active", !.email = e,
                                                    !.copy = application[e]]]
    /\ UNCHANGED <<application, candidate, link, crashes, templateVars, outboxVars>>

ActiveLinks(c) == {i \in DOMAIN link : link[i].candidate = c /\ link[i].status = "active"}

ReadActive(r) ==
    /\ At(r, "active")
    /\ \/ ActiveLinks(Mine(r)) = {} /\ req' = Goes(r, "create")
       \/ \E i \in ActiveLinks(Mine(r)) :
             req' = [req EXCEPT ![r].at = "revoke", ![r].old = i]
    /\ UNCHANGED <<application, candidate, link, Elsewhere>>

Revoke(r) ==
    /\ At(r, "revoke")
    /\ link' = [link EXCEPT ![req[r].old].status = IF @ = "active" THEN "revoked" ELSE @]
    /\ req' = Goes(r, "create")
    /\ UNCHANGED <<application, candidate, Elsewhere>>

\* The partial unique index refuses a second active link.
CreateLink(r) ==
    /\ At(r, "create")
    /\ IF ActiveLinks(Mine(r)) # {}
       THEN req' = Ends(r) /\ UNCHANGED link
       ELSE /\ link' = Append(link, [candidate |-> Mine(r), status |-> "active",
                                     lapsed |-> FALSE])
            /\ req' = [req EXCEPT ![r].at = "email", ![r].new = Len(link) + 1]
    /\ UNCHANGED <<application, candidate, Elsewhere>>

EnqueueEmail(r) ==
    /\ At(r, "email")
    /\ outbox' = Enqueued(req[r].new)
    /\ req' = IF req[r].apply THEN Goes(r, "status") ELSE Ends(r)
    /\ UNCHANGED <<application, candidate, link, served, crashes, templateVars, sender, deaths>>

MarkInvited(r) ==
    /\ At(r, "status")
    /\ candidate' = [candidate EXCEPT ![Mine(r)].status = "invited"]
    /\ req' = Goes(r, "invited")
    /\ UNCHANGED <<application, link, Elsewhere>>

Invited(r) == SetState(r, "invited", "invited", "idle")

MishapsLeft == crashes + deaths + Cardinality({i \in DOMAIN link : link[i].lapsed}) < MaxMishaps

Crash(r) ==
    /\ ~At(r, "idle") /\ MishapsLeft
    /\ crashes' = crashes + 1
    /\ req' = Ends(r)
    /\ UNCHANGED <<application, candidate, link, served, templateVars, outboxVars>>

-----------------------------------------------------------------------------
(* The link: used to start, expired.                                       *)

\* Mutant: what the sweep has not yet seen still opens.
Resolves_ByStatus(i) == link[i].status = "active"

\* InterviewLandingService._resolve.
Resolves(i) == link[i].status = "active" /\ ~link[i].lapsed

\* start: arm_item is conditional on AWAITING_CANDIDATE.
StartInterview(i) ==
    /\ i \in DOMAIN link /\ Resolves(i)
    /\ candidate' = [candidate EXCEPT ![link[i].candidate].item =
                        IF @ = "awaiting" THEN "armed" ELSE @]
    /\ UNCHANGED <<application, link, req, Elsewhere>>

LinkLapses(i) ==
    /\ i \in DOMAIN link /\ ~link[i].lapsed /\ MishapsLeft
    /\ link' = [link EXCEPT ![i].lapsed = TRUE]
    /\ UNCHANGED <<application, candidate, req, Elsewhere>>

\* WorkerCycle's sweep, expire_stale.
ExpireStale ==
    /\ \E i \in DOMAIN link : link[i].status = "active" /\ link[i].lapsed
    /\ link' = [i \in DOMAIN link |->
                   IF link[i].status = "active" /\ link[i].lapsed
                   THEN [link[i] EXCEPT !.status = "expired"] ELSE link[i]]
    /\ UNCHANGED <<application, candidate, req, Elsewhere>>

-----------------------------------------------------------------------------

RequestStep(r) ==
    \/ LookUp(r) \/ CheckLimit(r) \/ Insert(r)
    \/ EnsureCandidate(r) \/ MarkApplied(r) \/ RecordCandidate(r)
    \/ MaterializePlan(r) \/ EnsureQueued(r) \/ PlanReady(r)
    \/ ReadActive(r) \/ Revoke(r) \/ CreateLink(r) \/ EnqueueEmail(r)
    \/ MarkInvited(r) \/ Invited(r)

LinkStep ==
    \/ \E i \in DOMAIN link : StartInterview(i) \/ LinkLapses(i)
    \/ ExpireStale

Next ==
    \/ \E r \in Requests : \/ RequestStep(r) \/ Crash(r)
                           \/ \E e \in Emails : Apply(r, e) \/ Resend(r, e)
    \/ LinkStep
    \/ TemplateNext /\ UNCHANGED <<pipelineVars, outboxVars>>
    \/ DispatchStep /\ UNCHANGED <<pipelineVars, templateVars>>
    \/ \E w \in Workers :
          MishapsLeft /\ WorkerDies(w) /\ UNCHANGED <<pipelineVars, templateVars>>

Spec == Init /\ [][Next]_vars

-----------------------------------------------------------------------------
(* Properties.                                                             *)

\* Types; an email is tried no more than its attempts and once per death.
TypeOK ==
    /\ application \in [Emails -> Application]
    /\ candidate \in Seq(Candidate)
    /\ link \in Seq(Link)
    /\ req \in [Requests -> Req]
    /\ served \in 0..MaxRequests /\ crashes \in 0..MaxMishaps
    /\ TemplateTypeOK /\ OutboxTypeOK

\* The row on file never claims more than was done for the candidate it names,
\* though requests for one address overwrite each other's rows and die half-way
\* (application_pipeline_service.py:10).
LinksOf(c) == {i \in DOMAIN link : link[i].candidate = c}
StateIsEarned ==
    \A e \in Emails :
        LET row == application[e]
        IN  /\ row.state \notin {"none", "received"} => row.candidate \in DOMAIN candidate
            /\ row.state \in {"plan_ready", "invited"} =>
                  candidate[row.candidate].plan > 0 /\ candidate[row.candidate].item # "none"
            /\ row.state = "invited" =>
                  \E i \in DOMAIN outbox : outbox[i].link \in LinksOf(row.candidate)

\* Only a link that resolves when it is used arms an interview: an interview
\* armed in a step is armed by a link neither revoked nor past its date, however
\* late the sweep is (invitations.py:9).
ArmedByLiveLink ==
    [][\A c \in DOMAIN candidate :
          candidate[c].item = "awaiting" /\ candidate'[c].item = "armed" =>
              \E i \in LinksOf(c) : link[i].status = "active" /\ ~link[i].lapsed]_vars

=============================================================================
