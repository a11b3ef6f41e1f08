---------------------------- MODULE VoiceInvites ----------------------------
(***************************************************************************)
(* application/voice_invite_service.py between the queue item, the         *)
(* candidate's page and the room: the signed invitation of an attempt, the *)
(* consent to be recorded, the room token.  An invitation and a token are  *)
(* in the candidate's hands and stay what they are when the attempt they   *)
(* were made for is over.  Signatures are taken to be sound, and a token   *)
(* to be used before its ttl ends: a lapsed one only keeps a candidate out.*)
(***************************************************************************)
EXTENDS Naturals

CONSTANT MaxCalls   \* bound: attempts of the item, each with its own session

ASSUME CallsAssumption == MaxCalls \in Nat \ {0}

VARIABLES
    item,      \* the queue item: the session of its latest attempt
    page,      \* the candidate's page: the invitation or token it holds
    consented, \* interview_consents: the sessions consented to
    room       \* the session whose room the candidate is in, 0 for none

inviteVars == <<item, page, consented, room>>

Item == [session : 0..MaxCalls, inFlight : BOOLEAN]
Page == [at : {"landing", "invited", "token", "room"}, session : 0..MaxCalls,
         lapsed : BOOLEAN]

InviteTypeOK ==
    /\ item \in Item /\ page \in Page
    /\ consented \subseteq 1..MaxCalls /\ room \in 0..MaxCalls

InviteInit ==
    /\ item = [session |-> 0, inFlight |-> FALSE]
    /\ page = [at |-> "landing", session |-> 0, lapsed |-> FALSE]
    /\ consented = {} /\ room = 0

-----------------------------------------------------------------------------
(* The worker's side, until the candidate holds a token: nothing after it  *)
(* looks at the item again, so the model lets it rest there.               *)

NoTokenYet == page.at \in {"landing", "invited"}

AttemptBegins ==
    /\ NoTokenYet /\ ~item.inFlight /\ item.session < MaxCalls
    /\ item' = [session |-> item.session + 1, inFlight |-> TRUE]
    /\ UNCHANGED <<page, consented, room>>

\* Settled, or taken from a worker that died; the room of the attempt stays.
AttemptOver ==
    /\ NoTokenYet /\ item.inFlight
    /\ item' = [item EXCEPT !.inFlight = FALSE]
    /\ UNCHANGED <<page, consented, room>>

-----------------------------------------------------------------------------
(* The candidate's side.                                                   *)

\* _stage_for: IN_PROGRESS with a session is "ready", the others have no link.
Ready == item.inFlight

\* create_invitation, by way of the landing page's status.
Invite ==
    /\ page.at = "landing" /\ Ready
    /\ page' = [at |-> "invited", session |-> item.session, lapsed |-> FALSE]
    /\ UNCHANGED <<item, consented, room>>

InvitationLapses ==
    /\ page.at = "invited" /\ ~page.lapsed
    /\ page' = [page EXCEPT !.lapsed = TRUE]
    /\ UNCHANGED <<item, consented, room>>

Reload ==
    /\ page.at = "invited"
    /\ page' = [at |-> "landing", session |-> 0, lapsed |-> FALSE]
    /\ UNCHANGED <<item, consented, room>>

\* One consent for a session: a second leaves the first as it is.
WithConsentFor(session) == consented \union {session}

\* record_consent: the invitation is all it asks for.
RecordConsent ==
    /\ page.at = "invited" /\ ~page.lapsed
    /\ consented' = WithConsentFor(page.session)
    /\ UNCHANGED <<item, page, room>>

\* Mutant: a candidate who has consented once is not asked again.
RequireConsent_OfCandidate == consented # {}

\* _require_consent, of a deployment that has recording_consent_required on.
RequireConsent == page.session \in consented

\* issue_room_token; whatever does not match is refused and changes nothing.
IssueRoomToken ==
    /\ page.at = "invited" /\ ~page.lapsed
    /\ item.session = page.session /\ item.inFlight
    /\ RequireConsent
    /\ page' = [page EXCEPT !.at = "token"]
    /\ UNCHANGED <<item, consented, room>>

\* The agent that was dispatched to the room has waited for this participant.
JoinRoom ==
    /\ page.at = "token"
    /\ room' = page.session
    /\ page' = [page EXCEPT !.at = "room"]
    /\ UNCHANGED <<item, consented>>

InviteStep ==
    \/ AttemptBegins \/ AttemptOver
    \/ Invite \/ InvitationLapses \/ Reload \/ RecordConsent
    \/ IssueRoomToken \/ JoinRoom

=============================================================================
