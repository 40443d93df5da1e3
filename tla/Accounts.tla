------------------------------- MODULE Accounts -------------------------------
(***************************************************************************)
(* What the gateway is set up with: state.json (onboarding, configuration,   *)
(* connected mailboxes), the credential vault and the sign-in sessions, and  *)
(* the endpoints that change them (main.py, main_v16.py, main_v180.py,       *)
(* oauth_controller.py, oauth_runtime.py, state.py).                         *)
(*                                                                          *)
(* state.json is read and written as a whole.  Between two awaits a handler  *)
(* is alone, so what it read before an await may be old when it writes.  A   *)
(* handler is modelled from await to await; `requests' holds those that wait *)
(* for an answer, with what they took along.                                 *)
(***************************************************************************)
EXTENDS Naturals

CONSTANTS
  Passworded,   \* mailboxes connected with a password (IMAP and SMTP)
  SignedIn,     \* mailboxes connected by a sign-in (Google, Microsoft)
  Sections,     \* configuration sections with an update of their own: behavior,
                \* profile, model_routing
  Models,       \* language models the owner chooses from
  Values,       \* values of a section
  Default,      \* the value onboarding gives to a section
  Sessions,     \* sign-in attempts
  Requests,     \* HTTP requests waiting for an answer, and the token refresh of a sync
  None,         \* an absent value
  MaxGrants     \* bound on the sign-ins

Mailboxes == Passworded \cup SignedIn

ASSUME AccountsAssumption ==
  /\ Passworded \cap SignedIn = {}
  /\ Default \in Values
  /\ None \notin Models \cup Values \cup Mailboxes \cup Sessions
  /\ "onboarding" \notin Sections \cup Mailboxes
  /\ "llm" \notin Sections \cup Mailboxes
  /\ Sections \cap Mailboxes = {}
  /\ None \notin [grant: 0..MaxGrants, calendar: BOOLEAN]
  /\ MaxGrants \in Nat

VARIABLES
  file,         \* state.json
  vault,        \* the credential of each mailbox
  sessions,     \* OAuthSessionStore, in memory
  requests,     \* the handlers that await something
  grants,       \* sign-ins the provider has granted
  redeemed,     \* sessions whose authorization code was exchanged
  wanted,       \* history: state.json if every change had touched only its own part
  reverted,     \* history: parts that a settings update set back to an older value
  outdated      \* history: mailboxes whose tokens a late refresh set back, or that
                \* were stored without the record that goes with them

history == <<wanted, reverted, outdated>>
accountVars ==
  <<file, vault, sessions, requests, grants, redeemed, wanted, reverted, outdated>>

-----------------------------------------------------------------------------
\* A credential: the sign-in it comes from (0: a password) and whether its
\* scope includes the calendar.
Credential == [grant: 0..MaxGrants, calendar: BOOLEAN]

\* A mailbox record names its credential by reference and repeats the scope.
Record == [calendar: BOOLEAN]

File ==
  [onboarded: BOOLEAN,
   llm: Models \cup {None},                     \* configuration, absent if None
   sections: [Sections -> Values \cup {None}],
   mailboxes: [Mailboxes -> Record \cup {None}]]

Parts == {"onboarding", "llm"} \cup Sections \cup Mailboxes

\* answered: complete, error or expired, which only the text on the page tells apart.
Session ==
  [status: {"absent", "pending", "answered"},
   purpose: {"mail", "calendar"},
   mailbox: SignedIn \cup {None}]

Idle == [op |-> "idle"]

Request ==
  {Idle}
  \cup [op: {"llm"}, read: File, value: Models]
  \cup [op: {"onboard"}, value: Models]
  \cup [op: {"probe"}, mailbox: Passworded]
  \cup [op: {"exchange"}, session: Sessions]
  \cup [op: {"identify"}, session: Sessions, credential: Credential]
  \cup [op: {"refresh"}, mailbox: SignedIn, credential: Credential]

NoFile ==
  [onboarded |-> FALSE, llm |-> None, sections |-> [x \in Sections |-> None],
   mailboxes |-> [m \in Mailboxes |-> None]]

AccountsTypeOK ==
  /\ file \in File
  /\ vault \in [Mailboxes -> Credential \cup {None}]
  /\ sessions \in [Sessions -> Session]
  /\ requests \in [Requests -> Request]
  /\ grants \in 0..MaxGrants
  /\ redeemed \subseteq Sessions
  /\ wanted \in File
  /\ reverted \subseteq Parts
  /\ outdated \subseteq SignedIn

AccountsInit ==
  /\ file = NoFile
  /\ vault = [m \in Mailboxes |-> None]
  /\ sessions = [s \in Sessions |-> [status |-> "absent", purpose |-> "mail", mailbox |-> None]]
  /\ requests = [r \in Requests |-> Idle]
  /\ grants = 0
  /\ redeemed = {}
  /\ wanted = NoFile
  /\ reverted = {}
  /\ outdated = {}

-----------------------------------------------------------------------------
(* Changes of state.json, as functions of the contents that were read.      *)

Configured(f) == f.llm # None

WithLlm(f, v) == [f EXCEPT !.llm = v]

WithSection(f, x, v) == [f EXCEPT !.sections[x] = v]

WithMailbox(f, m, record) == [f EXCEPT !.mailboxes[m] = record]

\* The configuration is made anew: model and profile from the request,
\* everything else its default.
WithOnboarding(f, v) ==
  [f EXCEPT !.onboarded = TRUE, !.llm = v, !.sections = [x \in Sections |-> Default]]

WithoutConfiguration(f) ==
  [f EXCEPT !.onboarded = FALSE, !.llm = None, !.sections = [x \in Sections |-> None]]

\* The parts in which two contents differ.
Differing(f, g) ==
  {p \in Parts :
     \/ p = "onboarding" /\ f.onboarded # g.onboarded
     \/ p = "llm" /\ f.llm # g.llm
     \/ p \in Sections /\ f.sections[p] # g.sections[p]
     \/ p \in Mailboxes /\ f.mailboxes[p] # g.mailboxes[p]}

Waiting(r, op) == requests[r].op = op

Ends(r) == requests' = [requests EXCEPT ![r] = Idle]

Begins(r, request) ==
  /\ requests[r] = Idle
  /\ requests' = [requests EXCEPT ![r] = request]

-----------------------------------------------------------------------------
(* Settings.                                                                *)

\* POST /v1/onboarding/complete: the provider is asked before state.json is read.
OnboardingBegin(r, v) ==
  /\ \E m \in Mailboxes : file.mailboxes[m] # None
  /\ Begins(r, [op |-> "onboard", value |-> v])
  /\ UNCHANGED <<file, vault, sessions, grants, redeemed, history>>

OnboardingComplete(r) ==
  /\ Waiting(r, "onboard")
  /\ file' = WithOnboarding(file, requests[r].value)
  /\ wanted' = WithOnboarding(wanted, requests[r].value)
  /\ reverted' = reverted \cap Mailboxes
  /\ Ends(r)
  /\ UNCHANGED <<vault, sessions, grants, redeemed, outdated>>

\* PUT /v1/settings/llm: state.json is read before the provider is asked ...
LlmBegin(r, v) ==
  /\ file.onboarded /\ Configured(file)
  /\ Begins(r, [op |-> "llm", read |-> file, value |-> v])
  /\ UNCHANGED <<file, vault, sessions, grants, redeemed, history>>

\* ... and written whole when it has answered.
LlmWrite(r) ==
  LET q == requests[r] IN
  /\ Waiting(r, "llm")
  /\ file' = WithLlm(q.read, q.value)
  /\ wanted' = WithLlm(wanted, q.value)
  /\ reverted' = (reverted \cup Differing(q.read, file)) \ {"llm"}
  /\ Ends(r)
  /\ UNCHANGED <<vault, sessions, grants, redeemed, outdated>>

UpdateSectionAnew(x, v) ==
  /\ file.onboarded /\ Configured(file)
  /\ file' = [WithSection(file, x, v) EXCEPT !.llm = None]
  /\ wanted' = WithSection(wanted, x, v)
  /\ reverted' = reverted \ {x}
  /\ UNCHANGED <<vault, sessions, requests, grants, redeemed, outdated>>

\* PUT /v1/settings/behavior, /profile and /model-routing, and accepting a
\* sender pattern (which adds a rule to behavior): no await.
UpdateSection(x, v) ==
  /\ file.onboarded /\ Configured(file)
  /\ file' = WithSection(file, x, v)
  /\ wanted' = WithSection(wanted, x, v)
  /\ reverted' = reverted \ {x}
  /\ UNCHANGED <<vault, sessions, requests, grants, redeemed, outdated>>

\* POST /v1/onboarding/reset.
Reset ==
  /\ file' = WithoutConfiguration(file)
  /\ wanted' = WithoutConfiguration(wanted)
  /\ reverted' = reverted \cap Mailboxes
  /\ UNCHANGED <<vault, sessions, requests, grants, redeemed, outdated>>

-----------------------------------------------------------------------------
(* Mailboxes.                                                               *)

\* POST /v1/mailboxes/probe: IMAP and SMTP are tried first.
ProbeBegin(r, m) ==
  /\ Begins(r, [op |-> "probe", mailbox |-> m])
  /\ UNCHANGED <<file, vault, sessions, grants, redeemed, history>>

\* vault.set_secret, then the mailbox record, without an await.
Connect(m, credential) ==
  LET record == [calendar |-> credential.calendar] IN
  /\ vault' = [vault EXCEPT ![m] = credential]
  /\ file' = WithMailbox(file, m, record)
  /\ wanted' = WithMailbox(wanted, m, record)
  /\ reverted' = reverted \ {m}
  /\ outdated' = outdated \ {m}

ProbeSucceeds(r) ==
  /\ Waiting(r, "probe")
  /\ Connect(requests[r].mailbox, [grant |-> 0, calendar |-> FALSE])
  /\ Ends(r)
  /\ UNCHANGED <<sessions, grants, redeemed>>

\* OAuthController.start_google, start_google_calendar, start_microsoft.  The
\* owner picks the account at the provider.
SignIn(s, purpose, m) ==
  /\ sessions[s].status = "absent"
  /\ sessions' = [sessions EXCEPT ![s] =
                    [status |-> "pending", purpose |-> purpose, mailbox |-> m]]
  /\ UNCHANGED <<file, vault, requests, grants, redeemed, history>>

\* The browser comes back with a code (it may do so twice).
Callback(r, s) ==
  /\ sessions[s].status = "pending"
  /\ Begins(r, [op |-> "exchange", session |-> s])
  /\ UNCHANGED <<file, vault, sessions, grants, redeemed, history>>

\* exchange_code: the provider accepts a code once.  The tokens of a calendar
\* sign-in have the calendar scopes, or the sign-in is refused.
Exchange(r) ==
  LET s == requests[r].session IN
  /\ Waiting(r, "exchange")
  /\ s \notin redeemed
  /\ grants < MaxGrants
  /\ grants' = grants + 1
  /\ redeemed' = redeemed \cup {s}
  /\ requests' = [requests EXCEPT ![r] =
       [op |-> "identify", session |-> s,
        credential |-> [grant |-> grants + 1,
                        calendar |-> sessions[s].purpose = "calendar"]]]
  /\ UNCHANGED <<file, vault, sessions, history>>

\* OAuthSessionStore.update, whatever status it replaces.
Answered(s) == [sessions EXCEPT ![s].status = "answered"]

\* The profile names the mailbox; tokens, record and session are stored.  If
\* the session expired meanwhile, the owner is told the sign-in failed.
SignInComplete(r) ==
  LET s == requests[r].session IN
  /\ Waiting(r, "identify")
  /\ Connect(sessions[s].mailbox, requests[r].credential)
  /\ sessions' = Answered(s)
  /\ Ends(r)
  /\ UNCHANGED <<grants, redeemed>>

\* Any exception in complete_google or complete_microsoft.
SignInFails(r) ==
  /\ requests[r].op \in {"exchange", "identify"}
  /\ sessions' = Answered(requests[r].session)
  /\ Ends(r)
  /\ UNCHANGED <<file, vault, grants, redeemed, history>>

\* OAuthController.fail: the browser comes back with an error or no code; or
\* OAuthSessionStore.cleanup after ttl_seconds.
SessionEnds(s) ==
  /\ sessions[s].status = "pending"
  /\ sessions' = Answered(s)
  /\ UNCHANGED <<file, vault, requests, grants, redeemed, history>>

\* current_google_access_token, current_microsoft_access_token: an expired
\* access token is refreshed with the refresh token read before the request ...
RefreshBegin(r, m) ==
  /\ file.mailboxes[m] # None
  /\ vault[m] # None
  /\ Begins(r, [op |-> "refresh", mailbox |-> m, credential |-> vault[m]])
  /\ UNCHANGED <<file, vault, sessions, grants, redeemed, history>>

\* ... and the tokens are saved with the scope of that refresh token.
RefreshSave(r) ==
  LET q == requests[r] IN
  /\ Waiting(r, "refresh")
  /\ vault' = [vault EXCEPT ![q.mailbox] = q.credential]
  /\ outdated' = IF vault[q.mailbox] # q.credential THEN outdated \cup {q.mailbox} ELSE outdated
  /\ Ends(r)
  /\ UNCHANGED <<file, sessions, grants, redeemed, wanted, reverted>>

-----------------------------------------------------------------------------
(* Failures.                                                                *)

\* A request whose awaited answer is an error ends without effect.
RequestFails(r) ==
  /\ requests[r].op \in {"llm", "onboard", "probe", "refresh"}
  /\ Ends(r)
  /\ UNCHANGED <<file, vault, sessions, grants, redeemed, history>>

\* Requests and sign-in sessions live in the memory of the process.
ProcessDies ==
  /\ requests' = [r \in Requests |-> Idle]
  /\ sessions' = [s \in Sessions |-> IF sessions[s].status = "absent" THEN sessions[s]
                                     ELSE [sessions[s] EXCEPT !.status = "answered"]]

Die ==
  /\ ProcessDies
  /\ UNCHANGED <<file, vault, grants, redeemed, history>>

DieInConnectRecordFirst(r) ==
  LET q == requests[r] IN
  /\ Waiting(r, "probe")
  /\ file' = WithMailbox(file, q.mailbox, [calendar |-> FALSE])
  /\ wanted' = WithMailbox(wanted, q.mailbox, [calendar |-> FALSE])
  /\ ProcessDies
  /\ UNCHANGED <<vault, grants, redeemed, reverted, outdated>>

\* The process dies between the credential and the record of a mailbox.
DieInConnect(r) ==
  LET q == requests[r] IN
  /\ \/ /\ Waiting(r, "probe")
        /\ vault' = [vault EXCEPT ![q.mailbox] = [grant |-> 0, calendar |-> FALSE]]
        /\ UNCHANGED outdated
     \/ /\ Waiting(r, "identify")
        /\ vault' = [vault EXCEPT ![sessions[q.session].mailbox] = q.credential]
        /\ outdated' = outdated \cup {sessions[q.session].mailbox}
  /\ ProcessDies
  /\ UNCHANGED <<file, grants, redeemed, wanted, reverted>>

-----------------------------------------------------------------------------
SettingsStep ==
  \/ \E r \in Requests, v \in Models : OnboardingBegin(r, v) \/ LlmBegin(r, v)
  \/ \E r \in Requests : OnboardingComplete(r) \/ LlmWrite(r)
  \/ \E x \in Sections, v \in Values : UpdateSection(x, v)
  \/ Reset

MailboxStep ==
  \/ \E r \in Requests, m \in Passworded : ProbeBegin(r, m)
  \/ \E s \in Sessions, p \in {"mail", "calendar"}, m \in SignedIn : SignIn(s, p, m)
  \/ \E r \in Requests, s \in Sessions : Callback(r, s)
  \/ \E r \in Requests :
       ProbeSucceeds(r) \/ Exchange(r) \/ SignInComplete(r) \/ SignInFails(r) \/ RefreshSave(r)
  \/ \E s \in Sessions : SessionEnds(s)
  \/ \E r \in Requests, m \in SignedIn : RefreshBegin(r, m)

AccountsNext ==
  \/ SettingsStep
  \/ MailboxStep
  \/ \E r \in Requests : RequestFails(r) \/ DieInConnect(r)
  \/ Die

AccountsSpec == AccountsInit /\ [][AccountsNext]_accountVars

-----------------------------------------------------------------------------
\* Whatever the owner was told is set stays set until it is changed by name:
\* requests that overlap never undo each other, but for the parts a model
\* change wrote back from an older state.json (main.py update_llm_settings).
AcceptedStands == Differing(file, wanted) \subseteq reverted

\* Every mailbox on record has a credential, and one recorded with calendar
\* access has one of that scope; so a sign-in that is told complete works
\* after any crash, but for a refresh that was under way while the owner signed
\* in again, for a sign-in that a death cut between tokens and record, and for a
\* record a model change wrote back.
MailboxBacked ==
  \A m \in Mailboxes : file.mailboxes[m] # None =>
    /\ vault[m] # None
    /\ file.mailboxes[m].calendar => vault[m].calendar \/ m \in outdated \/ m \in reverted

\* After a reset the agent has no configuration to work with until onboarding
\* is completed again (main_v180.py reset_onboarding).
ResetHolds == file.onboarded => wanted.onboarded
=============================================================================
