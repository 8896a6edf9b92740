----------------------------- MODULE Messaging ------------------------------
(***************************************************************************)
(* How a code or a notice leaves the studio: the environment the API       *)
(* starts with, which it refuses in production when it is not complete;    *)
(* the choice between WhatsApp's cloud, the SMTP server and a mock; the    *)
(* provider, which may take a message and never answer; and the page that  *)
(* tells the staff which channels are real.                                *)
(***************************************************************************)
EXTENDS Integers

CONSTANTS
    Destinations,
    Testers,       \* those in WHATSAPP_DEVELOPMENT_TEXT_OTP_RECIPIENTS when it is set
    None

VARIABLES
    env,       \* the environment, a switch per variable or group of variables
    api,       \* "down", "up" or "refused"
    message,   \* the message on its way
    taken,     \* what the provider took of it
    answer     \* what the caller got

vars == <<env, api, message, taken, answer>>

\* debug: OTP_MOCK_DEBUG_ENABLED, testing: text recipients set, whatsapp and
\* smtp: enabled, account: phone id and token, otp and reset: templates, mailbox:
\* SMTP user and password, rest: every other required value is there.
Environment ==
    [node : {"production", "development", "other"}, debug : BOOLEAN, testing : BOOLEAN,
     whatsapp : BOOLEAN, provider : {"cloud", "mock", "unsupported"}, account : BOOLEAN,
     otp : BOOLEAN, reset : BOOLEAN, smtp : BOOLEAN, mailbox : BOOLEAN, rest : BOOLEAN]

CodeMessages == [kind : {"code"}, channel : {"WHATSAPP", "EMAIL"}, to : Destinations,
          purpose : {"VERIFY_PHONE", "RESET_PASSWORD"}]
Notices == [kind : {"notice"}, channel : {"WHATSAPP", "EMAIL"}, to : Destinations,
            purpose : {"template", "no template"}]

Refusals == {"unsupported", "not configured", "not delivered"}

TypeOK ==
    /\ env \in Environment
    /\ api \in {"down", "up", "refused"}
    /\ message = None \/ message \in CodeMessages \union Notices
    /\ taken \in {"nothing", "text", "template", "mail"}
    /\ answer \in {"none", "mock", "mock with code", "whatsapp-cloud", "smtp"} \union Refusals

Init ==
    /\ env \in Environment
    /\ api = "down" /\ message = None /\ taken = "nothing" /\ answer = "none"

-----------------------------------------------------------------------------
(* environment.ts                                                          *)

CanExposeMockOtpCode == env.node = "development" /\ env.debug
HasDevelopmentRecipients == env.node = "development" /\ env.testing
CanUseDevelopmentText(to) == HasDevelopmentRecipients /\ to \in Testers

\* The mailbox stands for the three values SMTP requires.
ValidateEnvironment ==
    env.node = "production" =>
       /\ env.rest /\ ~env.debug /\ ~env.testing
       /\ env.whatsapp => env.provider = "cloud" /\ env.account /\ env.otp
       /\ env.smtp => env.mailbox

Start ==
    /\ api = "down"
    /\ api' = IF ValidateEnvironment THEN "up" ELSE "refused"
    /\ UNCHANGED <<env, message, taken, answer>>

-----------------------------------------------------------------------------
(* MessagingService: what it does before it calls a provider, or "call".   *)

MockOtpReceipt == IF CanExposeMockOtpCode THEN "mock with code" ELSE "not configured"
MockNotice == IF env.node = "production" THEN "not configured" ELSE "mock"

WithoutWhatsApp == ~env.whatsapp \/ env.provider = "mock"
WithoutMail == ~env.mailbox \/ ~env.smtp

TemplateOfItsOwn(purpose) == IF purpose = "VERIFY_PHONE" THEN env.otp ELSE env.reset

Template(purpose) == IF purpose = "VERIFY_PHONE" THEN env.otp ELSE env.reset \/ env.otp

SendWhatsApp(m) ==
    CASE WithoutWhatsApp -> MockOtpReceipt
      [] ~WithoutWhatsApp /\ env.provider = "unsupported" -> "unsupported"
      [] OTHER -> IF env.account /\ (CanUseDevelopmentText(m.to) \/ Template(m.purpose))
                  THEN "call" ELSE "not configured"

SendWhatsAppTemplate(m) ==
    CASE WithoutWhatsApp -> MockNotice
      [] ~WithoutWhatsApp /\ env.provider = "unsupported" -> "unsupported"
      [] OTHER -> IF env.account /\ m.purpose = "template" THEN "call" ELSE "not configured"

SendEmail(m) == IF WithoutMail THEN MockOtpReceipt ELSE "call"
SendNotificationEmail(m) == IF WithoutMail THEN MockNotice ELSE "call"

Choice(m) ==
    IF m.kind = "code"
    THEN IF m.channel = "WHATSAPP" THEN SendWhatsApp(m) ELSE SendEmail(m)
    ELSE IF m.channel = "WHATSAPP" THEN SendWhatsAppTemplate(m) ELSE SendNotificationEmail(m)

\* sendCode and sendNotification.
Send(m) ==
    /\ api = "up" /\ message = None
    /\ message' = m /\ taken' = "nothing"
    /\ answer' = IF Choice(m) = "call" THEN "none" ELSE Choice(m)
    /\ UNCHANGED <<env, api>>

Calling == message # None /\ answer = "none"

Body ==
    IF message.channel = "EMAIL" THEN "mail"
    ELSE IF message.kind = "code" /\ CanUseDevelopmentText(message.to) THEN "text" ELSE "template"

\* Fifteen seconds are given to each provider.
ProviderTakes ==
    /\ Calling /\ taken = "nothing"
    /\ taken' = Body
    /\ UNCHANGED <<env, api, message, answer>>

ProviderAnswers ==
    /\ Calling /\ taken # "nothing"
    /\ answer' = IF message.channel = "EMAIL" THEN "smtp" ELSE "whatsapp-cloud"
    /\ UNCHANGED <<env, api, message, taken>>

\* It refuses, cannot be reached, or its answer does not arrive in time.
ProviderFails ==
    /\ Calling
    /\ answer' = "not delivered"
    /\ UNCHANGED <<env, api, message, taken>>

Done ==
    /\ message # None /\ answer # "none"
    /\ message' = None /\ taken' = "nothing" /\ answer' = "none"
    /\ UNCHANGED <<env, api>>

Next ==
    \/ Start \/ ProviderTakes \/ ProviderAnswers \/ ProviderFails \/ Done
    \/ \E m \in CodeMessages \union Notices : Send(m)

Spec == Init /\ [][Next]_vars

-----------------------------------------------------------------------------
(* IntegrationStatusController.status                                      *)

WhatsAppConfigured == env.provider = "cloud" /\ env.account /\ env.otp
WhatsAppTesting == env.whatsapp /\ HasDevelopmentRecipients /\ env.provider = "cloud" /\ env.account

WhatsAppMode ==
    CASE WhatsAppTesting -> "testing"
      [] ~WhatsAppTesting /\ env.whatsapp /\ WhatsAppConfigured -> "real"
      [] OTHER -> IF CanExposeMockOtpCode THEN "development" ELSE "unavailable"

EmailMode ==
    IF env.smtp /\ env.mailbox THEN "real"
    ELSE IF CanExposeMockOtpCode THEN "development" ELSE "unavailable"

ModeOf(channel) == IF channel = "WHATSAPP" THEN WhatsAppMode ELSE EmailMode

-----------------------------------------------------------------------------
(* Properties.                                                             *)

\* An API that production let start never hands a code to whoever asked for
\* it, never takes a mock for a delivery and sends no code as free text, which
\* goes to the testers alone.
MocksStayInDevelopment ==
    /\ message # None /\ env.node = "production" => answer \notin {"mock", "mock with code"}
    /\ answer = "mock with code" => env.node = "development" /\ env.debug
    /\ taken = "text" => env.node = "development" /\ message.to \in Testers

\* A receipt of a provider follows what the provider took.
ReceiptsFollowTaking == answer \in {"whatsapp-cloud", "smtp"} => taken # "nothing"

\* A channel the page calls real turns no code away for its configuration; of
\* one it calls unavailable no code to verify a telephone ever comes out.
StatusTellsTruth ==
    message # None /\ message.kind = "code" =>
       /\ ModeOf(message.channel) = "real" => answer \in {"none", "not delivered", "whatsapp-cloud", "smtp"}
       /\ ModeOf(message.channel) = "unavailable" /\ message.purpose = "VERIFY_PHONE" =>
            taken = "nothing" /\ answer \notin {"none", "mock", "mock with code"}

MessagingOK == MocksStayInDevelopment /\ ReceiptsFollowTaking /\ StatusTellsTruth

=============================================================================
