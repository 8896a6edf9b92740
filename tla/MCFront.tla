------------------------------ MODULE MCFront ------------------------------
(***************************************************************************)
(* What requests go through side by side: quotes, accounts, sessions,      *)
(* routes, messages and pages.  What each keeps the others only read, so a *)
(* behaviour is one of a single part, chosen at its start.  A constant or  *)
(* a variable that two parts name alike has its part's name before it.     *)
(***************************************************************************)
EXTENDS CustomQuotes, TLC

CONSTANTS
    Users, Codes, Phones, Targets, MaxAttempts,
    Sessions, Logins, MaxLoginAttempts, MaxFailed, MaxEpoch,
    RouteClients, Technicians, Administrators, RouteRequests,
    Destinations, Testers,
    Calls, Changes

VARIABLES
    part,
    user, lapsed, code, cooling, accountProc, proved,
    account, session, epoch, login, late, died,
    row, off, must, routeReq,
    env, api, message, taken, answer,
    panel, key, shown, first, rows, call, last, own, crossed, failed, astray

A == INSTANCE Accounts WITH proc <- accountProc

\* What AccountsProofs assumes of the constants.
ASSUME AccountsParameters == MaxAttempts \in Nat /\ Targets \subseteq A!Statuses

L == INSTANCE Access

G == INSTANCE Routes WITH Clients <- RouteClients, Requests <- RouteRequests, req <- routeReq

M == INSTANCE Messaging

S == INSTANCE Screens

\* What FrontProofs assumes of them: a limit is at least one, a user has one
\* role, and null is no user, message, change or page.
ASSUME FrontAssumption ==
    /\ {MaxLoginAttempts, MaxFailed, MaxEpoch} \subseteq Nat /\ MaxLoginAttempts > 0
    /\ RouteClients \intersect Technicians = {} /\ None \notin G!AllUsers \union Changes
    /\ None \notin M!CodeMessages \union M!Notices
    /\ None \notin [of : S!Keys, changes : SUBSET Changes]

accountsVars == <<user, lapsed, code, cooling, accountProc, proved>>
accessVars == <<account, session, epoch, login, late, died>>
routeVars == <<row, off, must, routeReq>>
messagingVars == <<env, api, message, taken, answer>>
screenVars == <<panel, key, shown, first, rows, call, last, own, crossed, failed, astray>>

\* The parts that are not chosen stay as they begin, or their variables None.
FrontInit ==
    /\ part \in {"quotes", "accounts", "access", "routes", "messaging", "screens"}
    /\ Init
    /\ \/ part = "accounts" /\ A!Init
       \/ /\ part # "accounts"
          /\ user = None /\ lapsed = None /\ code = None
          /\ cooling = None /\ accountProc = None /\ proved = None
    /\ \/ part = "access" /\ L!Init
       \/ /\ part # "access"
          /\ account = None /\ session = None /\ epoch = None
          /\ login = None /\ late = None /\ died = None
    /\ \/ part = "routes" /\ G!Init
       \/ /\ part # "routes"
          /\ row = None /\ off = None /\ must = None /\ routeReq = None
    /\ \/ part = "messaging" /\ M!Init
       \/ /\ part # "messaging"
          /\ env = None /\ api = None /\ message = None /\ taken = None /\ answer = None
    /\ \/ part = "screens" /\ S!Init
       \/ /\ part # "screens"
          /\ panel = None /\ key = None /\ shown = None /\ first = None /\ rows = None
          /\ call = None /\ last = None /\ own = None
          /\ crossed = None /\ failed = None /\ astray = None

\* The other parts stand still.
Others ==
    /\ UNCHANGED part
    /\ IF part = "quotes" THEN TRUE ELSE UNCHANGED vars
    /\ IF part = "accounts" THEN TRUE ELSE UNCHANGED accountsVars
    /\ IF part = "access" THEN TRUE ELSE UNCHANGED accessVars
    /\ IF part = "routes" THEN TRUE ELSE UNCHANGED routeVars
    /\ IF part = "messaging" THEN TRUE ELSE UNCHANGED messagingVars
    /\ IF part = "screens" THEN TRUE ELSE UNCHANGED screenVars

\* Keys are fresh and differ in nothing else: they are made in one order.
KeysInOrder == \A i \in used', j \in Images : j < i => j \in used'

QuotesNext == part = "quotes" /\ Others /\ Next /\ KeysInOrder
AccountsNext == part = "accounts" /\ Others /\ A!Next
AccessNext == part = "access" /\ Others /\ L!Next
RoutesNext == part = "routes" /\ Others /\ G!Next
MessagingNext == part = "messaging" /\ Others /\ M!Next
ScreensNext == part = "screens" /\ Others /\ S!Next

FrontNext ==
    \/ QuotesNext \/ AccountsNext \/ AccessNext
    \/ RoutesNext \/ MessagingNext \/ ScreensNext

FrontSpec ==
    FrontInit
    /\ [][FrontNext]_<<part, vars, accountsVars, accessVars, routeVars,
                       messagingVars, screenVars>>

\* The parts reuse the same pairs of values, so that there are few permutations.
Symmetry == Permutations(Requests) \union Permutations(Techs)

-----------------------------------------------------------------------------

\* The tables, requests and histories of the other parts keep their types.
FrontTypeOK ==
    /\ part = "accounts" => A!TypeOK
    /\ part = "access" => L!TypeOK
    /\ part = "routes" => G!TypeOK
    /\ part = "messaging" => M!TypeOK
    /\ part = "screens" => S!TypeOK

\* Accounts: of the requests that answer a code, one at most is accepted, while
\* the code is open and has attempts left.
CodesAnswerOnce == [][part = "accounts" => A!AnswersOnce]_accountsVars

\* Accounts: an answered code activates an account with the phone it was sent to.
CodeActivatesProven == [][part = "accounts" => A!ActivatesProven]_accountsVars

\* Accounts: an answered code never ends a pause.
PauseBeatsCode == [][part = "accounts" => A!PauseStays]_accountsVars

\* Access and Routes: failed logins lock the account, whatever ends sessions
\* ends them, and a route serves only who may use it.
SessionsGuarded ==
    /\ part = "access" => L!LockedAtLimit /\ L!OldSessionsExplained
    /\ part = "routes" => G!ServedRightly

\* Screens and Messaging: what a page shows, and what the API says of its
\* messages, is so.
ToldTruthfully ==
    /\ part = "screens" => S!ScreensTruthful
    /\ part = "messaging" => M!MessagingOK

=============================================================================
