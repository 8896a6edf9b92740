------------------------------- MODULE Routes -------------------------------
(***************************************************************************)
(* Who the API serves: the routes of every controller with the roles their *)
(* decorators name, the two guards, and the access to a row that the       *)
(* services check afterwards.  A request reads its user once, in the guard;*)
(* meanwhile the administrator may pause that user and the row may pass to *)
(* another manicurist.  A route is named after its handler.                *)
(***************************************************************************)
EXTENDS Integers, FiniteSets

CONSTANTS Clients, Technicians, Administrators, Requests, None

VARIABLES
    row,     \* the quote or the appointment (with its deposit) asked for
    off,     \* users that are not ACTIVE
    must,    \* users with mustChangePassword
    req      \* what each request is doing

vars == <<row, off, must, req>>

AllUsers == Clients \union Technicians \union Administrators

CLIENT == "CLIENT"
NAIL_TECHNICIAN == "NAIL_TECHNICIAN"
ADMIN == "ADMIN"
Roles == {CLIENT, NAIL_TECHNICIAN, ADMIN}
Staff == {ADMIN, NAIL_TECHNICIAN}
Anyone == Roles \union {"PUBLIC"}

RoleOf(u) ==
    IF u \in Clients THEN CLIENT ELSE IF u \in Technicians THEN NAIL_TECHNICIAN
    ELSE IF u \in Administrators THEN ADMIN ELSE "PUBLIC"

-----------------------------------------------------------------------------
(* The controllers: each route with the roles it lets in.                  *)

For(roles, handlers) == {[name |-> h, roles |-> roles] : h \in handlers}

CatalogRoutes ==
    For(Anyone, {"designs", "design", "catalogImage", "calculator", "optionIcon"})
      \union For(Roles, {"personalizedDesigns", "quotes", "quote", "uploadQuoteImage", "quoteImage"})
      \union For({CLIENT}, {"favorite", "createQuote", "cancelQuote"})
      \union For({NAIL_TECHNICIAN}, {"claimQuote"})
      \union For({ADMIN}, {"assignQuote"})
      \union For(Staff, {"reviewQuote"})

AdminCatalogRoutes ==
    For({ADMIN}, {"adminDesigns", "createDesign", "updateDesign", "deleteDesign", "uploadDesignImage",
                  "deleteDesignImage", "setDesignCover", "adminCalculator", "createOption",
                  "updateOption", "uploadOptionIcon"})

AdminUsersRoutes ==
    For({ADMIN}, {"listUsers", "getUser", "createUser", "updateUser", "updateUserStatus",
                  "requestPasswordReset"})

\* Those with AllowPasswordChangeRequired are in PasswordRoutes.
AuthRoutes ==
    For(Anyone, {"registerClient", "verifyPhone", "resendVerification", "login", "forgotPassword",
                 "resetPassword"})
      \union For(Roles, {"me", "updateProfile", "changePassword", "logout", "logoutAll"})

PasswordRoutes == {"me", "changePassword", "logout", "logoutAll"}

AdminSchedulingRoutes ==
    For({ADMIN}, {"schedulingConfiguration", "updateGlobal", "updatePolicy", "technicianSchedule",
                  "updateTechnicianWeekly", "useTechnicianGlobal", "setTechnicianAccepting",
                  "setTechnicianOverride", "removeTechnicianOverride"})

SchedulingRoutes ==
    For(Anyone, {"policy", "technicians", "availability"})
      \union For({NAIL_TECHNICIAN}, {"mySchedule", "updateMyWeekly", "useMyGlobal", "setMyAccepting",
                                     "setMyOverride", "removeMyOverride"})

AppointmentsRoutes ==
    For(Roles, {"appointments", "reschedule", "cancel"})
      \union For({CLIENT}, {"hold"})
      \union For(Staff, {"createManual", "updateStatus"})

LoyaltyRoutes ==
    For({CLIENT}, {"myLoyalty"})
      \union For(Staff, {"loyaltyClients", "clientLoyalty", "redeem"})
      \union For({ADMIN}, {"correctVisits", "reverse"})

AdminLoyaltyRoutes ==
    For({ADMIN}, {"loyaltyConfiguration", "createRule", "updateRule", "createPromotion",
                  "updatePromotion", "issuePromotion"})

NotificationsRoutes == For(Roles, {"notifications", "unreadCount", "markRead", "markAllRead"})

AdminNotificationsRoutes == For({ADMIN}, {"templates", "deliveries", "updateTemplate"})

CalendarRoutes ==
    For({NAIL_TECHNICIAN}, {"calendarStatus", "calendarConnect", "calendarDisconnect"})
      \union For(Anyone, {"calendarCallback"})

IntegrationRoutes == For(Staff, {"integrationStatus"})

HealthRoutes == For(Anyone, {"live", "ready"})

\* Public for the guards; the handler asks for the secret it shares with the worker.
BackgroundJobsRoutes == For(Anyone, {"runJob"})

StudioRoutes == For(Anyone, {"studioSettings", "logo", "icon"})

AdminOperationsRoutes ==
    For({ADMIN}, {"dashboard", "reportAppointments", "reportDeposits", "reportClients",
                  "reportDesigns", "reportTechnicians", "audit", "exportReport", "adminStudio",
                  "updateStudio", "uploadLogo", "uploadIcon"})

PaymentsRoutes ==
    For(Anyone, {"policies"})
      \union For(Roles, {"paymentSettings", "deposits", "deposit", "confirmation", "receipt"})
      \union For({CLIENT}, {"uploadReceipt"})

AdminPaymentsRoutes == For({ADMIN}, {"adminPaymentSettings", "updatePaymentSettings", "reviewDeposit"})

Routes ==
    UNION {CatalogRoutes, AdminCatalogRoutes, AdminUsersRoutes, AuthRoutes, AdminSchedulingRoutes,
           SchedulingRoutes, AppointmentsRoutes, LoyaltyRoutes, AdminLoyaltyRoutes,
           NotificationsRoutes, AdminNotificationsRoutes, CalendarRoutes, IntegrationRoutes,
           HealthRoutes, BackgroundJobsRoutes, StudioRoutes, AdminOperationsRoutes,
           PaymentsRoutes, AdminPaymentsRoutes}

Open(route) == "PUBLIC" \in route.roles

-----------------------------------------------------------------------------
(* The rows and the access the services check.                             *)

Kinds == {"quote", "appointment"}

\* open: a quote that is PENDING_REVIEW.
Row == [kind : Kinds, client : Clients, preferred : Technicians \union {None},
        technician : Technicians \union {None}, open : BOOLEAN]

QuoteRoutes == {"quote", "quotes", "quoteImage", "uploadQuoteImage", "claimQuote", "assignQuote",
                "reviewQuote", "cancelQuote"}
AppointmentRoutes == {"appointments", "reschedule", "cancel", "updateStatus", "deposit", "deposits",
                      "confirmation", "receipt", "uploadReceipt", "redeem", "reviewDeposit"}

About(name) ==
    IF name \in QuoteRoutes THEN "quote" ELSE IF name \in AppointmentRoutes THEN "appointment" ELSE "none"

Claimable(t) == row.open /\ row.technician = None /\ row.preferred \in {None, t}

CanTechnicianAccessClosed(t) ==
    row.technician = t \/ (row.technician = None /\ row.preferred \in {None, t})

\* canTechnicianAccessQuote, the same condition as in listQuotes.
CanTechnicianAccess(t) == row.technician = t \/ Claimable(t)

\* What each handler about a quote asks of a client and of a manicurist.
QuoteAccess(name, u) ==
    CASE RoleOf(u) = CLIENT -> row.client = u
      [] RoleOf(u) = NAIL_TECHNICIAN ->
           IF name = "claimQuote" THEN Claimable(u)
           ELSE IF name \in {"uploadQuoteImage", "reviewQuote"} THEN row.technician = u
           ELSE CanTechnicianAccess(u)
      [] OTHER -> TRUE

\* findAuthorized of appointments and of deposits, and the lists' conditions.
\* The receipt itself and its upload are the client's alone.
AppointmentAccess(name, u) ==
    CASE RoleOf(u) = CLIENT -> row.client = u
      [] RoleOf(u) = NAIL_TECHNICIAN -> row.technician = u /\ name # "receipt"
      [] OTHER -> name # "uploadReceipt"

Access(name, u) ==
    CASE About(name) = "quote" -> QuoteAccess(name, u)
      [] About(name) = "appointment" -> AppointmentAccess(name, u)
      [] OTHER -> TRUE

-----------------------------------------------------------------------------

\* overtaken: the user or the row changed after the request read it.
Idle == [stage |-> "idle", name |-> "none", user |-> None, overtaken |-> FALSE]

TypeOK ==
    /\ row \in Row
    /\ off \subseteq AllUsers /\ must \subseteq AllUsers
    /\ \A r \in Requests :
         /\ req[r].stage \in {"idle", "admitted", "serving"}
         /\ req[r].user \in AllUsers \union {None}
         /\ req[r].overtaken \in BOOLEAN

Init ==
    /\ row \in {w \in Row : IF w.kind = "quote" THEN w.open /\ w.technician = None
                            ELSE w.technician # None /\ w.preferred = None /\ ~w.open}
    /\ off = {} /\ must = {}
    /\ req = [r \in Requests |-> Idle]

Become(r, p) == req' = [req EXCEPT ![r] = p]

RolesAllowStaff(route, u) ==
    RoleOf(u) \in (IF ADMIN \in route.roles THEN route.roles \union Staff ELSE route.roles)

\* RolesGuard.
RolesAllow(route, u) == RoleOf(u) \in route.roles

\* AuthGuard: a public route asks for no session.
Guards(r, u) ==
    /\ req[r].stage = "idle" /\ u \notin off
    /\ \E route \in Routes :
         /\ IF u = None THEN Open(route)
            ELSE /\ ~Open(route)
                 /\ u \in must => route.name \in PasswordRoutes
                 /\ RolesAllow(route, u)
         /\ Become(r, [stage |-> "admitted", name |-> route.name, user |-> u, overtaken |-> FALSE])
    /\ UNCHANGED <<row, off, must>>

\* The handler reads the row, if it is about one, and checks the access.
Handle(r) ==
    /\ req[r].stage = "admitted"
    /\ About(req[r].name) \in {row.kind, "none"}
    /\ IF Access(req[r].name, req[r].user)
       THEN Become(r, [req[r] EXCEPT !.stage = "serving"]) ELSE Become(r, Idle)
    /\ UNCHANGED <<row, off, must>>

Answer(r) ==
    /\ req[r].stage = "serving" \/ About(req[r].name) \notin {row.kind, "none"}
    /\ Become(r, Idle)
    /\ UNCHANGED <<row, off, must>>

-----------------------------------------------------------------------------
(* What other requests do meanwhile.                                       *)

Overtake(rs) ==
    req' = [r \in Requests |->
              IF r \in rs /\ req[r].stage # "idle" THEN [req[r] EXCEPT !.overtaken = TRUE] ELSE req[r]]

ByUser(u) == {r \in Requests : req[r].user = u}
OnRow == {r \in Requests : req[r].stage = "serving" /\ About(req[r].name) = row.kind}

\* One user at a time is paused or has a password to change: a bound.
Pause(u) ==
    /\ off = {} /\ must = {} /\ off' = {u} /\ Overtake(ByUser(u)) /\ UNCHANGED <<row, must>>

Activate(u) ==
    /\ u \in off /\ off' = {} /\ UNCHANGED <<row, must, req>>

RequirePassword(u) ==
    /\ off = {} /\ must = {} /\ must' = {u} /\ Overtake(ByUser(u)) /\ UNCHANGED <<row, off>>

ChangePassword(u) ==
    /\ u \in must /\ must' = {} /\ UNCHANGED <<row, off, req>>

\* A claim, an assignment, a decision; a reschedule to somebody else.
PassTo(t) ==
    /\ row.technician # t
    /\ row' = [row EXCEPT !.technician = t, !.open = FALSE]
    /\ Overtake(OnRow)
    /\ UNCHANGED <<off, must>>

\* Cancelled or decided without a manicurist.
CloseQuote ==
    /\ row.open
    /\ row' = [row EXCEPT !.open = FALSE]
    /\ Overtake(OnRow)
    /\ UNCHANGED <<off, must>>

Next ==
    \/ \E r \in Requests :
         \/ \E u \in AllUsers \union {None} : Guards(r, u)
         \/ Handle(r) \/ Answer(r)
    \/ \E u \in AllUsers : Pause(u) \/ Activate(u) \/ RequirePassword(u) \/ ChangePassword(u)
    \/ \E t \in Technicians : PassTo(t)
    \/ CloseQuote

Spec == Init /\ [][Next]_vars

-----------------------------------------------------------------------------
(* Properties.                                                             *)

\* What the decisions leave to the administrator alone.
AdministratorsAlone ==
    {"createDesign", "updateDesign", "deleteDesign", "uploadDesignImage", "setDesignCover",
     "createOption", "updateOption", "uploadOptionIcon", "assignQuote", "correctVisits", "reverse",
     "createRule", "updateRule", "reviewDeposit", "updatePolicy", "updateGlobal", "updateTemplate",
     "updateStudio", "uploadLogo", "uploadIcon", "createUser", "updateUserStatus"}

Serving(r) == req[r].stage = "serving"

\* Whatever is being served: the administrator's alone for her, a client only
\* what is hers, the original receipt to nobody else but the administrator, a
\* manicurist her own appointments, and the quotes she has or may take, which
\* others lose once it is taken; nothing to a user paused or told to change the
\* password.  The exception is what changed after the request had read it.
ServedRightly ==
    \A r \in Requests : Serving(r) =>
       LET u == req[r].user
           name == req[r].name
       IN  /\ name \in AdministratorsAlone => u \in Administrators
           /\ u \in Clients /\ About(name) # "none" => row.client = u
           /\ name = "receipt" => u \in Administrators \union {row.client}
           /\ \/ req[r].overtaken
              \/ /\ u \notin off /\ (u \in must => name \in PasswordRoutes)
                 /\ u \in Technicians /\ About(name) # "none" =>
                      \/ row.technician = u
                      \/ About(name) = "quote" /\ row.technician = None /\ row.open
                           /\ row.preferred \in {None, u}

=============================================================================
