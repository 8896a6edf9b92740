------------------------------ MODULE Screens -------------------------------
(***************************************************************************)
(* The panels of the web client.  A panel shows what it last heard of the  *)
(* rows it is about: of all of them or, where the user chooses a client, a *)
(* manicurist, dates or filters, of those she chose.  A handler awaits one *)
(* call or a few; meanwhile the page goes on, other handlers run and the   *)
(* answers arrive in any order.  A behaviour is about one panel.           *)
(***************************************************************************)
EXTENDS Integers

CONSTANTS
    Calls,     \* calls in flight at a time, a bound
    Changes,   \* what is written to the rows, each once
    None

Keys == {"first", "second"}

\* then: what a handler does when its write is answered: it loads again, it
\* shows the rows of the answer, it patches what it shows, it had edited it
\* before, or it goes to another page; "load" asks without writing.  locks:
\* the button is disabled while a handler that locks is running.
Does(name, then, locks) == [name |-> name, then |-> then, locks |-> locks]

\* chooses: the rows are those of a key; latest: answers other than the last
\* one asked for are dropped; cached: the first key shows its first load again.
Panel(name, chooses, latest, handlers) ==
    [name |-> name, chooses |-> chooses, latest |-> latest, cached |-> FALSE, handlers |-> handlers]

-----------------------------------------------------------------------------
(* The panels of everybody.                                                *)

SessionIndicator == Panel("session", FALSE, FALSE, {Does("session-changed", "load", FALSE), Does("logout", "leave", TRUE)})
AccessGate == Panel("access", FALSE, FALSE, {Does("checkAccess", "load", FALSE)})
StudioBrand == Panel("brand", FALSE, FALSE, {Does("brand-changed", "load", FALSE)})
LoginForm == Panel("login", FALSE, FALSE, {Does("submit", "leave", TRUE)})
RegisterForm == Panel("register", FALSE, FALSE, {Does("submit", "leave", TRUE)})
RecoveryForm == Panel("recovery", FALSE, FALSE, {Does("requestCode", "answer", TRUE), Does("resetPassword", "leave", TRUE)})
VerifyPhoneForm == Panel("verify", FALSE, FALSE, {Does("submit", "leave", TRUE), Does("resend", "answer", TRUE)})
AccountPanel == Panel("account", FALSE, FALSE, {Does("changePassword", "patch", TRUE), Does("logout", "leave", TRUE)})
ProfileDataPanel ==
    Panel("profile", FALSE, FALSE, {Does("submit", "answer", TRUE), Does("submit to verify", "leave", TRUE)})
NotificationsPanel ==
    Panel("notifications", FALSE, FALSE, {Does("markRead", "patch", FALSE), Does("markAll", "patch", FALSE)})

(* Of the client.                                                          *)

CatalogPanel ==
    Panel("catalog", FALSE, TRUE, {Does("session-changed", "load", FALSE), Does("toggleFavorite", "patch", FALSE)})
BookingPanel == Panel("booking", TRUE, FALSE, {Does("reserve", "leave", TRUE)})
PaymentPanel ==
    Panel("payment", FALSE, FALSE,
          {Does("refreshDeposit", "load", TRUE), Does("poll", "load", FALSE), Does("upload", "answer", TRUE)})
MyLoyaltyPanel == Panel("my loyalty", FALSE, FALSE, {})

(* Of clients and staff.                                                   *)

QuotesPanel ==
    Panel("quotes", FALSE, FALSE, {Does("claim, assign or review", "reload", FALSE), Does("cancelQuote", "reload", TRUE)})
AppointmentsPanel ==
    Panel("appointments", FALSE, FALSE,
          {Does("createManual, updateStatus, cancel or reschedule", "reload", FALSE)})

(* Of the staff.                                                           *)

StaffLoyaltyPanel == Panel("staff loyalty", TRUE, FALSE, {Does("redeem or reverse", "reload", FALSE)})
IntegrationsPanel ==
    Panel("integrations", FALSE, FALSE,
          {Does("disconnectCalendar", "patch", FALSE), Does("connectCalendar", "leave", FALSE)})
SchedulePanel ==
    [Panel("schedule", TRUE, FALSE,
           {Does("saveWeekly", "edited", FALSE), Does("inheritGlobal", "answer", FALSE),
            Does("saveOverride, removeOverride or toggleBookings", "patch", FALSE)})
       EXCEPT !.cached = TRUE]

(* Of the administrator.                                                   *)

AdminUsersPanel ==
    Panel("users", TRUE, FALSE, {Does("createUser, updateUser or changeStatus", "reload", FALSE)})
AdminCatalogPanel ==
    Panel("admin catalog", FALSE, FALSE,
          {Does("saveDesign", "reload", TRUE), Does("removeDesign or an image", "patch", TRUE)})
AdminCalculatorPanel == Panel("admin calculator", FALSE, FALSE, {Does("saveOption", "reload", FALSE)})
AdminLoyaltyPanel ==
    Panel("admin loyalty", TRUE, FALSE,
          {Does("correctVisits or issuePromotion", "reload", FALSE), Does("saveRule or savePromotion", "reload", FALSE)})
AdminPaymentsPanel ==
    Panel("admin payments", FALSE, FALSE, {Does("saveSettings", "answer", FALSE), Does("review", "reload", TRUE)})
AdminNotificationsPanel == Panel("templates", FALSE, FALSE, {Does("save", "reload", FALSE)})
StudioSettingsPanel == Panel("studio", FALSE, FALSE, {Does("save or upload", "answer", TRUE)})
AdminDashboardPanel == Panel("dashboard", TRUE, FALSE, {Does("load", "load", TRUE)})
AdminAuditPanel == Panel("audit", TRUE, FALSE, {Does("apply", "load", TRUE)})
AdminReportsPanel == Panel("reports", TRUE, TRUE, {Does("load", "load", TRUE)})

Panels ==
    {SessionIndicator, AccessGate, StudioBrand, LoginForm, RegisterForm, RecoveryForm, VerifyPhoneForm,
     AccountPanel, ProfileDataPanel, NotificationsPanel, CatalogPanel, BookingPanel, PaymentPanel,
     MyLoyaltyPanel, QuotesPanel, AppointmentsPanel, StaffLoyaltyPanel, IntegrationsPanel, SchedulePanel,
     AdminUsersPanel, AdminCatalogPanel, AdminCalculatorPanel, AdminLoyaltyPanel, AdminPaymentsPanel,
     AdminNotificationsPanel, StudioSettingsPanel, AdminDashboardPanel, AdminAuditPanel, AdminReportsPanel}

-----------------------------------------------------------------------------

VARIABLES
    panel,
    key,       \* what the user has chosen
    shown,     \* the key and the changes of the rows on the page, or None
    first,     \* what the panel that caches heard first
    rows,      \* the changes in the database, by key
    call,      \* calls in flight
    last,      \* the load asked for last
    own,       \* history: the changes whose write was answered here
    crossed,   \* history: a call began while another was in flight
    failed,    \* history: a load, or the answer to a write, was lost
    astray     \* history: rows of one key were saved for another

vars == <<panel, key, shown, first, rows, call, last, own, crossed, failed, astray>>

Idle == [stage |-> "idle", does |-> None, of |-> "first", change |-> None, got |-> {}]

TypeOK ==
    /\ panel \in Panels /\ key \in Keys
    /\ shown = None \/ (shown.of \in Keys /\ shown.changes \subseteq Changes)
    /\ first \subseteq Changes
    /\ rows \in [Keys -> SUBSET Changes] /\ own \in [Keys -> SUBSET Changes]
    /\ \A c \in Calls :
         /\ call[c].stage \in {"idle", "asked", "served"}
         /\ call[c].does \in panel.handlers \union {None} /\ call[c].of \in Keys
         /\ call[c].change \in Changes \union {None} /\ call[c].got \subseteq Changes
    /\ last \in Calls \union {None}
    /\ crossed \in BOOLEAN /\ failed \in BOOLEAN /\ astray \in BOOLEAN

Init ==
    /\ panel \in Panels
    /\ key = "first" /\ shown = None /\ first = {}
    /\ rows = [k \in Keys |-> {}] /\ own = [k \in Keys |-> {}]
    /\ call = [c \in Calls |-> Idle] /\ last = None
    /\ crossed = FALSE /\ failed = FALSE /\ astray = FALSE

Busy == {c \in Calls : call[c].stage # "idle"}
IsLoad(c) == call[c].change = None

Page(k, changes) == [of |-> k, changes |-> changes]

\* A call begins in c; loads of a panel that keeps the latest may cross.
Begin(c, does, k, change) ==
    /\ call[c].stage = "idle"
    /\ call' = [call EXCEPT ![c] = [Idle EXCEPT !.stage = "asked", !.does = does, !.of = k, !.change = change]]
    /\ last' = IF change = None THEN c ELSE last
    /\ crossed' = (crossed \/ ~(Busy = {} \/ (panel.latest /\ change = None /\ \A b \in Busy : IsLoad(b))))

\* The first load, when the panel appears.
Mount(c) ==
    /\ shown = None /\ Busy = {}
    /\ Begin(c, None, key, None)
    /\ UNCHANGED <<panel, key, shown, first, rows, own, failed, astray>>

\* chooseTechnician, selectClient, chooseClient, dates, filters and tabs: the
\* choice is shown at once, its rows when they arrive.
Choose(c, k) ==
    /\ panel.chooses /\ shown # None /\ key # k
    /\ key' = k
    /\ IF panel.cached /\ k = "first"
       THEN /\ shown' = Page(k, first) /\ crossed' = (crossed \/ Busy # {})
            /\ UNCHANGED <<call, last>>
       ELSE Begin(c, None, k, None) /\ UNCHANGED shown
    /\ UNCHANGED <<panel, first, rows, own, failed, astray>>

Locked == \E b \in Busy : call[b].does # None /\ call[b].does.locks

\* A handler: a write of change x for the key of the moment, or a load.
Handle(c, h, x) ==
    /\ shown # None /\ h \in panel.handlers
    /\ ~(h.locks /\ Locked)
    /\ \A k \in Keys : x \notin rows[k]
    /\ \A b \in Busy : call[b].change # x \/ x = None
    /\ (x = None) <=> (h.then = "load")
    /\ Begin(c, h, key, x)
    /\ shown' = IF h.then = "edited" THEN [shown EXCEPT !.changes = @ \union {x}] ELSE shown
    /\ astray' = (astray \/ (h.then = "edited" /\ shown.of # key))
    /\ UNCHANGED <<panel, key, first, rows, own, failed>>

\* The API reads, or writes and reads.
Serve(c) ==
    /\ call[c].stage = "asked"
    /\ LET now == rows[call[c].of] \union (IF IsLoad(c) THEN {} ELSE {call[c].change})
       IN  /\ rows' = [rows EXCEPT ![call[c].of] = now]
           /\ call' = [call EXCEPT ![c].stage = "served", ![c].got = now]
    /\ UNCHANGED <<panel, key, shown, first, last, own, crossed, failed, astray>>

\* An error before or after the API did its part; a handler of several calls
\* may also stop after the first.  The page shows the error and nothing else.
Fail(c) ==
    /\ call[c].stage # "idle"
    /\ call' = [call EXCEPT ![c] = Idle]
    /\ failed' = (failed \/ shown # None)
    /\ UNCHANGED <<panel, key, shown, first, rows, last, own, crossed, astray>>

NeverStale(c) == FALSE

\* requestId # requestIdRef.current.
Stale(c) == panel.latest /\ last # c

ArriveLoad(c) ==
    /\ call[c].stage = "served" /\ IsLoad(c)
    /\ shown' = IF Stale(c) THEN shown ELSE Page(call[c].of, call[c].got)
    /\ first' = IF shown = None THEN call[c].got ELSE first
    /\ call' = [call EXCEPT ![c] = Idle]
    /\ UNCHANGED <<panel, key, rows, last, own, crossed, failed, astray>>

\* The write is answered; a reload asks for the key the handler began with.
\* A page that is left hears no more of its calls.
ArriveWrite(c) ==
    /\ call[c].stage = "served" /\ ~IsLoad(c)
    /\ own' = [own EXCEPT ![call[c].of] = @ \union {call[c].change}]
    /\ LET then == call[c].does.then
       IN  /\ IF then = "reload"
              THEN /\ call' = [call EXCEPT ![c].stage = "asked", ![c].change = None, ![c].got = {}]
                   /\ last' = c
              ELSE /\ call' = IF then = "leave" THEN [b \in Calls |-> Idle] ELSE [call EXCEPT ![c] = Idle]
                   /\ UNCHANGED last
           /\ shown' = CASE then = "answer" -> Page(call[c].of, call[c].got)
                         [] then = "patch" -> [shown EXCEPT !.changes = @ \union {call[c].change}]
                         [] then = "leave" -> None
                         [] OTHER -> shown
    /\ UNCHANGED <<panel, key, first, rows, crossed, failed, astray>>

\* Somebody else writes.
Elsewhere(k, x) ==
    /\ \A j \in Keys : x \notin rows[j]
    /\ \A b \in Busy : call[b].change # x
    /\ rows' = [rows EXCEPT ![k] = @ \union {x}]
    /\ UNCHANGED <<panel, key, shown, first, call, last, own, crossed, failed, astray>>

Next ==
    \/ \E c \in Calls :
         \/ Mount(c) \/ Serve(c) \/ Fail(c) \/ ArriveLoad(c) \/ ArriveWrite(c)
         \/ \E k \in Keys : Choose(c, k)
         \/ \E h \in panel.handlers, x \in Changes \union {None} : Handle(c, h, x)
    \/ \E k \in Keys, x \in Changes : Elsewhere(k, x)

Spec == Init /\ [][Next]_vars

-----------------------------------------------------------------------------
(* Properties.                                                             *)

\* At rest a panel shows the rows of the user's choice, with every change she
\* made to them and none that is not there, and no save carried the rows of one
\* choice to another, unless calls crossed or one was lost; a panel that drops
\* late answers may have crossed its loads.  The cache of schedule-panel keeps
\* even a change saved on this page out of the base hours it shows again.
ScreensTruthful ==
    (Busy = {} /\ shown # None /\ ~crossed /\ ~failed) =>
       /\ shown.of = key
       /\ own[key] \subseteq shown.changes \/ (panel.cached /\ key = "first")
       /\ shown.changes \subseteq rows[key]
       /\ ~astray

=============================================================================
