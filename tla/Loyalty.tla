------------------------------ MODULE Loyalty ------------------------------
(***************************************************************************)
(* Visits, reward rules, promotions and coupons of LoyaltyService.  A      *)
(* client's visits are the sum of her entries; reaching a rule's number    *)
(* grants its coupon.  The transactions run at READ COMMITTED: each        *)
(* statement reads what others have committed, and what a transaction      *)
(* inserts is seen when it commits.  The wording of rules, promotions and  *)
(* coupons is left out.                                                    *)
(***************************************************************************)
EXTENDS Integers, FiniteSets

CONSTANTS
    Clients, Techs, Admin,
    Rules, Promotions,        \* identifiers of rows
    Appointments,
    ClientOf, TechOf,         \* client and technician of an appointment
    Requests,
    Numbers,                  \* visit numbers of rules
    Totals,                   \* bound: totals that corrections start from and set
    None                      \* null

Keys == Clients \X (Rules \union Promotions)   \* the two unique indexes

ASSUME LoyaltyAssumption ==
    /\ ClientOf \in [Appointments -> Clients]
    /\ TechOf \in [Appointments -> Techs]
    /\ Numbers \subseteq Nat \ {0} /\ Totals \subseteq Nat
    /\ Rules \intersect Promotions = {}
    /\ Admin \notin Techs
    /\ None \notin Appointments \union Clients

VARIABLES
    visits,    \* sum of client_visit_entries.delta, by client
    rule,      \* table reward_rules
    promo,     \* table promotions
    coupon,    \* table client_coupons
    appt,      \* status of the appointments
    proc,      \* what each request is doing
    gone,      \* requests whose coupon row was deleted since they read it
    raced      \* history: clients whose visits or rules were worked on twice at once

vars == <<visits, rule, promo, coupon, appt, proc, gone, raced>>

NoCoupon == [status |-> "ABSENT", appt |-> None]
Available == [status |-> "AVAILABLE", appt |-> None]
Coupon == [status : {"ABSENT", "AVAILABLE", "REDEEMED"}, appt : Appointments \union {None}]

RuleRow == [present : BOOLEAN, active : BOOLEAN, number : Nat]

Counting == {"counting", "recounting"}    \* recounting: after a correction
Syncing == Counting \union {"withdrawing", "choosing", "granting"}
Ruling == {"ruled", "totalling", "issuing"}
Stages == Syncing \union Ruling \union {"idle", "promoting", "redeeming", "reversing"}

\* keys: coupons to grant, or the one coupon a redemption is about.
Proc == [stage : Stages, client : Clients \union {None}, appt : Appointments \union {None},
         delta : Int, count : Int, rules : SUBSET Rules, keys : SUBSET Keys, withdrawn : SUBSET Keys]

Idle == [stage |-> "idle", client |-> None, appt |-> None, delta |-> 0,
         count |-> 0, rules |-> {}, keys |-> {}, withdrawn |-> {}]

TypeOK ==
    /\ visits \in [Clients -> Int]
    /\ rule \in [Rules -> RuleRow]
    /\ promo \in [Promotions -> {"ABSENT", "ACTIVE", "INACTIVE"}]
    /\ coupon \in [Keys -> Coupon]
    /\ appt \in [Appointments -> {"CONFIRMED", "COMPLETED", "CANCELLED"}]
    /\ proc \in [Requests -> Proc]
    /\ gone \subseteq Requests
    /\ raced \subseteq Clients

Init ==
    /\ visits = [c \in Clients |-> 0]
    /\ rule = [k \in Rules |-> [present |-> FALSE, active |-> FALSE, number |-> 0]]
    /\ promo = [p \in Promotions |-> "ABSENT"]
    /\ coupon = [k \in Keys |-> NoCoupon]
    /\ appt = [a \in Appointments |-> "CONFIRMED"]
    /\ proc = [r \in Requests |-> Idle]
    /\ gone = {} /\ raced = {}

-----------------------------------------------------------------------------
(* Who else is at work.                                                    *)

\* Clients whose rewards a request is working out.
Touches(r) ==
    IF proc[r].stage \in Syncing THEN {proc[r].client}
    ELSE IF proc[r].stage \in Ruling THEN Clients ELSE {}

Overlaps(cs) == cs \intersect UNION {Touches(r) : r \in Requests}

\* Rows another transaction has deleted and not committed.
LockedFor(r, ks) == \E q \in Requests \ {r} : proc[q].withdrawn \intersect ks # {}

GrantedAnew(ks) == [k \in ks |-> Available]

Granted(ks) ==
    [k \in Keys |-> IF k \in ks /\ coupon[k].status = "ABSENT" THEN Available ELSE coupon[k]]

-----------------------------------------------------------------------------
(* syncRewards, inside the transaction that adds a visit entry.            *)

Reached(k, n) == rule[k].present /\ rule[k].active /\ rule[k].number <= n

\* AppointmentService.updateStatus: registerCompletedAppointment.
Complete(r, a) ==
    /\ proc[r].stage = "idle"
    /\ appt[a] = "CONFIRMED"
    /\ \A q \in Requests : proc[q].stage \in Syncing => proc[q].appt # a
    /\ proc' = [proc EXCEPT ![r] = [Idle EXCEPT !.stage = "counting", !.client = ClientOf[a],
                                                !.appt = a, !.delta = 1]]
    /\ raced' = raced \union Overlaps({ClientOf[a]})
    /\ UNCHANGED <<visits, rule, promo, coupon, appt, gone>>

CorrectVisits(r, c, n) ==
    /\ proc[r].stage = "idle"
    /\ n # visits[c] /\ visits[c] \in Totals
    /\ proc' = [proc EXCEPT ![r] = [Idle EXCEPT !.stage = "recounting", !.client = c,
                                                !.delta = n - visits[c]]]
    /\ raced' = raced \union Overlaps({c})
    /\ UNCHANGED <<visits, rule, promo, coupon, appt, gone>>

SyncCountBefore(r) ==
    /\ proc[r].stage \in Counting
    /\ proc' = [proc EXCEPT
          ![r].count = visits[proc[r].client],
          ![r].stage = IF proc[r].stage = "recounting" THEN "withdrawing" ELSE "choosing"]
    /\ UNCHANGED <<visits, rule, promo, coupon, appt, gone, raced>>

\* The transaction sees its own entry.
SyncCount(r) ==
    /\ proc[r].stage \in Counting
    /\ proc' = [proc EXCEPT
          ![r].count = visits[proc[r].client] + proc[r].delta,
          ![r].stage = IF proc[r].stage = "recounting" THEN "withdrawing" ELSE "choosing"]
    /\ UNCHANGED <<visits, rule, promo, coupon, appt, gone, raced>>

UnearnedAny(c, n) ==
    {k \in {c} \X Rules : coupon[k].status # "ABSENT" /\ rule[k[2]].number > n}

Unearned(c, n) ==
    {k \in {c} \X Rules : coupon[k].status = "AVAILABLE" /\ rule[k[2]].number > n}

SyncWithdraw(r) ==
    LET ks == Unearned(proc[r].client, proc[r].count) IN
    /\ proc[r].stage = "withdrawing"
    /\ ~LockedFor(r, ks)
    /\ proc' = [proc EXCEPT ![r].withdrawn = ks, ![r].stage = "choosing"]
    /\ UNCHANGED <<visits, rule, promo, coupon, appt, gone, raced>>

SyncChoose(r) ==
    /\ proc[r].stage = "choosing"
    /\ proc' = [proc EXCEPT
          ![r].keys = {proc[r].client} \X {k \in Rules : Reached(k, proc[r].count)},
          ![r].stage = "granting"]
    /\ UNCHANGED <<visits, rule, promo, coupon, appt, gone, raced>>

\* createMany skipDuplicates, and the commit.
SyncCommit(r) ==
    LET p == proc[r] IN
    /\ p.stage = "granting"
    /\ ~LockedFor(r, p.keys)
    /\ coupon' = [k \in Keys |->
          IF k \in p.keys /\ (coupon[k].status = "ABSENT" \/ k \in p.withdrawn) THEN Available
          ELSE IF k \in p.withdrawn THEN NoCoupon ELSE coupon[k]]
    /\ gone' = (gone \union {q \in Requests : proc[q].stage \in {"redeeming", "reversing"}
                                  /\ proc[q].keys \intersect p.withdrawn # {}}) \ {r}
    /\ visits' = [visits EXCEPT ![p.client] = visits[p.client] + p.delta]
    /\ appt' = [a \in Appointments |-> IF a = p.appt THEN "COMPLETED" ELSE appt[a]]
    /\ proc' = [proc EXCEPT ![r] = Idle]
    /\ UNCHANGED <<rule, promo, raced>>

\* A cancellation from elsewhere; the row is locked while it is completed.
Cancel(a) ==
    /\ appt[a] = "CONFIRMED"
    /\ \A q \in Requests : proc[q].stage \in Syncing => proc[q].appt # a
    /\ appt' = [appt EXCEPT ![a] = "CANCELLED"]
    /\ UNCHANGED <<visits, rule, promo, coupon, proc, gone, raced>>

-----------------------------------------------------------------------------
(* createRule, updateRule: the rule is committed, and coupons for the      *)
(* clients who already qualify are issued afterwards, without transaction. *)

NumberFree(k, n) == \A j \in Rules \ {k} : rule[j].present => rule[j].number # n

SaveRule(r, k, n, active) ==
    /\ proc[r].stage = "idle"
    /\ NumberFree(k, n)
    /\ rule' = [rule EXCEPT ![k] = [present |-> TRUE, active |-> active, number |-> n]]
    /\ proc' = [proc EXCEPT ![r] = [Idle EXCEPT !.stage = "ruled", !.rules = {k}]]
    /\ raced' = raced \union Overlaps(Clients)
    /\ UNCHANGED <<visits, promo, coupon, appt, gone>>

ReadRule(r) ==
    LET k == CHOOSE k \in proc[r].rules : TRUE IN
    /\ proc[r].stage = "ruled"
    /\ proc' = [proc EXCEPT ![r] = IF rule[k].active
                     THEN [proc[r] EXCEPT !.count = rule[k].number, !.stage = "totalling"]
                     ELSE Idle]
    /\ UNCHANGED <<visits, rule, promo, coupon, appt, gone, raced>>

\* groupBy over the entries: a client without entries has no total.
IssueTotals(r) ==
    /\ proc[r].stage = "totalling"
    /\ proc' = [proc EXCEPT
          ![r].keys = {c \in Clients : visits[c] >= proc[r].count} \X proc[r].rules,
          ![r].stage = "issuing"]
    /\ UNCHANGED <<visits, rule, promo, coupon, appt, gone, raced>>

IssueToEligible(r) ==
    /\ proc[r].stage = "issuing"
    /\ ~LockedFor(r, proc[r].keys)
    /\ coupon' = Granted(proc[r].keys)
    /\ proc' = [proc EXCEPT ![r] = Idle]
    /\ UNCHANGED <<visits, rule, promo, appt, gone, raced>>

-----------------------------------------------------------------------------
(* Promotions.                                                             *)

SavePromotion(p, active) ==
    /\ promo' = [promo EXCEPT ![p] = IF active THEN "ACTIVE" ELSE "INACTIVE"]
    /\ UNCHANGED <<visits, rule, coupon, appt, proc, gone, raced>>

IssueCheck(r, p, c) ==
    /\ proc[r].stage = "idle"
    /\ promo[p] = "ACTIVE"
    /\ proc' = [proc EXCEPT ![r] = [Idle EXCEPT !.stage = "promoting", !.keys = {<<c, p>>}]]
    /\ UNCHANGED <<visits, rule, promo, coupon, appt, gone, raced>>

\* A second coupon of the promotion breaks the unique index and is refused.
IssuePromotion(r) ==
    /\ proc[r].stage = "promoting"
    /\ coupon' = Granted(proc[r].keys)
    /\ proc' = [proc EXCEPT ![r] = Idle]
    /\ UNCHANGED <<visits, rule, promo, appt, gone, raced>>

-----------------------------------------------------------------------------
(* redeem and reverse.                                                     *)

CanRedeemOn(a) == appt[a] \in {"CONFIRMED", "COMPLETED"}

OwnCoupon(k, a) == ClientOf[a] = k[1]

RedeemRead(r, actor, k, a) ==
    /\ proc[r].stage = "idle"
    /\ coupon[k].status = "AVAILABLE"
    /\ OwnCoupon(k, a)
    /\ CanRedeemOn(a)
    /\ actor \in {Admin, TechOf[a]}
    /\ proc' = [proc EXCEPT ![r] = [Idle EXCEPT !.stage = "redeeming", !.keys = {k}, !.appt = a]]
    /\ UNCHANGED <<visits, rule, promo, coupon, appt, gone, raced>>

NoIndex(k, a) == TRUE

\* The unique index on redeemedAppointmentId.
IndexAdmits(k, a) == \A j \in Keys \ {k} : coupon[j].appt # a

RedeemWrite(r, k) ==
    LET a == proc[r].appt
        matches == r \notin gone /\ coupon[k].status = "AVAILABLE" /\ IndexAdmits(k, a) IN
    /\ proc[r].stage = "redeeming" /\ proc[r].keys = {k}
    /\ ~LockedFor(r, {k})
    /\ coupon' = IF matches THEN [coupon EXCEPT ![k] = [status |-> "REDEEMED", appt |-> a]]
                 ELSE coupon
    /\ proc' = [proc EXCEPT ![r] = Idle]
    /\ gone' = gone \ {r}
    /\ UNCHANGED <<visits, rule, promo, appt, raced>>

ReverseRead(r, k) ==
    /\ proc[r].stage = "idle"
    /\ coupon[k].status = "REDEEMED"
    /\ proc' = [proc EXCEPT ![r] = [Idle EXCEPT !.stage = "reversing", !.keys = {k},
                                                !.appt = coupon[k].appt]]
    /\ UNCHANGED <<visits, rule, promo, coupon, appt, gone, raced>>

\* The update names the row by its id only.
ReverseWrite(r, k) ==
    /\ proc[r].stage = "reversing" /\ proc[r].keys = {k}
    /\ ~LockedFor(r, {k})
    /\ coupon' = IF r \notin gone THEN [coupon EXCEPT ![k] = Available] ELSE coupon
    /\ proc' = [proc EXCEPT ![r] = Idle]
    /\ gone' = gone \ {r}
    /\ UNCHANGED <<visits, rule, promo, appt, raced>>

\* The process or the database fails: a transaction is undone, but a rule
\* already saved stays without the coupons it owes.
Abandon(r) ==
    /\ proc[r].stage # "idle"
    /\ proc' = [proc EXCEPT ![r] = Idle]
    /\ gone' = gone \ {r}
    /\ raced' = IF proc[r].stage \in Ruling THEN Clients ELSE raced
    /\ UNCHANGED <<visits, rule, promo, coupon, appt>>

-----------------------------------------------------------------------------

Next ==
    \/ \E a \in Appointments : Cancel(a)
    \/ \E p \in Promotions, active \in BOOLEAN : SavePromotion(p, active)
    \/ \E r \in Requests :
        \/ \E a \in Appointments : Complete(r, a)
        \/ \E c \in Clients, n \in Totals : CorrectVisits(r, c, n)
        \/ SyncCount(r) \/ SyncWithdraw(r) \/ SyncChoose(r) \/ SyncCommit(r)
        \/ \E k \in Rules, n \in Numbers, active \in BOOLEAN : SaveRule(r, k, n, active)
        \/ ReadRule(r) \/ IssueTotals(r) \/ IssueToEligible(r)
        \/ \E p \in Promotions, c \in Clients : IssueCheck(r, p, c)
        \/ IssuePromotion(r)
        \/ \E k \in Keys, a \in Appointments, actor \in Techs \union {Admin} :
               RedeemRead(r, actor, k, a)
        \/ \E k \in Keys : RedeemWrite(r, k) \/ ReverseRead(r, k) \/ ReverseWrite(r, k)
        \/ Abandon(r)

Spec == Init /\ [][Next]_vars

-----------------------------------------------------------------------------
(* Properties.                                                             *)

\* Coupons are not combined and not lent, however redemptions race: an
\* appointment carries at most one redeemed coupon, of its own client
\* (docs/ROADMAP.md:214).
NotCombined ==
    \A k \in Keys : coupon[k].status = "REDEEMED" =>
        /\ coupon[k].appt \in Appointments /\ ClientOf[coupon[k].appt] = k[1]
        /\ \A j \in Keys \ {k} : coupon[j].appt # coupon[k].appt

\* The state profile shows for a rule of the client's journey.
JourneyState(c, k) ==
    IF coupon[<<c, k>>].status = "ABSENT" THEN "LOCKED" ELSE coupon[<<c, k>>].status

\* When nothing is in progress, no rule the client has reached is shown as
\* locked, whatever corrections, completions and edits of rules came before,
\* unless two of them overlapped or the process died after saving a rule.
EarnedIsGranted ==
    (\A r \in Requests : proc[r].stage = "idle") =>
        \A c \in Clients \ raced, k \in Rules :
            Reached(k, visits[c]) => JourneyState(c, k) # "LOCKED"

\* A used coupon is never withdrawn by a correction of visits nor moved to
\* another appointment: only a reversal takes it back, so a milestone is not
\* granted again while its coupon is used (docs/ROADMAP.md:221).
UsedStays ==
    [][\A k \in Keys : coupon[k].status = "REDEEMED" =>
          coupon'[k] \in {coupon[k], Available}]_vars

=============================================================================
