--------------------------- MODULE LoyaltyProofs ---------------------------
(***************************************************************************)
(* What Loyalty keeps, for any clients, rules, promotions, appointments    *)
(* and requests.                                                           *)
(***************************************************************************)
EXTENDS Loyalty, TLAPS

\* What a request carries: whose visits it works on, the one rule it issues
\* for, and an appointment of the client whose coupon it redeems.
CarriesRightly(p) ==
    /\ p.stage \in Syncing => p.client \in Clients
    /\ p.stage \in Ruling => \E k \in Rules : p.rules = {k}
    /\ p.stage = "redeeming" => /\ p.appt \in Appointments
                                /\ \A k \in p.keys : OwnCoupon(k, p.appt)
    /\ \A k \in p.withdrawn : k[1] = p.client /\ p.stage \in Syncing

Carries == \A r \in Requests : CarriesRightly(proc[r])

\* A coupon deleted and not committed is unused, and deleted once.
Withdrawals ==
    \A r \in Requests : \A k \in proc[r].withdrawn :
        /\ coupon[k].status = "AVAILABLE"
        /\ \A q \in Requests \ {r} : k \notin proc[q].withdrawn

\* One request at most works on a client who is not in raced.
Alone ==
    \A c \in Clients \ raced : \A q, r \in Requests :
        c \in Touches(q) /\ c \in Touches(r) => q = r

\* A request is on its way to give the client the coupon of the rule.
Owes(r, c, k) ==
    /\ proc[r].stage \in Ruling /\ proc[r].rules = {k}
    /\ proc[r].stage = "totalling" => proc[r].count = rule[k].number
    /\ proc[r].stage = "issuing" => <<c, k>> \in proc[r].keys

\* A coupon that was earned and is missing is on its way.
Owed ==
    \A c \in Clients \ raced, k \in Rules :
        Reached(k, visits[c]) /\ coupon[<<c, k>>].status = "ABSENT" =>
            \E r \in Requests : Owes(r, c, k)

\* What a transaction has counted and chosen for a client nobody else works on.
CountedRightly(p) ==
    p.stage \in Syncing /\ p.client \in Clients \ raced =>
        /\ p.stage \notin Counting => p.count = visits[p.client] + p.delta
        /\ p.stage = "granting" => p.keys = {p.client} \X {k \in Rules : Reached(k, p.count)}

Counted == \A r \in Requests : CountedRightly(proc[r])

IInv == TypeOK /\ Carries /\ Withdrawals /\ NotCombined /\ Alone /\ Owed /\ Counted

\* What a step may do to the coupons: give some, take back or withdraw some,
\* or redeem one.
Gives ==
    \A k \in Keys : \/ coupon'[k] = coupon[k]
                    \/ coupon'[k] = Available
                    \/ coupon'[k] = NoCoupon /\ coupon[k].status = "AVAILABLE"

Redeems ==
    \E k \in Keys, a \in Appointments :
        /\ coupon[k].status = "AVAILABLE" /\ OwnCoupon(k, a) /\ IndexAdmits(k, a)
        /\ coupon' = [coupon EXCEPT ![k] = [status |-> "REDEEMED", appt |-> a]]

-----------------------------------------------------------------------------

LEMMA InitIInv == Init => IInv
  <1> SUFFICES ASSUME Init PROVE IInv
    OBVIOUS
  <1> USE LoyaltyAssumption DEF Init, Idle, Syncing, Counting, Ruling
  <1>1. TypeOK
    BY DEF TypeOK, RuleRow, NoCoupon, Coupon, Proc, Stages
  <1>2. Carries /\ Withdrawals /\ Counted
    BY DEF Carries, CarriesRightly, Withdrawals, Counted, CountedRightly
  <1>3. NotCombined
    BY DEF NotCombined, NoCoupon
  <1>4. Alone /\ Owed
    BY DEF Alone, Touches, Owed, Reached
  <1> QED
    BY <1>1, <1>2, <1>3, <1>4 DEF IInv

-----------------------------------------------------------------------------
(* The coupons.                                                            *)

LEMMA GivesKeeps ==
    ASSUME TypeOK, NotCombined, coupon' \in [Keys -> Coupon], Gives
    PROVE  NotCombined' /\ \A k \in Keys :
               coupon[k].status = "REDEEMED" => coupon'[k] \in {coupon[k], Available}
  <1> USE LoyaltyAssumption DEF TypeOK, Available, NoCoupon, Coupon
  <1>1. ASSUME NEW k \in Keys
        PROVE  \/ coupon'[k] = coupon[k]
               \/ coupon'[k].status # "REDEEMED" /\ coupon'[k].appt = None
    BY DEF Gives
  <1>2. NotCombined'
    BY <1>1 DEF NotCombined
  <1> QED
    BY <1>2 DEF Gives

LEMMA RedeemsKeeps ==
    ASSUME TypeOK, NotCombined, Redeems
    PROVE  NotCombined' /\ \A k \in Keys :
               coupon[k].status = "REDEEMED" => coupon'[k] \in {coupon[k], Available}
  <1> PICK k \in Keys, a \in Appointments :
          /\ coupon[k].status = "AVAILABLE" /\ OwnCoupon(k, a) /\ IndexAdmits(k, a)
          /\ coupon' = [coupon EXCEPT ![k] = [status |-> "REDEEMED", appt |-> a]]
    BY DEF Redeems
  <1>1. /\ coupon'[k].status = "REDEEMED" /\ coupon'[k].appt = a
        /\ \A j \in Keys \ {k} : coupon'[j] = coupon[j]
    BY DEF TypeOK
  <1>2. \A j \in Keys \ {k} : coupon[j].appt # a
    BY DEF IndexAdmits
  <1>3. NotCombined'
    BY <1>1, <1>2 DEF NotCombined, OwnCoupon
  <1> QED
    BY <1>1, <1>3 DEF TypeOK

-----------------------------------------------------------------------------
(* A step of one request.                                                  *)

\* Types, what requests carry, and their withdrawals.
LEMMA RequestStep ==
    ASSUME IInv, NEW r \in Requests, NEW p \in Proc,
           proc' = [proc EXCEPT ![r] = p], CarriesRightly(p),
           visits' \in [Clients -> Int], rule' \in [Rules -> RuleRow], promo' = promo,
           coupon' \in [Keys -> Coupon],
           appt' \in [Appointments -> {"CONFIRMED", "COMPLETED", "CANCELLED"}],
           gone' \subseteq Requests, raced' \subseteq Clients,
           \A q \in Requests \ {r} : \A k \in proc[q].withdrawn :
               coupon'[k] = coupon[k] /\ k \notin p.withdrawn,
           \A k \in p.withdrawn : coupon'[k].status = "AVAILABLE"
    PROVE  TypeOK' /\ Carries' /\ Withdrawals'
  <1> USE DEF IInv
  <1>1. /\ proc'[r] = p
        /\ \A q \in Requests \ {r} : proc'[q] = proc[q]
        /\ proc' \in [Requests -> Proc]
    BY DEF TypeOK
  <1>2. TypeOK'
    BY <1>1 DEF TypeOK
  <1>3. Carries'
    BY <1>1 DEF Carries, CarriesRightly, OwnCoupon
  <1>4. Withdrawals'
    BY <1>1 DEF Withdrawals
  <1> QED
    BY <1>2, <1>3, <1>4

\* Earned coupons, where neither rules nor visits are written.
LEMMA EarnedStep ==
    ASSUME IInv, NEW r \in Requests, NEW p \in Proc,
           proc' = [proc EXCEPT ![r] = p], visits' = visits, rule' = rule,
           raced \subseteq raced',
           \A k \in Keys : coupon'[k].status = "ABSENT" => coupon[k].status = "ABSENT",
           \A c \in Clients \ raced' : c \in Touches(r)' =>
               c \in Touches(r) \/ \A q \in Requests : c \notin Touches(q),
           \A c \in Clients \ raced', k \in Rules :
               /\ Reached(k, visits[c]) /\ coupon'[<<c, k>>].status = "ABSENT"
               /\ Owes(r, c, k)
               => Owes(r, c, k)',
           CountedRightly(proc[r])'
    PROVE  Alone' /\ Owed' /\ Counted'
  <1> USE DEF IInv
  <1>1. /\ proc'[r] = p
        /\ \A q \in Requests \ {r} : proc'[q] = proc[q]
    BY DEF TypeOK
  <1>2. \A q \in Requests \ {r} : Touches(q)' = Touches(q)
    BY <1>1 DEF Touches
  <1>3. Alone'
    BY <1>2 DEF Alone
  <1>4. Owed'
    <2> SUFFICES ASSUME NEW c \in Clients \ raced', NEW k \in Rules,
                        Reached(k, visits[c])', coupon'[<<c, k>>].status = "ABSENT"
                 PROVE  \E q \in Requests : Owes(q, c, k)'
      BY DEF Owed
    <2>1. Reached(k, visits[c]) /\ coupon[<<c, k>>].status = "ABSENT" /\ <<c, k>> \in Keys
      BY DEF Reached, Keys
    <2>2. PICK q \in Requests : Owes(q, c, k)
      BY <2>1 DEF Owed
    <2>3. CASE q = r
      BY <2>1, <2>2, <2>3
    <2>4. CASE q # r
      BY <1>1, <2>2, <2>4 DEF Owes
    <2> QED
      BY <2>3, <2>4
  <1>5. Counted'
    <2> SUFFICES ASSUME NEW q \in Requests PROVE CountedRightly(proc[q])'
      BY DEF Counted
    <2>1. CASE q = r
      BY <2>1
    <2>2. CASE q # r
      BY <1>1, <2>2 DEF Counted, CountedRightly, Reached
    <2> QED
      BY <2>1, <2>2
  <1> QED
    BY <1>3, <1>4, <1>5

\* A step that writes none of the tables.
LEMMA QuietStep ==
    ASSUME IInv, NEW r \in Requests, NEW p \in Proc,
           proc' = [proc EXCEPT ![r] = p], CarriesRightly(p),
           UNCHANGED <<visits, rule, promo, coupon, appt, gone>>,
           raced \subseteq raced', raced' \subseteq Clients,
           \A k \in p.withdrawn : /\ coupon[k].status = "AVAILABLE"
                                  /\ \A q \in Requests \ {r} : k \notin proc[q].withdrawn,
           \A c \in Clients \ raced' : c \in Touches(r)' =>
               c \in Touches(r) \/ \A q \in Requests : c \notin Touches(q),
           \A c \in Clients \ raced', k \in Rules :
               /\ Reached(k, visits[c]) /\ coupon[<<c, k>>].status = "ABSENT"
               /\ Owes(r, c, k)
               => Owes(r, c, k)',
           CountedRightly(proc[r])'
    PROVE  IInv' /\ Gives
  <1>1. TypeOK' /\ Carries' /\ Withdrawals'
    <2>1. TypeOK
      BY DEF IInv
    <2>2. \A q \in Requests \ {r} : \A k \in proc[q].withdrawn :
              coupon'[k] = coupon[k] /\ k \notin p.withdrawn
      OBVIOUS
    <2>3. \A k \in p.withdrawn : coupon'[k].status = "AVAILABLE"
      OBVIOUS
    <2> QED
      BY <2>1, <2>2, <2>3, RequestStep DEF TypeOK
  <1>2. Alone' /\ Owed' /\ Counted'
    <2>1. \A c \in Clients \ raced', k \in Rules :
              /\ Reached(k, visits[c]) /\ coupon'[<<c, k>>].status = "ABSENT"
              /\ Owes(r, c, k)
              => Owes(r, c, k)'
      OBVIOUS
    <2> QED
      BY <2>1, EarnedStep
  <1>3. NotCombined' /\ Gives
    BY DEF IInv, NotCombined, Gives
  <1> QED
    BY <1>1, <1>2, <1>3 DEF IInv

-----------------------------------------------------------------------------
(* syncRewards.                                                            *)

LEMMA BeginSync ==
    ASSUME IInv, NEW r \in Requests, proc[r].stage = "idle",
           NEW p \in Proc, proc' = [proc EXCEPT ![r] = p],
           p.stage \in Counting, p.client \in Clients, p.withdrawn = {},
           raced' = raced \union Overlaps({p.client}),
           UNCHANGED <<visits, rule, promo, coupon, appt, gone>>
    PROVE  IInv' /\ Gives
  <1>1. CarriesRightly(p) /\ CountedRightly(proc[r])'
    BY DEF CarriesRightly, CountedRightly, Syncing, Counting, Ruling, IInv, TypeOK
  <1>2. Touches(r)' = {p.client} /\ Touches(r) = {}
    BY DEF IInv, TypeOK, Touches, Syncing, Counting, Ruling
  <1>3. \A c \in Clients \ raced' : c \in Touches(r)' =>
            \A q \in Requests : c \notin Touches(q)
    BY <1>2 DEF Overlaps
  <1>4. \A c \in Clients, k \in Rules : ~Owes(r, c, k)
    BY DEF Owes, Ruling
  <1>5. raced' \subseteq Clients
    BY DEF IInv, TypeOK, Overlaps
  <1> QED
    BY <1>1, <1>3, <1>4, <1>5, QuietStep

LEMMA IdleType == Idle \in Proc /\ Idle.stage = "idle" /\ Idle.withdrawn = {}
  BY DEF Idle, Proc, Stages

LEMMA CompleteStep ==
    ASSUME IInv, NEW r \in Requests, NEW a \in Appointments, Complete(r, a)
    PROVE  IInv' /\ Gives
  <1> DEFINE c == ClientOf[a]
             d == 1
             p == [Idle EXCEPT !.stage = "counting", !.client = c, !.appt = a, !.delta = d]
  <1>1. c \in Clients /\ d \in Int
    BY LoyaltyAssumption
  <1>2. /\ proc[r].stage = "idle" /\ proc' = [proc EXCEPT ![r] = p]
        /\ raced' = raced \union Overlaps({c})
        /\ UNCHANGED <<visits, rule, promo, coupon, appt, gone>>
    BY DEF Complete
  <1> HIDE DEF c, d
  <1>3. p \in Proc
    BY <1>1, IdleType DEF Proc, Stages, Syncing, Counting
  <1>4. p.stage \in Counting /\ p.client = c /\ p.withdrawn = {}
    BY DEF Idle, Counting
  <1> HIDE DEF p
  <1> QED
    BY <1>1, <1>2, <1>3, <1>4, BeginSync

LEMMA CorrectVisitsStep ==
    ASSUME IInv, NEW r \in Requests, NEW c \in Clients, NEW n \in Totals,
           CorrectVisits(r, c, n)
    PROVE  IInv' /\ Gives
  <1> DEFINE p == [Idle EXCEPT !.stage = "recounting", !.client = c,
                               !.delta = n - visits[c]]
  <1>1. n - visits[c] \in Int
    BY LoyaltyAssumption DEF IInv, TypeOK
  <1>2. p \in Proc /\ p.stage \in Counting /\ p.client = c /\ p.withdrawn = {}
    BY <1>1, IdleType DEF Proc, Stages, Syncing, Counting
  <1>3. /\ proc[r].stage = "idle" /\ proc' = [proc EXCEPT ![r] = p]
        /\ raced' = raced \union Overlaps({c})
        /\ UNCHANGED <<visits, rule, promo, coupon, appt, gone>>
    BY DEF CorrectVisits
  <1> HIDE DEF p
  <1> QED
    BY <1>2, <1>3, BeginSync

LEMMA SyncCountStep ==
    ASSUME IInv, NEW r \in Requests, SyncCount(r)
    PROVE  IInv' /\ Gives
  <1> DEFINE n == visits[proc[r].client] + proc[r].delta
             s == IF proc[r].stage = "recounting" THEN "withdrawing" ELSE "choosing"
             p == [proc[r] EXCEPT !.count = n, !.stage = s]
  <1>1. proc[r] \in Proc /\ proc[r].stage \in Counting /\ CarriesRightly(proc[r])
    BY DEF IInv, TypeOK, Carries, SyncCount
  <1>2. proc[r].client \in Clients /\ n \in Int
    BY <1>1 DEF CarriesRightly, Syncing, Counting, IInv, TypeOK, Proc
  <1>3. s \in {"withdrawing", "choosing"}
    OBVIOUS
  <1> HIDE DEF n, s
  <1>4. /\ p \in Proc /\ p.stage = s /\ p.client = proc[r].client
        /\ p.count = n /\ p.delta = proc[r].delta /\ p.withdrawn = proc[r].withdrawn
    BY <1>1, <1>2, <1>3 DEF Proc, Stages, Syncing, Counting
  <1>5. /\ proc' = [proc EXCEPT ![r] = p]
        /\ UNCHANGED <<visits, rule, promo, coupon, appt, gone, raced>>
    BY DEF SyncCount, n, s
  <1> HIDE DEF p
  <1>6. CarriesRightly(p)
    BY <1>1, <1>3, <1>4 DEF CarriesRightly, Syncing, Counting, Ruling
  <1>7. CountedRightly(proc[r])'
    BY <1>3, <1>4, <1>5 DEF CountedRightly, n, IInv, TypeOK
  <1>8. Touches(r)' = Touches(r)
    BY <1>1, <1>3, <1>4, <1>5 DEF IInv, TypeOK, Touches, Syncing, Counting
  <1>9. \A c \in Clients, k \in Rules : ~Owes(r, c, k)
    BY <1>1 DEF Owes, Ruling, Counting
  <1>10. /\ raced \subseteq raced' /\ raced' \subseteq Clients
         /\ \A k \in p.withdrawn : /\ coupon[k].status = "AVAILABLE"
                                   /\ \A q \in Requests \ {r} : k \notin proc[q].withdrawn
    BY <1>4, <1>5 DEF IInv, TypeOK, Withdrawals
  <1> QED
    BY <1>4, <1>5, <1>6, <1>7, <1>8, <1>9, <1>10, QuietStep

LEMMA SyncWithdrawStep ==
    ASSUME IInv, NEW r \in Requests, SyncWithdraw(r)
    PROVE  IInv' /\ Gives
  <1> DEFINE ks == Unearned(proc[r].client, proc[r].count)
             p == [proc[r] EXCEPT !.withdrawn = ks, !.stage = "choosing"]
  <1>1. proc[r] \in Proc /\ proc[r].stage = "withdrawing" /\ CarriesRightly(proc[r])
    BY DEF IInv, TypeOK, Carries, SyncWithdraw
  <1>2. proc[r].client \in Clients
    BY <1>1 DEF CarriesRightly, Syncing, Counting
  <1>3. ks \subseteq Keys /\ \A k \in ks : k[1] = proc[r].client /\ coupon[k].status = "AVAILABLE"
    BY <1>2 DEF Unearned, Keys
  <1>4. \A k \in ks : \A q \in Requests \ {r} : k \notin proc[q].withdrawn
    BY DEF SyncWithdraw, LockedFor
  <1>5. /\ proc' = [proc EXCEPT ![r] = p]
        /\ UNCHANGED <<visits, rule, promo, coupon, appt, gone, raced>>
    BY DEF SyncWithdraw
  <1> HIDE DEF ks
  <1>6. /\ p \in Proc /\ p.stage = "choosing" /\ p.client = proc[r].client
        /\ p.count = proc[r].count /\ p.delta = proc[r].delta /\ p.withdrawn = ks
    BY <1>1, <1>3 DEF Proc, Stages, Syncing, Counting
  <1> HIDE DEF p
  <1>7. CarriesRightly(p)
    BY <1>2, <1>3, <1>6 DEF CarriesRightly, Syncing, Counting, Ruling
  <1>8. CountedRightly(proc[r])'
    <2>1. CountedRightly(proc[r])
      BY DEF IInv, Counted
    <2> QED
      BY <1>1, <1>5, <1>6, <2>1 DEF CountedRightly, Syncing, Counting, IInv, TypeOK
  <1>9. Touches(r)' = Touches(r)
    BY <1>1, <1>5, <1>6 DEF IInv, TypeOK, Touches, Syncing, Counting
  <1>10. \A c \in Clients, k \in Rules : ~Owes(r, c, k)
    BY <1>1 DEF Owes, Ruling
  <1>11. raced \subseteq raced' /\ raced' \subseteq Clients
    BY <1>5 DEF IInv, TypeOK
  <1> QED
    BY <1>3, <1>4, <1>5, <1>6, <1>7, <1>8, <1>9, <1>10, <1>11, QuietStep

LEMMA SyncChooseStep ==
    ASSUME IInv, NEW r \in Requests, SyncChoose(r)
    PROVE  IInv' /\ Gives
  <1> DEFINE ks == {proc[r].client} \X {k \in Rules : Reached(k, proc[r].count)}
             p == [proc[r] EXCEPT !.keys = ks, !.stage = "granting"]
  <1>1. proc[r] \in Proc /\ proc[r].stage = "choosing" /\ CarriesRightly(proc[r])
    BY DEF IInv, TypeOK, Carries, SyncChoose
  <1>2. proc[r].client \in Clients
    BY <1>1 DEF CarriesRightly, Syncing, Counting
  <1>3. ks \subseteq Keys
    BY <1>2 DEF Keys
  <1>4. /\ proc' = [proc EXCEPT ![r] = p]
        /\ UNCHANGED <<visits, rule, promo, coupon, appt, gone, raced>>
    BY DEF SyncChoose
  <1> HIDE DEF ks
  <1>6. /\ p \in Proc /\ p.stage = "granting" /\ p.client = proc[r].client /\ p.keys = ks
        /\ p.count = proc[r].count /\ p.delta = proc[r].delta
        /\ p.withdrawn = proc[r].withdrawn
    BY <1>1, <1>3 DEF Proc, Stages, Syncing, Counting
  <1> HIDE DEF p
  <1>7. CarriesRightly(p)
    BY <1>1, <1>6 DEF CarriesRightly, Syncing, Counting, Ruling
  <1>8. CountedRightly(proc[r])'
    <2>1. CountedRightly(proc[r])
      BY DEF IInv, Counted
    <2> QED
      BY <1>1, <1>4, <1>6, <2>1 DEF CountedRightly, Syncing, Counting, Reached, ks, IInv, TypeOK
  <1>9. Touches(r)' = Touches(r)
    BY <1>1, <1>4, <1>6 DEF IInv, TypeOK, Touches, Syncing, Counting
  <1>10. \A c \in Clients, k \in Rules : ~Owes(r, c, k)
    BY <1>1 DEF Owes, Ruling
  <1>11. /\ raced \subseteq raced' /\ raced' \subseteq Clients
         /\ \A k \in p.withdrawn : /\ coupon[k].status = "AVAILABLE"
                                   /\ \A q \in Requests \ {r} : k \notin proc[q].withdrawn
    BY <1>4, <1>6 DEF IInv, TypeOK, Withdrawals
  <1> QED
    BY <1>4, <1>6, <1>7, <1>8, <1>9, <1>10, <1>11, QuietStep

LEMMA SyncCommitStep ==
    ASSUME IInv, NEW r \in Requests, SyncCommit(r)
    PROVE  IInv' /\ Gives
  <1> USE LoyaltyAssumption
  <1> DEFINE p == proc[r]
             c == p.client
  <1>1. p \in Proc /\ p.stage = "granting" /\ CarriesRightly(p) /\ CountedRightly(p)
    BY DEF IInv, TypeOK, Carries, Counted, SyncCommit
  <1>2. c \in Clients /\ p.keys \subseteq Keys /\ p.withdrawn \subseteq Keys
    BY <1>1 DEF CarriesRightly, Syncing, Counting, Proc
  <1>3. /\ coupon' = [k \in Keys |->
              IF k \in p.keys /\ (coupon[k].status = "ABSENT" \/ k \in p.withdrawn) THEN Available
              ELSE IF k \in p.withdrawn THEN NoCoupon ELSE coupon[k]]
        /\ visits' = [visits EXCEPT ![c] = visits[c] + p.delta]
        /\ proc' = [proc EXCEPT ![r] = Idle]
        /\ UNCHANGED <<rule, promo, raced>>
    BY DEF SyncCommit
  <1>4. /\ proc'[r] = Idle /\ Idle.stage = "idle" /\ Idle.withdrawn = {}
        /\ \A q \in Requests \ {r} : proc'[q] = proc[q]
    BY <1>3 DEF IInv, TypeOK, Idle
  <1>5. \A k \in p.withdrawn : coupon[k].status = "AVAILABLE" /\ k[1] = c
    BY <1>1 DEF IInv, Withdrawals, CarriesRightly
  <1>6. Gives
    BY <1>3, <1>5 DEF Gives
  <1>7. coupon' \in [Keys -> Coupon]
    BY <1>3 DEF IInv, TypeOK, Coupon, Available, NoCoupon
  <1>8. TypeOK' /\ Carries' /\ Withdrawals'
    <2>1. visits' \in [Clients -> Int]
      BY <1>1, <1>2, <1>3 DEF IInv, TypeOK, Proc
    <2>2. appt' \in [Appointments -> {"CONFIRMED", "COMPLETED", "CANCELLED"}]
      BY DEF IInv, TypeOK, SyncCommit
    <2>3. gone' \subseteq Requests
      BY DEF IInv, TypeOK, SyncCommit
    <2>4. \A q \in Requests \ {r} : \A k \in proc[q].withdrawn : coupon'[k] = coupon[k]
      <3> SUFFICES ASSUME NEW q \in Requests \ {r}, NEW k \in proc[q].withdrawn
                   PROVE  coupon'[k] = coupon[k]
        OBVIOUS
      <3>1. k \in Keys /\ k \notin p.withdrawn /\ coupon[k].status = "AVAILABLE"
        BY DEF IInv, TypeOK, Proc, Withdrawals
      <3> QED
        BY <1>3, <3>1
    <2>5. CarriesRightly(Idle)
      BY <1>4 DEF CarriesRightly, Syncing, Counting, Ruling
    <2> QED
      BY <1>3, <1>4, <1>7, <2>1, <2>2, <2>3, <2>4, <2>5, IdleType, RequestStep
         DEF IInv, TypeOK
  <1>9. NotCombined'
    BY <1>6, <1>7, GivesKeeps DEF IInv
  <1>10. \A q \in Requests : Touches(q)' \subseteq Touches(q)
    BY <1>4 DEF Touches, Syncing, Counting, Ruling
  <1>11. Alone'
    BY <1>3, <1>10 DEF IInv, Alone
  <1>12. ASSUME NEW d \in Clients \ raced, NEW q \in Requests \ {r}, d \in Touches(q)
         PROVE  d # c
    BY <1>1, <1>12 DEF IInv, Alone, Touches, Syncing, Counting
  <1>13. \A d \in Clients \ {c} : visits'[d] = visits[d]
    BY <1>3 DEF IInv, TypeOK
  <1>14. Owed'
    <2> SUFFICES ASSUME NEW d \in Clients \ raced, NEW k \in Rules,
                        Reached(k, visits'[d]), coupon'[<<d, k>>].status = "ABSENT"
                 PROVE  \E q \in Requests : Owes(q, d, k)'
      BY <1>3 DEF Owed, Reached
    <2>1. <<d, k>> \in Keys
      BY DEF Keys
    <2>2. CASE d = c
      <3>1. visits'[c] = p.count /\ p.keys = {c} \X {j \in Rules : Reached(j, p.count)}
        BY <1>1, <1>2, <1>3, <2>2 DEF CountedRightly, Syncing, Counting, IInv, TypeOK
      <3>2. <<d, k>> \in p.keys
        BY <2>2, <3>1
      <3> QED
        BY <1>3, <2>1, <3>2 DEF Available
    <2>3. CASE d # c
      <3>1. coupon[<<d, k>>].status = "ABSENT"
        BY <1>3, <1>5, <2>1, <2>3 DEF Available
      <3>2. PICK q \in Requests : Owes(q, d, k)
        BY <1>13, <2>3, <3>1 DEF IInv, Owed
      <3>3. q # r
        BY <1>1, <3>2 DEF Owes, Ruling
      <3> QED
        BY <1>3, <1>4, <3>2, <3>3 DEF Owes
    <2> QED
      BY <2>2, <2>3
  <1>15. Counted'
    <2> SUFFICES ASSUME NEW q \in Requests, q # r PROVE CountedRightly(proc[q])'
      BY <1>4 DEF Counted, CountedRightly, Syncing, Counting
    <2> SUFFICES ASSUME proc[q].stage \in Syncing, proc[q].client \in Clients \ raced
                 PROVE  CountedRightly(proc[q])'
      BY <1>3, <1>4 DEF CountedRightly
    <2>1. visits'[proc[q].client] = visits[proc[q].client]
      BY <1>12, <1>13 DEF Touches
    <2>2. CountedRightly(proc[q])
      BY DEF IInv, Counted
    <2> QED
      BY <1>3, <1>4, <2>1, <2>2 DEF CountedRightly, Reached
  <1> QED
    BY <1>6, <1>8, <1>9, <1>11, <1>14, <1>15 DEF IInv

-----------------------------------------------------------------------------
(* Rules.                                                                  *)

LEMMA IdleCarries ==
    /\ Idle \in Proc /\ Idle.stage = "idle" /\ Idle.withdrawn = {}
    /\ CarriesRightly(Idle)
  BY IdleType DEF CarriesRightly, Syncing, Counting, Ruling

LEMMA SaveRuleStep ==
    ASSUME IInv, NEW r \in Requests, NEW k \in Rules, NEW n \in Numbers,
           NEW active \in BOOLEAN, SaveRule(r, k, n, active)
    PROVE  IInv' /\ Gives
  <1> DEFINE rs == {k}
             p == [Idle EXCEPT !.stage = "ruled", !.rules = rs]
             new == [present |-> TRUE, active |-> active, number |-> n]
  <1>1. rs \in SUBSET Rules
    OBVIOUS
  <1>2. new \in RuleRow
    BY LoyaltyAssumption DEF RuleRow
  <1>3. /\ proc' = [proc EXCEPT ![r] = p] /\ rule' = [rule EXCEPT ![k] = new]
        /\ raced' = raced \union Overlaps(Clients)
        /\ UNCHANGED <<visits, promo, coupon, appt, gone>>
        /\ proc[r].stage = "idle"
    BY DEF SaveRule
  <1> HIDE DEF rs, new
  <1>4. p \in Proc /\ p.stage = "ruled" /\ p.rules = rs /\ p.withdrawn = {}
    BY <1>1, IdleType DEF Proc, Stages, Ruling
  <1>5. CarriesRightly(p)
    BY <1>4 DEF CarriesRightly, Syncing, Counting, Ruling, rs
  <1> HIDE DEF p
  <1>6. raced' \subseteq Clients /\ \A d \in Clients \ raced', q \in Requests : d \notin Touches(q)
    BY <1>3 DEF Overlaps, IInv, TypeOK
  <1>7. TypeOK' /\ Carries' /\ Withdrawals'
    <2>1. rule' \in [Rules -> RuleRow]
      BY <1>2, <1>3 DEF IInv, TypeOK
    <2> QED
      BY <1>3, <1>4, <1>5, <1>6, <2>1, RequestStep DEF IInv, TypeOK
  <1>8. NotCombined' /\ Gives
    BY <1>3 DEF IInv, NotCombined, Gives
  <1>9. /\ proc'[r] = p
        /\ \A q \in Requests \ {r} : proc'[q] = proc[q]
        /\ \A j \in Rules \ {k} : rule'[j] = rule[j]
    BY <1>3 DEF IInv, TypeOK
  <1>10. \A q \in Requests \ {r} : Touches(q)' = Touches(q)
    BY <1>9 DEF Touches
  <1>11. Alone'
    BY <1>6, <1>10 DEF Alone
  <1>12. Owed'
    <2> SUFFICES ASSUME NEW d \in Clients \ raced', NEW j \in Rules,
                        Reached(j, visits[d])', coupon[<<d, j>>].status = "ABSENT"
                 PROVE  \E q \in Requests : Owes(q, d, j)'
      BY <1>3 DEF Owed
    <2>1. CASE j = k
      BY <1>4, <1>9, <2>1 DEF Owes, Ruling, rs
    <2>2. CASE j # k
      <3>1. Reached(j, visits[d])
        BY <1>3, <1>9, <2>2 DEF Reached
      <3>2. PICK q \in Requests : Owes(q, d, j)
        BY <1>3, <3>1 DEF IInv, Owed
      <3>3. d \in Touches(q)
        BY <3>2 DEF Owes, Touches, Syncing, Counting, Ruling
      <3> QED
        BY <1>6, <3>3
    <2> QED
      BY <2>1, <2>2
  <1>13. Counted'
    <2> SUFFICES ASSUME NEW q \in Requests, (proc[q].stage \in Syncing)',
                        (proc[q].client \in Clients \ raced)'
                 PROVE  FALSE
      BY DEF Counted, CountedRightly
    <2>1. q # r
      BY <1>4, <1>9 DEF Syncing, Counting
    <2>2. proc[q].client \in Touches(q)
      BY <1>9, <2>1 DEF Touches
    <2> QED
      BY <1>6, <1>9, <2>1, <2>2
  <1> QED
    BY <1>7, <1>8, <1>11, <1>12, <1>13 DEF IInv

LEMMA ReadRuleStep ==
    ASSUME IInv, NEW r \in Requests, ReadRule(r)
    PROVE  IInv' /\ Gives
  <1>1. proc[r] \in Proc /\ proc[r].stage = "ruled"
    BY DEF IInv, TypeOK, ReadRule
  <1>2. PICK k \in Rules : proc[r].rules = {k}
    BY <1>1 DEF IInv, Carries, CarriesRightly, Ruling
  <1> DEFINE j == CHOOSE j \in proc[r].rules : TRUE
             n == rule[j].number
             go == [proc[r] EXCEPT !.count = n, !.stage = "totalling"]
             p == IF rule[j].active THEN go ELSE Idle
  <1>3. /\ proc' = [proc EXCEPT ![r] = p]
        /\ UNCHANGED <<visits, rule, promo, coupon, appt, gone, raced>>
    BY DEF ReadRule
  <1>4. j = k
    BY <1>2
  <1> HIDE DEF j
  <1>5. n \in Int
    BY <1>4 DEF IInv, TypeOK, RuleRow
  <1> HIDE DEF n
  <1>6. /\ go \in Proc /\ go.stage = "totalling" /\ go.count = n
        /\ go.rules = {k} /\ go.withdrawn = proc[r].withdrawn
    BY <1>1, <1>2, <1>5 DEF Proc, Stages, Ruling
  <1>7. CarriesRightly(go)
    BY <1>1, <1>2, <1>6 DEF CarriesRightly, IInv, Carries, Syncing, Counting, Ruling
  <1> HIDE DEF go
  <1>8. /\ p \in Proc /\ CarriesRightly(p) /\ p.withdrawn \subseteq proc[r].withdrawn
        /\ p.stage \in {"totalling", "idle"} /\ proc'[r] = p
    BY <1>3, <1>6, <1>7, IdleCarries DEF IInv, TypeOK
  <1>9. \A c \in Clients, i \in Rules :
            Reached(i, visits[c]) /\ Owes(r, c, i) => Owes(r, c, i)'
    BY <1>1, <1>2, <1>3, <1>4, <1>6, <1>8 DEF Reached, Owes, Ruling, n
  <1> HIDE DEF p
  <1>10. CountedRightly(proc[r])'
    BY <1>8 DEF CountedRightly, Syncing, Counting
  <1>11. Touches(r)' \subseteq Touches(r)
    BY <1>1, <1>8 DEF Touches, Syncing, Counting, Ruling
  <1>12. /\ raced \subseteq raced' /\ raced' \subseteq Clients
         /\ \A i \in p.withdrawn : /\ coupon[i].status = "AVAILABLE"
                                   /\ \A q \in Requests \ {r} : i \notin proc[q].withdrawn
    BY <1>3, <1>8 DEF IInv, TypeOK, Withdrawals
  <1> QED
    BY <1>3, <1>8, <1>9, <1>10, <1>11, <1>12, QuietStep

LEMMA IssueTotalsStep ==
    ASSUME IInv, NEW r \in Requests, IssueTotals(r)
    PROVE  IInv' /\ Gives
  <1> DEFINE ks == {c \in Clients : visits[c] >= proc[r].count} \X proc[r].rules
             p == [proc[r] EXCEPT !.keys = ks, !.stage = "issuing"]
  <1>1. proc[r] \in Proc /\ proc[r].stage = "totalling"
    BY DEF IInv, TypeOK, IssueTotals
  <1>2. PICK k \in Rules : proc[r].rules = {k}
    BY <1>1 DEF IInv, Carries, CarriesRightly, Ruling
  <1>3. ks \subseteq Keys
    BY <1>2 DEF Keys
  <1>4. /\ proc' = [proc EXCEPT ![r] = p]
        /\ UNCHANGED <<visits, rule, promo, coupon, appt, gone, raced>>
    BY DEF IssueTotals
  <1> HIDE DEF ks
  <1>5. /\ p \in Proc /\ p.stage = "issuing" /\ p.keys = ks
        /\ p.rules = {k} /\ p.withdrawn = proc[r].withdrawn
    BY <1>1, <1>2, <1>3 DEF Proc, Stages, Ruling
  <1> HIDE DEF p
  <1>6. proc'[r] = p
    BY <1>4 DEF IInv, TypeOK
  <1>7. CarriesRightly(p)
    BY <1>1, <1>5 DEF CarriesRightly, IInv, Carries, Syncing, Counting, Ruling
  <1>8. \A c \in Clients, j \in Rules :
            Reached(j, visits[c]) /\ Owes(r, c, j) => Owes(r, c, j)'
    <2> SUFFICES ASSUME NEW c \in Clients, NEW j \in Rules,
                        Reached(j, visits[c]), Owes(r, c, j)
                 PROVE  Owes(r, c, j)'
      OBVIOUS
    <2>1. proc[r].count = rule[j].number /\ proc[r].rules = {j} /\ j = k
      BY <1>1, <1>2 DEF Owes
    <2>2. rule[j].number \in Int /\ visits[c] \in Int
      BY DEF IInv, TypeOK, RuleRow
    <2>3. <<c, j>> \in ks
      BY <2>1, <2>2 DEF Reached, ks
    <2> QED
      BY <1>5, <1>6, <2>1, <2>3 DEF Owes, Ruling
  <1>9. CountedRightly(proc[r])'
    BY <1>5, <1>6 DEF CountedRightly, Syncing, Counting
  <1>10. Touches(r)' = Touches(r)
    BY <1>1, <1>5, <1>6 DEF Touches, Syncing, Counting, Ruling
  <1>11. /\ raced \subseteq raced' /\ raced' \subseteq Clients
         /\ \A j \in p.withdrawn : /\ coupon[j].status = "AVAILABLE"
                                   /\ \A q \in Requests \ {r} : j \notin proc[q].withdrawn
    BY <1>4, <1>5 DEF IInv, TypeOK, Withdrawals
  <1> QED
    BY <1>4, <1>5, <1>7, <1>8, <1>9, <1>10, <1>11, QuietStep

-----------------------------------------------------------------------------
(* Steps that end a request.                                               *)

LEMMA EndStep ==
    ASSUME IInv, NEW r \in Requests, proc' = [proc EXCEPT ![r] = Idle],
           UNCHANGED <<visits, rule, promo, appt>>,
           gone' \subseteq Requests, raced \subseteq raced', raced' \subseteq Clients,
           Gives \/ Redeems, coupon' \in [Keys -> Coupon],
           \A k \in Keys : coupon'[k].status = "ABSENT" => coupon[k].status = "ABSENT",
           \A q \in Requests \ {r} : \A k \in proc[q].withdrawn : coupon'[k] = coupon[k],
           \A c \in Clients \ raced', k \in Rules :
               Owes(r, c, k) => coupon'[<<c, k>>].status # "ABSENT"
    PROVE  IInv'
  <1>1. proc'[r] = Idle
    BY DEF IInv, TypeOK
  <1>2. TypeOK' /\ Carries' /\ Withdrawals'
    <2>1. TypeOK
      BY DEF IInv
    <2>2. \A k \in Idle.withdrawn : coupon'[k].status = "AVAILABLE"
      BY IdleCarries
    <2>3. \A q \in Requests \ {r} : \A k \in proc[q].withdrawn :
              coupon'[k] = coupon[k] /\ k \notin Idle.withdrawn
      BY IdleCarries
    <2> QED
      BY <2>1, <2>2, <2>3, IdleCarries, RequestStep DEF TypeOK
  <1>3. NotCombined'
    BY GivesKeeps, RedeemsKeeps DEF IInv
  <1>4. Alone' /\ Owed' /\ Counted'
    <2>1. CountedRightly(proc[r])'
      BY <1>1, IdleCarries DEF CountedRightly, Syncing, Counting
    <2>2. \A c \in Clients \ raced' : c \notin Touches(r)'
      BY <1>1, IdleCarries DEF Touches, Syncing, Counting, Ruling
    <2>3. \A c \in Clients \ raced', k \in Rules :
              /\ Reached(k, visits[c]) /\ coupon'[<<c, k>>].status = "ABSENT"
              /\ Owes(r, c, k)
              => Owes(r, c, k)'
      OBVIOUS
    <2> QED
      BY <2>1, <2>2, <2>3, IdleCarries, EarnedStep
  <1> QED
    BY <1>2, <1>3, <1>4 DEF IInv

\* Coupons nobody has are given; the request owes nothing else.
LEMMA GrantStep ==
    ASSUME IInv, NEW r \in Requests, proc' = [proc EXCEPT ![r] = Idle],
           UNCHANGED <<visits, rule, promo, appt, gone, raced>>,
           coupon' = Granted(proc[r].keys),
           \A c \in Clients, k \in Rules : Owes(r, c, k) => <<c, k>> \in proc[r].keys
    PROVE  IInv' /\ Gives
  <1>1. \A k \in Keys : /\ coupon'[k] \in {coupon[k], Available}
                        /\ coupon'[k] # coupon[k] => coupon[k].status = "ABSENT"
                        /\ k \in proc[r].keys => coupon'[k].status # "ABSENT"
                        /\ coupon'[k].status = "ABSENT" => coupon[k].status = "ABSENT"
    BY DEF Granted, Available
  <1>2. Gives
    BY <1>1 DEF Gives
  <1>3. coupon' \in [Keys -> Coupon]
    BY LoyaltyAssumption DEF Granted, IInv, TypeOK, Coupon, Available
  <1>4. \A q \in Requests \ {r} : \A k \in proc[q].withdrawn : coupon'[k] = coupon[k]
    BY <1>1 DEF IInv, TypeOK, Proc, Withdrawals
  <1>5. \A c \in Clients \ raced', k \in Rules :
            Owes(r, c, k) => coupon'[<<c, k>>].status # "ABSENT"
    BY <1>1 DEF Keys
  <1>6. gone' \subseteq Requests /\ raced \subseteq raced' /\ raced' \subseteq Clients
    BY DEF IInv, TypeOK
  <1> QED
    BY <1>1, <1>2, <1>3, <1>4, <1>5, <1>6, EndStep

LEMMA IssueToEligibleStep ==
    ASSUME IInv, NEW r \in Requests, IssueToEligible(r)
    PROVE  IInv' /\ Gives
  <1>1. /\ proc' = [proc EXCEPT ![r] = Idle]
        /\ UNCHANGED <<visits, rule, promo, appt, gone, raced>>
        /\ coupon' = Granted(proc[r].keys) /\ proc[r].stage = "issuing"
    BY DEF IssueToEligible
  <1>2. \A c \in Clients, k \in Rules : Owes(r, c, k) => <<c, k>> \in proc[r].keys
    BY <1>1 DEF Owes
  <1> QED
    BY <1>1, <1>2, GrantStep

LEMMA IssuePromotionStep ==
    ASSUME IInv, NEW r \in Requests, IssuePromotion(r)
    PROVE  IInv' /\ Gives
  <1>1. /\ proc' = [proc EXCEPT ![r] = Idle]
        /\ UNCHANGED <<visits, rule, promo, appt, gone, raced>>
        /\ coupon' = Granted(proc[r].keys) /\ proc[r].stage = "promoting"
    BY DEF IssuePromotion
  <1>2. \A c \in Clients, k \in Rules : ~Owes(r, c, k)
    BY <1>1 DEF Owes, Ruling
  <1> QED
    BY <1>1, <1>2, GrantStep

\* The rows of a redemption or a reversal that nobody has deleted.
LEMMA UnlockedStep ==
    ASSUME IInv, NEW r \in Requests, NEW k \in Keys, proc[r].stage \notin Ruling,
           ~LockedFor(r, {k}), proc' = [proc EXCEPT ![r] = Idle],
           gone' = gone \ {r}, UNCHANGED <<visits, rule, promo, appt, raced>>,
           NEW x \in Coupon, x.status # "ABSENT",
           coupon' = coupon \/ coupon' = [coupon EXCEPT ![k] = x],
           Gives \/ Redeems
    PROVE  IInv'
  <1>1. coupon' \in [Keys -> Coupon] /\ \A j \in Keys \ {k} : coupon'[j] = coupon[j]
    BY DEF IInv, TypeOK
  <1>2. \A j \in Keys : coupon'[j].status = "ABSENT" => coupon[j].status = "ABSENT"
    BY DEF IInv, TypeOK
  <1>3. \A q \in Requests \ {r} : \A j \in proc[q].withdrawn : coupon'[j] = coupon[j]
    BY <1>1 DEF IInv, TypeOK, Proc, LockedFor
  <1>4. \A c \in Clients \ raced', j \in Rules :
            Owes(r, c, j) => coupon'[<<c, j>>].status # "ABSENT"
    BY DEF Owes
  <1>5. gone' \subseteq Requests /\ raced \subseteq raced' /\ raced' \subseteq Clients
    BY DEF IInv, TypeOK
  <1> QED
    BY <1>1, <1>2, <1>3, <1>4, <1>5, EndStep

LEMMA RedeemWriteStep ==
    ASSUME IInv, NEW r \in Requests, NEW k \in Keys, RedeemWrite(r, k)
    PROVE  IInv' /\ (Gives \/ Redeems)
  <1> DEFINE a == proc[r].appt
             x == [status |-> "REDEEMED", appt |-> a]
  <1>1. /\ proc[r].stage = "redeeming" /\ proc[r].keys = {k} /\ ~LockedFor(r, {k})
        /\ proc' = [proc EXCEPT ![r] = Idle] /\ gone' = gone \ {r}
        /\ UNCHANGED <<visits, rule, promo, appt, raced>>
        /\ \/ coupon' = coupon
           \/ /\ coupon[k].status = "AVAILABLE" /\ IndexAdmits(k, a)
              /\ coupon' = [coupon EXCEPT ![k] = x]
    BY DEF RedeemWrite
  <1>2. a \in Appointments /\ OwnCoupon(k, a)
    BY <1>1 DEF IInv, Carries, CarriesRightly
  <1>3. x \in Coupon /\ x.status # "ABSENT"
    BY <1>2 DEF Coupon
  <1>4. Gives \/ Redeems
    <2>1. CASE coupon' = coupon
      BY <2>1 DEF Gives
    <2>2. CASE /\ coupon[k].status = "AVAILABLE" /\ IndexAdmits(k, a)
               /\ coupon' = [coupon EXCEPT ![k] = x]
      BY <1>2, <2>2 DEF Redeems
    <2> QED
      BY <1>1, <2>1, <2>2
  <1>5. proc[r].stage \notin Ruling
    BY <1>1 DEF Ruling
  <1> HIDE DEF x
  <1> QED
    BY <1>1, <1>3, <1>4, <1>5, UnlockedStep

LEMMA ReverseWriteStep ==
    ASSUME IInv, NEW r \in Requests, NEW k \in Keys, ReverseWrite(r, k)
    PROVE  IInv' /\ Gives
  <1>1. /\ proc[r].stage \notin Ruling /\ ~LockedFor(r, {k})
        /\ proc' = [proc EXCEPT ![r] = Idle] /\ gone' = gone \ {r}
        /\ UNCHANGED <<visits, rule, promo, appt, raced>>
        /\ coupon' = coupon \/ coupon' = [coupon EXCEPT ![k] = Available]
    BY DEF ReverseWrite, Ruling
  <1>2. Available \in Coupon /\ Available.status # "ABSENT"
    BY DEF Available, Coupon
  <1>3. Gives
    BY <1>1 DEF Gives, IInv, TypeOK
  <1> QED
    BY <1>1, <1>2, <1>3, UnlockedStep

LEMMA AbandonStep ==
    ASSUME IInv, NEW r \in Requests, Abandon(r)
    PROVE  IInv' /\ Gives
  <1>1. /\ proc' = [proc EXCEPT ![r] = Idle] /\ gone' = gone \ {r}
        /\ UNCHANGED <<visits, rule, promo, coupon, appt>>
        /\ raced' = IF proc[r].stage \in Ruling THEN Clients ELSE raced
    BY DEF Abandon
  <1>2. Gives /\ coupon' \in [Keys -> Coupon]
    BY <1>1 DEF Gives, IInv, TypeOK
  <1>3. gone' \subseteq Requests /\ raced \subseteq raced' /\ raced' \subseteq Clients
    BY <1>1 DEF IInv, TypeOK
  <1>4. \A c \in Clients \ raced', k \in Rules :
            Owes(r, c, k) => coupon'[<<c, k>>].status # "ABSENT"
    BY <1>1 DEF Owes
  <1> QED
    BY <1>1, <1>2, <1>3, <1>4, EndStep

-----------------------------------------------------------------------------
(* The reads of promotions and redemptions, and the steps of nobody.       *)

LEMMA BeginStep ==
    ASSUME IInv, NEW r \in Requests, proc[r].stage = "idle",
           NEW p \in Proc, proc' = [proc EXCEPT ![r] = p],
           p.stage \in {"promoting", "redeeming", "reversing"}, p.withdrawn = {},
           p.stage = "redeeming" => /\ p.appt \in Appointments
                                    /\ \A k \in p.keys : OwnCoupon(k, p.appt),
           UNCHANGED <<visits, rule, promo, coupon, appt, gone, raced>>
    PROVE  IInv' /\ Gives
  <1>1. CarriesRightly(p)
    BY DEF CarriesRightly, Syncing, Counting, Ruling
  <1>2. proc'[r] = p
    BY DEF IInv, TypeOK
  <1>3. CountedRightly(proc[r])'
    BY <1>2 DEF CountedRightly, Syncing, Counting
  <1>4. Touches(r)' = {}
    BY <1>2 DEF Touches, Syncing, Counting, Ruling
  <1>5. \A c \in Clients, k \in Rules : ~Owes(r, c, k)
    BY DEF Owes, Ruling
  <1>6. raced \subseteq raced' /\ raced' \subseteq Clients
    BY DEF IInv, TypeOK
  <1> QED
    BY <1>1, <1>3, <1>4, <1>5, <1>6, QuietStep

LEMMA IssueCheckStep ==
    ASSUME IInv, NEW r \in Requests, NEW p \in Promotions, NEW c \in Clients,
           IssueCheck(r, p, c)
    PROVE  IInv' /\ Gives
  <1> DEFINE ks == {<<c, p>>}
             q == [Idle EXCEPT !.stage = "promoting", !.keys = ks]
  <1>1. ks \subseteq Keys
    BY DEF Keys
  <1>2. /\ proc[r].stage = "idle" /\ proc' = [proc EXCEPT ![r] = q]
        /\ UNCHANGED <<visits, rule, promo, coupon, appt, gone, raced>>
    BY DEF IssueCheck
  <1> HIDE DEF ks
  <1>3. q \in Proc /\ q.stage = "promoting" /\ q.withdrawn = {}
    BY <1>1, IdleType DEF Proc, Stages
  <1> HIDE DEF q
  <1> QED
    BY <1>2, <1>3, BeginStep

LEMMA RedeemReadStep ==
    ASSUME IInv, NEW r \in Requests, NEW k \in Keys, NEW a \in Appointments, NEW actor,
           RedeemRead(r, actor, k, a)
    PROVE  IInv' /\ Gives
  <1> DEFINE ks == {k}
             q == [Idle EXCEPT !.stage = "redeeming", !.keys = ks, !.appt = a]
  <1>1. ks \in SUBSET Keys
    OBVIOUS
  <1>2. /\ proc[r].stage = "idle" /\ proc' = [proc EXCEPT ![r] = q]
        /\ UNCHANGED <<visits, rule, promo, coupon, appt, gone, raced>>
        /\ \A j \in ks : OwnCoupon(j, a)
    BY DEF RedeemRead
  <1> HIDE DEF ks
  <1>3. q \in Proc /\ q.stage = "redeeming" /\ q.keys = ks /\ q.appt = a /\ q.withdrawn = {}
    BY <1>1, IdleType DEF Proc, Stages
  <1> HIDE DEF q
  <1> QED
    BY <1>2, <1>3, BeginStep

LEMMA ReverseReadStep ==
    ASSUME IInv, NEW r \in Requests, NEW k \in Keys, ReverseRead(r, k)
    PROVE  IInv' /\ Gives
  <1> DEFINE ks == {k}
             a == coupon[k].appt
             q == [Idle EXCEPT !.stage = "reversing", !.keys = ks, !.appt = a]
  <1>1. ks \in SUBSET Keys /\ a \in Appointments \union {None}
    BY DEF IInv, TypeOK, Coupon
  <1>2. /\ proc[r].stage = "idle" /\ proc' = [proc EXCEPT ![r] = q]
        /\ UNCHANGED <<visits, rule, promo, coupon, appt, gone, raced>>
    BY DEF ReverseRead
  <1> HIDE DEF ks, a
  <1>3. q \in Proc /\ q.stage = "reversing" /\ q.withdrawn = {}
    BY <1>1, IdleType DEF Proc, Stages
  <1> HIDE DEF q
  <1> QED
    BY <1>2, <1>3, BeginStep

\* Cancellations and promotions write neither coupons nor requests.
LEMMA AsideStep ==
    ASSUME IInv, UNCHANGED <<visits, rule, coupon, proc, gone, raced>>, TypeOK'
    PROVE  IInv' /\ Gives
  <1>1. Carries' /\ Withdrawals'
    BY DEF IInv, Carries, CarriesRightly, OwnCoupon, Withdrawals
  <1>2. NotCombined' /\ Gives
    BY DEF IInv, NotCombined, Gives
  <1>3. Alone'
    BY DEF IInv, Alone, Touches
  <1>4. Owed'
    BY DEF IInv, Owed, Owes, Reached
  <1>5. Counted'
    BY DEF IInv, Counted, CountedRightly, Reached
  <1> QED
    BY <1>1, <1>2, <1>3, <1>4, <1>5 DEF IInv

LEMMA CancelStep ==
    ASSUME IInv, NEW a \in Appointments, Cancel(a)
    PROVE  IInv' /\ Gives
  <1>1. TypeOK'
    BY DEF IInv, TypeOK, Cancel
  <1> QED
    BY <1>1, AsideStep DEF Cancel

LEMMA SavePromotionStep ==
    ASSUME IInv, NEW p \in Promotions, NEW active \in BOOLEAN, SavePromotion(p, active)
    PROVE  IInv' /\ Gives
  <1>1. promo' \in [Promotions -> {"ABSENT", "ACTIVE", "INACTIVE"}]
    BY DEF IInv, TypeOK, SavePromotion
  <1>2. TypeOK'
    BY <1>1 DEF IInv, TypeOK, SavePromotion
  <1> QED
    BY <1>2, AsideStep DEF SavePromotion

-----------------------------------------------------------------------------
(* The theorems.                                                           *)

LEMMA NextIInv == IInv /\ [Next]_vars => IInv' /\ (Gives \/ Redeems)
  <1> SUFFICES ASSUME IInv, [Next]_vars PROVE IInv' /\ (Gives \/ Redeems)
    OBVIOUS
  <1>1. ASSUME NEW a \in Appointments, Cancel(a) PROVE IInv' /\ Gives
    BY <1>1, CancelStep
  <1>2. ASSUME NEW p \in Promotions, NEW active \in BOOLEAN, SavePromotion(p, active)
        PROVE  IInv' /\ Gives
    BY <1>2, SavePromotionStep
  <1>3. ASSUME NEW r \in Requests, NEW a \in Appointments, Complete(r, a) PROVE IInv' /\ Gives
    BY <1>3, CompleteStep
  <1>4. ASSUME NEW r \in Requests, NEW c \in Clients, NEW n \in Totals, CorrectVisits(r, c, n)
        PROVE  IInv' /\ Gives
    BY <1>4, CorrectVisitsStep
  <1>5. ASSUME NEW r \in Requests,
               SyncCount(r) \/ SyncWithdraw(r) \/ SyncChoose(r) \/ SyncCommit(r)
        PROVE  IInv' /\ Gives
    BY <1>5, SyncCountStep, SyncWithdrawStep, SyncChooseStep, SyncCommitStep
  <1>6. ASSUME NEW r \in Requests, NEW k \in Rules, NEW n \in Numbers, NEW active \in BOOLEAN,
               SaveRule(r, k, n, active)
        PROVE  IInv' /\ Gives
    BY <1>6, SaveRuleStep
  <1>7. ASSUME NEW r \in Requests, ReadRule(r) \/ IssueTotals(r) \/ IssueToEligible(r)
        PROVE  IInv' /\ Gives
    BY <1>7, ReadRuleStep, IssueTotalsStep, IssueToEligibleStep
  <1>8. ASSUME NEW r \in Requests, NEW p \in Promotions, NEW c \in Clients, IssueCheck(r, p, c)
        PROVE  IInv' /\ Gives
    BY <1>8, IssueCheckStep
  <1>9. ASSUME NEW r \in Requests, IssuePromotion(r) \/ Abandon(r) PROVE IInv' /\ Gives
    BY <1>9, IssuePromotionStep, AbandonStep
  <1>10. ASSUME NEW r \in Requests, NEW k \in Keys, NEW a \in Appointments,
                NEW actor \in Techs \union {Admin}, RedeemRead(r, actor, k, a)
         PROVE  IInv' /\ Gives
    BY <1>10, RedeemReadStep
  <1>11. ASSUME NEW r \in Requests, NEW k \in Keys,
                RedeemWrite(r, k) \/ ReverseRead(r, k) \/ ReverseWrite(r, k)
         PROVE  IInv' /\ (Gives \/ Redeems)
    BY <1>11, RedeemWriteStep, ReverseReadStep, ReverseWriteStep
  <1>12. ASSUME UNCHANGED vars PROVE IInv' /\ Gives
    <2>1. TypeOK'
      BY <1>12 DEF IInv, TypeOK, vars
    <2> QED
      BY <1>12, <2>1, AsideStep DEF vars
  <1> QED
    BY <1>1, <1>2, <1>3, <1>4, <1>5, <1>6, <1>7, <1>8, <1>9, <1>10, <1>11, <1>12 DEF Next

LEMMA AlwaysIInv == Spec => []IInv
  <1>1. IInv /\ [Next]_vars => IInv'
    BY NextIInv
  <1> QED
    BY <1>1, InitIInv, PTL DEF Spec

\* Visits, rules, coupons and requests keep their types in every behaviour.
THEOREM LoyaltyTypeCorrect == Spec => []TypeOK
  <1>1. IInv => TypeOK
    BY DEF IInv
  <1> QED
    BY <1>1, AlwaysIInv, PTL

\* However redemptions, reversals and corrections race, an appointment carries
\* one redeemed coupon at most, and one of its own client.
THEOREM CouponsNeverCombined == Spec => []NotCombined
  <1>1. IInv => NotCombined
    BY DEF IInv
  <1> QED
    BY <1>1, AlwaysIInv, PTL

\* At rest, a client whose visits and rules nobody worked on at once has the
\* coupon of every rule she reached.
THEOREM EarnedAlwaysGranted == Spec => []EarnedIsGranted
  <1>1. IInv => EarnedIsGranted
    <2> SUFFICES ASSUME IInv, \A r \in Requests : proc[r].stage = "idle",
                        NEW c \in Clients \ raced, NEW k \in Rules, Reached(k, visits[c])
                 PROVE  JourneyState(c, k) # "LOCKED"
      BY DEF EarnedIsGranted
    <2>1. \A r \in Requests : ~Owes(r, c, k)
      BY DEF Owes, Ruling
    <2>2. coupon[<<c, k>>].status # "ABSENT"
      BY <2>1 DEF IInv, Owed
    <2>3. coupon[<<c, k>>].status \in {"AVAILABLE", "REDEEMED"}
      BY <2>2 DEF IInv, TypeOK, Keys, Coupon
    <2> QED
      BY <2>3 DEF JourneyState
  <1> QED
    BY <1>1, AlwaysIInv, PTL

\* A used coupon stays used on its appointment until a reversal takes it back:
\* no correction of visits, rule or other redemption touches it.
THEOREM UsedAlwaysStays == Spec => UsedStays
  <1>1. IInv /\ [Next]_vars =>
            [\A k \in Keys : coupon[k].status = "REDEEMED" =>
                coupon'[k] \in {coupon[k], Available}]_vars
    <2> SUFFICES ASSUME IInv, [Next]_vars
                 PROVE  \A k \in Keys : coupon[k].status = "REDEEMED" =>
                            coupon'[k] \in {coupon[k], Available}
      OBVIOUS
    <2>1. IInv' /\ (Gives \/ Redeems)
      BY NextIInv
    <2> QED
      BY <2>1, GivesKeeps, RedeemsKeeps DEF IInv, TypeOK
  <1> QED
    BY <1>1, AlwaysIInv, PTL DEF Spec, UsedStays

=============================================================================
