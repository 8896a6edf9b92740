---------------------------- MODULE StudioProofs ----------------------------
(***************************************************************************)
(* What working hours, reminders, reports and the calculator each keep,    *)
(* for any technicians, appointments, hours, requests and runs.            *)
(***************************************************************************)
EXTENDS MCStudio, LoyaltyProofs, FunctionTheorems, Sequences, SequenceTheorems,
        FiniteSetTheorems, WellFoundedInduction, TLAPS

-----------------------------------------------------------------------------
(* Working hours.  Who changed them warns of what they leave outside, and  *)
(* whoever checked a booking before is stale.                              *)

HourRequest ==
    [stage : H!Stages, tech : HoursTechnicians \union {None}, sent : SUBSET H!Periods,
     seen : SUBSET (HoursRequests \X H!Periods), todo : SUBSET HoursTechnicians,
     listed : SUBSET H!Place, found : SUBSET H!Place, appt : HoursAppointments \union {None},
     start : HoursStarts \union {None}, stale : BOOLEAN]

TablesTyped ==
    /\ global \subseteq HoursRequests \X H!Periods
    /\ schedule \in [HoursTechnicians -> [usesGlobal : BOOLEAN, accepting : BOOLEAN]]
    /\ weekly \in [HoursTechnicians -> SUBSET H!Periods]
    /\ override \in [HoursTechnicians -> [present : BOOLEAN, closed : BOOLEAN, periods : SUBSET H!Periods]]

PlacesTyped ==
    /\ hoursAppt \in [HoursAppointments -> H!Appt]
    /\ \A a \in H!Blocking : hoursAppt[a].tech \in HoursTechnicians /\ hoursAppt[a].start \in HoursStarts
    /\ warned \subseteq H!Place /\ hoursRaced \subseteq H!Place

RequestsTyped == hoursReq \in [HoursRequests -> HourRequest]

\* What a request checked is still so, or it is stale.
CheckStands(x) ==
    x.stage = "checked" =>
       /\ x.tech \in HoursTechnicians /\ x.appt \in HoursAppointments /\ x.start \in HoursStarts
       /\ x.stale \/ H!IsWithinAvailability(x.tech, x.start, x.start + HoursDuration)

\* The request has yet to warn of the place.
WillWarn(x, w) ==
    \/ x.stage = "committed" /\ schedule[w.tech].usesGlobal
    \/ x.stage = "warning" /\ (w.tech \in x.todo \/ w \in x.listed \/ w \in x.found)

Covered ==
    \A a \in H!Blocking : H!Outside(H!PlaceOf(a)) =>
       \/ H!PlaceOf(a) \in warned \union hoursRaced
       \/ \E r \in HoursRequests : WillWarn(hoursReq[r], H!PlaceOf(a))

\* A change of the global hours found the rows there are, if it is alone.
Replacing(x) == x.stage = "deleted" => H!Valid(x.sent) /\ (~crossed => x.seen = global)

OneReplaces ==
    ~crossed => \A q, r \in HoursRequests :
       hoursReq[q].stage = "deleted" /\ hoursReq[r].stage = "deleted" => q = r

Replacements == OneReplaces /\ \A r \in HoursRequests : Replacing(hoursReq[r])

HoursIInv ==
    /\ TablesTyped /\ PlacesTyped /\ RequestsTyped /\ crossed \in BOOLEAN
    /\ \A r \in HoursRequests : CheckStands(hoursReq[r])
    /\ Covered
    /\ Replacements /\ H!PeriodsApart

LEMMA HoursConstants ==
  /\ PeriodSets \subseteq SUBSET (Nat \X Nat) /\ HoursStarts \subseteq Nat
  /\ HoursDuration \in Nat /\ Interval \in Nat /\ Interval > 0 /\ Earliest \in Nat /\ Latest \in Nat
  /\ None \notin HoursTechnicians /\ None \notin HoursStarts
  BY StudioAssumption

LEMMA MinuteEnds ==
  ASSUME NEW s \in HoursStarts PROVE s \in Nat /\ HoursDuration \in Nat /\ s + HoursDuration \in Nat
  <1>1. s \in Nat /\ HoursDuration \in Nat
    BY StudioAssumption
  <1> QED
    BY <1>1

LEMMA SlotMinutes == {m \in Earliest..Latest : m % Interval = 0} \subseteq HoursStarts
  BY StudioAssumption

LEMMA PeriodTimes == \A p \in H!Periods : p \in Nat \X Nat /\ p[1] \in Nat /\ p[2] \in Nat
  BY HoursConstants DEF H!Periods

LEMMA SentPeriods == \A ps \in PeriodSets : ps \in SUBSET H!Periods
  BY DEF H!Periods

\* Periods that validateDay lets pass do not overlap.
LEMMA ValidApart == ASSUME NEW ps \in SUBSET H!Periods, H!Valid(ps) PROVE H!Apart(ps)
  BY PeriodTimes DEF H!Valid, H!Overlap, H!Apart

LEMMA HoursIdle == H!Idle \in HourRequest /\ H!Idle.stage = "idle"
  BY DEF H!Idle, HourRequest, H!Stages

LEMMA HoursInit == H!Init => HoursIInv
  <1> SUFFICES ASSUME H!Init PROVE HoursIInv
    OBVIOUS
  <1> USE DEF H!Init
  <1>1. TablesTyped
    BY DEF TablesTyped, H!NoOverride
  <1>2. PlacesTyped /\ H!Blocking = {}
    BY DEF PlacesTyped, H!Blocking, H!NoAppt, H!Appt
  <1>3. RequestsTyped /\ \A r \in HoursRequests : hoursReq[r].stage = "idle"
    BY HoursIdle DEF RequestsTyped
  <1>4. H!PeriodsApart
    BY DEF H!PeriodsApart, H!Apart, H!NoOverride
  <1> QED
    BY <1>1, <1>2, <1>3, <1>4
       DEF HoursIInv, CheckStands, Covered, Replacements, OneReplaces, Replacing

\* The place of an appointment, and of one that does not move.
LEMMA PlaceTyped ==
  ASSUME PlacesTyped, NEW a \in H!Blocking
  PROVE  H!PlaceOf(a) \in H!Place /\ H!PlaceOf(a).tech = hoursAppt[a].tech
  <1>1. hoursAppt[a].tech \in HoursTechnicians /\ hoursAppt[a].start \in HoursStarts
    BY DEF PlacesTyped
  <1>2. hoursAppt[a].start + HoursDuration \in Nat
    BY <1>1, MinuteEnds
  <1>3. a \in HoursAppointments
    BY DEF H!Blocking
  <1> QED
    BY <1>1, <1>2, <1>3 DEF H!PlaceOf, H!Place

LEMMA SamePlaces ==
  ASSUME UNCHANGED hoursAppt
  PROVE  H!Blocking' = H!Blocking /\ \A a \in HoursAppointments : H!PlaceOf(a)' = H!PlaceOf(a)
  BY DEF H!Blocking, H!PlaceOf

LEMMA SameHours ==
  ASSUME NEW t, H!PeriodsFor(t)' = H!PeriodsFor(t), NEW s, NEW e
  PROVE  H!IsWithinAvailability(t, s, e)' <=> H!IsWithinAvailability(t, s, e)
  BY DEF H!IsWithinAvailability

\* Hours, and all that is kept of them, while the tables stay.
LEMMA SameTables ==
  ASSUME UNCHANGED <<global, schedule, weekly, override>>
  PROVE  /\ \A t, s, e : H!IsWithinAvailability(t, s, e)' <=> H!IsWithinAvailability(t, s, e)
         /\ \A w : H!Outside(w)' <=> H!Outside(w)
         /\ \A x, w : WillWarn(x, w)' <=> WillWarn(x, w)
  BY DEF H!IsWithinAvailability, H!PeriodsFor, H!Outside, WillWarn

\* The request r, and no other, becomes p, which warns of what r was to warn of.
LEMMA OneRequestMoves ==
  ASSUME HoursIInv, NEW r \in HoursRequests, NEW p \in HourRequest,
         hoursReq' = [hoursReq EXCEPT ![r] = p],
         UNCHANGED <<global, schedule, weekly, override, hoursAppt>>,
         warned \subseteq warned', warned' \subseteq H!Place,
         hoursRaced \subseteq hoursRaced', hoursRaced' \subseteq H!Place,
         CheckStands(p),
         \A a \in H!Blocking : H!Outside(H!PlaceOf(a)) /\ WillWarn(hoursReq[r], H!PlaceOf(a)) =>
            WillWarn(p, H!PlaceOf(a)) \/ H!PlaceOf(a) \in warned' \union hoursRaced'
  PROVE  /\ TablesTyped' /\ PlacesTyped' /\ RequestsTyped'
         /\ hoursReq'[r] = p /\ \A q \in HoursRequests \ {r} : hoursReq'[q] = hoursReq[q]
         /\ \A q \in HoursRequests : CheckStands(hoursReq[q])'
         /\ Covered'
  <1>1. hoursReq'[r] = p /\ \A q \in HoursRequests \ {r} : hoursReq'[q] = hoursReq[q]
    BY DEF HoursIInv, RequestsTyped
  <1>2. TablesTyped' /\ RequestsTyped'
    BY DEF HoursIInv, TablesTyped, RequestsTyped
  <1>3. PlacesTyped'
    BY SamePlaces DEF HoursIInv, PlacesTyped
  <1>4. \A q \in HoursRequests : CheckStands(hoursReq[q])'
    BY <1>1, SameTables DEF HoursIInv, CheckStands
  <1>5. Covered'
    <2> SUFFICES ASSUME NEW a \in H!Blocking, H!Outside(H!PlaceOf(a))
                 PROVE  \/ H!PlaceOf(a) \in warned' \union hoursRaced'
                        \/ \E q \in HoursRequests : WillWarn(hoursReq'[q], H!PlaceOf(a))
      <3>1. H!Blocking' = H!Blocking /\ \A a \in H!Blocking : H!PlaceOf(a)' = H!PlaceOf(a)
        BY SamePlaces DEF H!Blocking
      <3>2. /\ \A w : H!Outside(w)' <=> H!Outside(w)
            /\ \A w : \A q \in HoursRequests : WillWarn(hoursReq[q], w)' <=> WillWarn(hoursReq'[q], w)
        BY SameTables DEF WillWarn
      <3>3. \A a \in H!Blocking : H!Outside(H!PlaceOf(a))' <=> H!Outside(H!PlaceOf(a))
        BY <3>1, <3>2 DEF H!PlaceOf
      <3> QED
        BY <3>1, <3>2, <3>3 DEF Covered
    <2>1. CASE H!PlaceOf(a) \in warned \union hoursRaced
      BY <2>1
    <2>2. ASSUME NEW q \in HoursRequests, WillWarn(hoursReq[q], H!PlaceOf(a)) PROVE
            \/ H!PlaceOf(a) \in warned' \union hoursRaced'
            \/ \E b \in HoursRequests : WillWarn(hoursReq'[b], H!PlaceOf(a))
      BY <1>1, <2>2
    <2> QED
      BY <2>1, <2>2 DEF HoursIInv, Covered
  <1> QED
    BY <1>1, <1>2, <1>3, <1>4, <1>5

\* Such a step replaces nothing but what r was to replace.
LEMMA QuietMove ==
  ASSUME HoursIInv, NEW r \in HoursRequests, UNCHANGED <<global, schedule, weekly, override, crossed>>,
         hoursReq'[r].stage # "deleted", \A q \in HoursRequests \ {r} : hoursReq'[q] = hoursReq[q]
  PROVE  Replacements' /\ H!PeriodsApart' /\ crossed' \in BOOLEAN
  BY DEF HoursIInv, Replacements, OneReplaces, Replacing, H!PeriodsApart

-----------------------------------------------------------------------------

LEMMA GlobalDeleteStep ==
  ASSUME HoursIInv, NEW r \in HoursRequests, NEW ps \in PeriodSets, H!GlobalDelete(r, ps)
  PROVE  HoursIInv'
  <1> DEFINE p == [H!Idle EXCEPT !.stage = "deleted", !.sent = ps, !.seen = global]
  <1>1. /\ hoursReq[r].stage = "idle" /\ H!Valid(ps) /\ hoursReq' = [hoursReq EXCEPT ![r] = p]
        /\ crossed' = (crossed \/ \E q \in HoursRequests : hoursReq[q].stage = "deleted")
        /\ UNCHANGED <<global, schedule, weekly, override, hoursAppt, warned, hoursRaced>>
    BY DEF H!GlobalDelete, H!Become, H!tables
  <1>2. p \in HourRequest /\ p.stage = "deleted" /\ p.sent = ps /\ p.seen = global
    BY HoursIdle, SentPeriods DEF HoursIInv, TablesTyped, HourRequest, H!Stages
  <1> HIDE DEF p
  <1>3. /\ TablesTyped' /\ PlacesTyped' /\ RequestsTyped'
        /\ hoursReq'[r] = p /\ \A q \in HoursRequests \ {r} : hoursReq'[q] = hoursReq[q]
        /\ \A q \in HoursRequests : CheckStands(hoursReq[q])'
        /\ Covered'
    <2>1. warned \subseteq H!Place /\ hoursRaced \subseteq H!Place /\ CheckStands(p)
          /\ \A w : ~WillWarn(hoursReq[r], w)
      BY <1>1, <1>2 DEF HoursIInv, PlacesTyped, CheckStands, WillWarn
    <2> QED
      BY <1>1, <1>2, <2>1, OneRequestMoves
  <1>4. Replacements'
    <2>1. \A q \in HoursRequests : Replacing(hoursReq[q])'
      BY <1>1, <1>2, <1>3 DEF HoursIInv, Replacements, Replacing, H!Valid
    <2>2. OneReplaces'
      BY <1>1, <1>3 DEF OneReplaces
    <2> QED
      BY <2>1, <2>2 DEF Replacements
  <1>5. H!PeriodsApart' /\ crossed' \in BOOLEAN
    BY <1>1 DEF HoursIInv, H!PeriodsApart
  <1> QED
    BY <1>3, <1>4, <1>5 DEF HoursIInv

LEMMA GlobalInheritedStep ==
  ASSUME HoursIInv, NEW r \in HoursRequests, H!GlobalInherited(r) PROVE HoursIInv'
  <1> DEFINE p == [H!Idle EXCEPT !.stage = "warning", !.todo = H!Inherited]
  <1>1. /\ hoursReq[r].stage = "committed" /\ hoursReq' = [hoursReq EXCEPT ![r] = p]
        /\ UNCHANGED <<global, schedule, weekly, override, hoursAppt, warned, hoursRaced, crossed>>
    BY DEF H!GlobalInherited, H!Become, H!tables, H!histories
  <1>2. p \in HourRequest /\ p.stage = "warning" /\ p.todo = H!Inherited
    BY HoursIdle DEF HourRequest, H!Stages, H!Inherited
  <1> HIDE DEF p
  <1>3. /\ TablesTyped' /\ PlacesTyped' /\ RequestsTyped'
        /\ hoursReq'[r] = p /\ \A q \in HoursRequests \ {r} : hoursReq'[q] = hoursReq[q]
        /\ \A q \in HoursRequests : CheckStands(hoursReq[q])'
        /\ Covered'
    <2>1. warned \subseteq H!Place /\ hoursRaced \subseteq H!Place /\ CheckStands(p) /\ PlacesTyped
      BY <1>1, <1>2 DEF HoursIInv, PlacesTyped, CheckStands
    <2>2. \A a \in H!Blocking : WillWarn(hoursReq[r], H!PlaceOf(a)) => WillWarn(p, H!PlaceOf(a))
      BY <1>1, <1>2, <2>1, PlaceTyped DEF WillWarn, H!Inherited, H!Place
    <2> QED
      BY <1>1, <1>2, <2>1, <2>2, OneRequestMoves
  <1>4. Replacements' /\ H!PeriodsApart' /\ crossed' \in BOOLEAN
    BY <1>1, <1>2, <1>3, QuietMove
  <1> QED
    BY <1>3, <1>4 DEF HoursIInv

LEMMA ListAppointmentsStep ==
  ASSUME HoursIInv, NEW r \in HoursRequests, NEW t \in HoursTechnicians, H!ListAppointments(r, t)
  PROVE  HoursIInv'
  <1> DEFINE p == [hoursReq[r] EXCEPT !.todo = hoursReq[r].todo \ {t},
                      !.listed = hoursReq[r].listed \union
                        {H!PlaceOf(a) : a \in {b \in H!Blocking : hoursAppt[b].tech = t}}]
  <1>1. /\ hoursReq[r].stage = "warning" /\ hoursReq' = [hoursReq EXCEPT ![r] = p]
        /\ UNCHANGED <<global, schedule, weekly, override, hoursAppt, warned, hoursRaced, crossed>>
    BY DEF H!ListAppointments, H!Become, H!tables, H!histories
  <1>2. hoursReq[r] \in HourRequest /\ PlacesTyped
    BY DEF HoursIInv, RequestsTyped
  <1>3. /\ p \in HourRequest /\ p.stage = "warning" /\ p.todo = hoursReq[r].todo \ {t}
        /\ p.found = hoursReq[r].found
        /\ p.listed = hoursReq[r].listed \union
                        {H!PlaceOf(a) : a \in {b \in H!Blocking : hoursAppt[b].tech = t}}
    <2>1. {H!PlaceOf(a) : a \in {b \in H!Blocking : hoursAppt[b].tech = t}} \subseteq H!Place
      BY <1>2, PlaceTyped
    <2> QED
      BY <1>1, <1>2, <2>1 DEF HourRequest
  <1> HIDE DEF p
  <1>4. /\ TablesTyped' /\ PlacesTyped' /\ RequestsTyped'
        /\ hoursReq'[r] = p /\ \A q \in HoursRequests \ {r} : hoursReq'[q] = hoursReq[q]
        /\ \A q \in HoursRequests : CheckStands(hoursReq[q])'
        /\ Covered'
    <2>1. warned \subseteq H!Place /\ hoursRaced \subseteq H!Place /\ CheckStands(p)
      BY <1>2, <1>3 DEF PlacesTyped, CheckStands
    <2>2. \A a \in H!Blocking : WillWarn(hoursReq[r], H!PlaceOf(a)) => WillWarn(p, H!PlaceOf(a))
      BY <1>1, <1>2, <1>3, PlaceTyped DEF WillWarn
    <2> QED
      BY <1>1, <1>3, <2>1, <2>2, OneRequestMoves
  <1>5. Replacements' /\ H!PeriodsApart' /\ crossed' \in BOOLEAN
    BY <1>1, <1>3, <1>4, QuietMove
  <1> QED
    BY <1>4, <1>5 DEF HoursIInv

LEMMA CompareStep ==
  ASSUME HoursIInv, NEW r \in HoursRequests, NEW w \in hoursReq[r].listed, H!Compare(r, w)
  PROVE  HoursIInv'
  <1> DEFINE p == [hoursReq[r] EXCEPT !.listed = hoursReq[r].listed \ {w},
                      !.found = hoursReq[r].found \union {v \in {w} : H!Outside(v)}]
  <1>1. /\ hoursReq[r].stage = "warning" /\ hoursReq' = [hoursReq EXCEPT ![r] = p]
        /\ UNCHANGED <<global, schedule, weekly, override, hoursAppt, warned, hoursRaced, crossed>>
    BY DEF H!Compare, H!Become, H!tables, H!histories
  <1>2. hoursReq[r] \in HourRequest /\ PlacesTyped
    BY DEF HoursIInv, RequestsTyped
  <1>3. /\ p \in HourRequest /\ p.stage = "warning" /\ p.todo = hoursReq[r].todo
        /\ p.listed = hoursReq[r].listed \ {w}
        /\ p.found = hoursReq[r].found \union {v \in {w} : H!Outside(v)}
    BY <1>1, <1>2 DEF HourRequest
  <1> HIDE DEF p
  <1>4. /\ TablesTyped' /\ PlacesTyped' /\ RequestsTyped'
        /\ hoursReq'[r] = p /\ \A q \in HoursRequests \ {r} : hoursReq'[q] = hoursReq[q]
        /\ \A q \in HoursRequests : CheckStands(hoursReq[q])'
        /\ Covered'
    <2>1. warned \subseteq H!Place /\ hoursRaced \subseteq H!Place /\ CheckStands(p)
      BY <1>2, <1>3 DEF PlacesTyped, CheckStands
    <2>2. \A a \in H!Blocking : H!Outside(H!PlaceOf(a)) /\ WillWarn(hoursReq[r], H!PlaceOf(a)) =>
             WillWarn(p, H!PlaceOf(a))
      BY <1>1, <1>3 DEF WillWarn
    <2> QED
      BY <1>1, <1>3, <2>1, <2>2, OneRequestMoves
  <1>5. Replacements' /\ H!PeriodsApart' /\ crossed' \in BOOLEAN
    BY <1>1, <1>3, <1>4, QuietMove
  <1> QED
    BY <1>4, <1>5 DEF HoursIInv

LEMMA WarnStep == ASSUME HoursIInv, NEW r \in HoursRequests, H!Warn(r) PROVE HoursIInv'
  <1>1. /\ hoursReq[r].stage = "warning" /\ hoursReq[r].todo = {} /\ hoursReq[r].listed = {}
        /\ hoursReq' = [hoursReq EXCEPT ![r] = H!Idle]
        /\ warned' = warned \union hoursReq[r].found
        /\ UNCHANGED <<global, schedule, weekly, override, hoursAppt, hoursRaced, crossed>>
    BY DEF H!Warn, H!Done, H!Become, H!tables
  <1>2. hoursReq[r].found \subseteq H!Place
    BY DEF HoursIInv, RequestsTyped, HourRequest
  <1>3. /\ TablesTyped' /\ PlacesTyped' /\ RequestsTyped'
        /\ hoursReq'[r] = H!Idle /\ \A q \in HoursRequests \ {r} : hoursReq'[q] = hoursReq[q]
        /\ \A q \in HoursRequests : CheckStands(hoursReq[q])'
        /\ Covered'
    <2>1. warned \subseteq warned' /\ warned' \subseteq H!Place /\ hoursRaced \subseteq H!Place
          /\ CheckStands(H!Idle)
      BY <1>1, <1>2, HoursIdle DEF HoursIInv, PlacesTyped, CheckStands
    <2>2. \A a \in H!Blocking : WillWarn(hoursReq[r], H!PlaceOf(a)) => H!PlaceOf(a) \in warned'
      BY <1>1 DEF WillWarn
    <2> QED
      BY <1>1, <2>1, <2>2, HoursIdle, OneRequestMoves
  <1>4. Replacements' /\ H!PeriodsApart' /\ crossed' \in BOOLEAN
    BY <1>1, <1>3, HoursIdle, QuietMove
  <1> QED
    BY <1>3, <1>4 DEF HoursIInv

LEMMA CheckAvailabilityStep ==
  ASSUME HoursIInv, NEW r \in HoursRequests, NEW t \in HoursTechnicians,
         NEW a \in HoursAppointments, NEW s \in HoursStarts, H!CheckAvailability(r, t, a, s)
  PROVE  HoursIInv'
  <1> DEFINE p == [H!Idle EXCEPT !.stage = "checked", !.tech = t, !.appt = a, !.start = s]
  <1>1. /\ hoursReq[r].stage = "idle" /\ hoursReq' = [hoursReq EXCEPT ![r] = p]
        /\ H!IsWithinAvailability(t, s, s + HoursDuration)
        /\ UNCHANGED <<global, schedule, weekly, override, hoursAppt, warned, hoursRaced, crossed>>
    BY DEF H!CheckAvailability, H!Become, H!tables, H!histories
  <1>2. p \in HourRequest /\ p.stage = "checked" /\ p.tech = t /\ p.appt = a /\ p.start = s
    BY HoursIdle DEF HourRequest, H!Stages
  <1> HIDE DEF p
  <1>3. /\ TablesTyped' /\ PlacesTyped' /\ RequestsTyped'
        /\ hoursReq'[r] = p /\ \A q \in HoursRequests \ {r} : hoursReq'[q] = hoursReq[q]
        /\ \A q \in HoursRequests : CheckStands(hoursReq[q])'
        /\ Covered'
    <2>1. warned \subseteq H!Place /\ hoursRaced \subseteq H!Place /\ CheckStands(p)
          /\ \A w : ~WillWarn(hoursReq[r], w)
      BY <1>1, <1>2 DEF HoursIInv, PlacesTyped, CheckStands, WillWarn
    <2> QED
      BY <1>1, <1>2, <2>1, OneRequestMoves
  <1>4. Replacements' /\ H!PeriodsApart' /\ crossed' \in BOOLEAN
    BY <1>1, <1>2, <1>3, QuietMove
  <1> QED
    BY <1>3, <1>4 DEF HoursIInv

\* Whatever is outside when the request dies is remembered as raced.
LEMMA HoursDieStep == ASSUME HoursIInv, NEW r \in HoursRequests, H!Die(r) PROVE HoursIInv'
  <1>1. /\ hoursReq' = [hoursReq EXCEPT ![r] = H!Idle]
        /\ hoursRaced' = IF hoursReq[r].stage \in {"committed", "warning"}
                         THEN hoursRaced \union
                                {w \in {H!PlaceOf(a) : a \in H!Blocking} : H!Outside(w)}
                         ELSE hoursRaced
        /\ UNCHANGED <<global, schedule, weekly, override, hoursAppt, warned, crossed>>
    BY DEF H!Die, H!Done, H!Become, H!tables
  <1>2. PlacesTyped
    BY DEF HoursIInv
  <1>3. /\ TablesTyped' /\ PlacesTyped' /\ RequestsTyped'
        /\ hoursReq'[r] = H!Idle /\ \A q \in HoursRequests \ {r} : hoursReq'[q] = hoursReq[q]
        /\ \A q \in HoursRequests : CheckStands(hoursReq[q])'
        /\ Covered'
    <2>1. hoursRaced \subseteq hoursRaced' /\ hoursRaced' \subseteq H!Place /\ warned \subseteq H!Place
      BY <1>1, <1>2, PlaceTyped DEF PlacesTyped
    <2>2. CheckStands(H!Idle)
      BY HoursIdle DEF CheckStands
    <2>3. \A a \in H!Blocking : H!Outside(H!PlaceOf(a)) /\ WillWarn(hoursReq[r], H!PlaceOf(a)) =>
             H!PlaceOf(a) \in hoursRaced'
      BY <1>1 DEF WillWarn
    <2> QED
      BY <1>1, <2>1, <2>2, <2>3, HoursIdle, OneRequestMoves
  <1>4. Replacements' /\ H!PeriodsApart' /\ crossed' \in BOOLEAN
    BY <1>1, <1>3, HoursIdle, QuietMove
  <1> QED
    BY <1>3, <1>4 DEF HoursIInv

-----------------------------------------------------------------------------

\* A request that is only made stale.
LEMMA StaleFields ==
  ASSUME NEW x \in HourRequest, NEW b \in BOOLEAN
  PROVE  LET y == [x EXCEPT !.stale = b]
         IN  /\ y \in HourRequest /\ y.stage = x.stage /\ y.tech = x.tech /\ y.appt = x.appt
             /\ y.start = x.start /\ y.sent = x.sent /\ y.seen = x.seen /\ y.todo = x.todo
             /\ y.listed = x.listed /\ y.found = x.found /\ y.stale = b
  BY DEF HourRequest

\* The request r changes hours, and who has checked a booking is stale.
LEMMA Staling ==
  ASSUME RequestsTyped, NEW r \in HoursRequests, NEW p \in HourRequest,
         hoursReq' = [H!Staled({r}) EXCEPT ![r] = p]
  PROVE  /\ RequestsTyped' /\ hoursReq'[r] = p
         /\ \A q \in HoursRequests \ {r} :
              hoursReq'[q] = [hoursReq[q] EXCEPT !.stale = (hoursReq[q].stage = "checked")]
         /\ \A q \in HoursRequests \ {r} :
              /\ hoursReq'[q].stage = hoursReq[q].stage /\ hoursReq'[q].tech = hoursReq[q].tech
              /\ hoursReq'[q].appt = hoursReq[q].appt /\ hoursReq'[q].start = hoursReq[q].start
              /\ hoursReq'[q].sent = hoursReq[q].sent /\ hoursReq'[q].seen = hoursReq[q].seen
              /\ hoursReq'[q].todo = hoursReq[q].todo /\ hoursReq'[q].listed = hoursReq[q].listed
              /\ hoursReq'[q].found = hoursReq[q].found
              /\ hoursReq'[q].stale = (hoursReq[q].stage = "checked")
  <1>1. /\ hoursReq'[r] = p
        /\ \A q \in HoursRequests \ {r} :
             hoursReq'[q] = [hoursReq[q] EXCEPT !.stale = (hoursReq[q].stage = "checked")]
    BY DEF H!Staled
  <1>2. \A q \in HoursRequests : hoursReq[q] \in HourRequest
    BY DEF RequestsTyped
  <1>3. \A q \in HoursRequests \ {r} :
           [hoursReq[q] EXCEPT !.stale = (hoursReq[q].stage = "checked")] \in HourRequest
    BY <1>2, StaleFields
  <1>4. RequestsTyped'
    <2>1. hoursReq' \in [HoursRequests -> HourRequest]
      BY <1>1, <1>3 DEF H!Staled
    <2> QED
      BY <2>1 DEF RequestsTyped, HourRequest, H!Stages, H!Periods, H!Place
  <1>5. \A q \in HoursRequests \ {r} :
           /\ hoursReq'[q].stage = hoursReq[q].stage /\ hoursReq'[q].tech = hoursReq[q].tech
           /\ hoursReq'[q].appt = hoursReq[q].appt /\ hoursReq'[q].start = hoursReq[q].start
           /\ hoursReq'[q].sent = hoursReq[q].sent /\ hoursReq'[q].seen = hoursReq[q].seen
           /\ hoursReq'[q].todo = hoursReq[q].todo /\ hoursReq'[q].listed = hoursReq[q].listed
           /\ hoursReq'[q].found = hoursReq[q].found
           /\ hoursReq'[q].stale = (hoursReq[q].stage = "checked")
    <2> SUFFICES ASSUME NEW q \in HoursRequests \ {r}
                 PROVE  /\ hoursReq'[q].stage = hoursReq[q].stage /\ hoursReq'[q].tech = hoursReq[q].tech
                        /\ hoursReq'[q].appt = hoursReq[q].appt /\ hoursReq'[q].start = hoursReq[q].start
                        /\ hoursReq'[q].sent = hoursReq[q].sent /\ hoursReq'[q].seen = hoursReq[q].seen
                        /\ hoursReq'[q].todo = hoursReq[q].todo /\ hoursReq'[q].listed = hoursReq[q].listed
                        /\ hoursReq'[q].found = hoursReq[q].found
                        /\ hoursReq'[q].stale = (hoursReq[q].stage = "checked")
      OBVIOUS
    <2>1. hoursReq'[q] = [hoursReq[q] EXCEPT !.stale = (hoursReq[q].stage = "checked")]
          /\ hoursReq[q] \in HourRequest /\ (hoursReq[q].stage = "checked") \in BOOLEAN
      BY <1>1, <1>2
    <2> QED
      BY <2>1 DEF HourRequest
  <1> QED
    BY <1>1, <1>4, <1>5

\* It will warn of every place whose hours it changed.
LEMMA HoursMove ==
  ASSUME HoursIInv, NEW r \in HoursRequests, NEW p \in HourRequest,
         p.stage \in {"committed", "warning"}, hoursReq[r].stage \in {"idle", "deleted"},
         hoursReq' = [H!Staled({r}) EXCEPT ![r] = p],
         UNCHANGED <<hoursAppt, hoursRaced, crossed>>, warned' \subseteq warned,
         \A w \in H!Place :
            \/ WillWarn(p, w)'
            \/ /\ H!Outside(w)' => H!Outside(w)
               /\ w \in warned => w \in warned'
               /\ schedule'[w.tech].usesGlobal = schedule[w.tech].usesGlobal
  PROVE  /\ PlacesTyped' /\ RequestsTyped' /\ crossed' \in BOOLEAN
         /\ \A q \in HoursRequests : CheckStands(hoursReq[q])'
         /\ Covered'
         /\ OneReplaces'
         /\ \A q \in HoursRequests : hoursReq'[q].stage = "deleted" =>
              /\ q # r /\ hoursReq[q].stage = "deleted"
              /\ hoursReq'[q].sent = hoursReq[q].sent /\ hoursReq'[q].seen = hoursReq[q].seen
  <1>1. /\ RequestsTyped' /\ hoursReq'[r] = p
        /\ \A q \in HoursRequests \ {r} :
             /\ hoursReq'[q].stage = hoursReq[q].stage /\ hoursReq'[q].tech = hoursReq[q].tech
             /\ hoursReq'[q].appt = hoursReq[q].appt /\ hoursReq'[q].start = hoursReq[q].start
             /\ hoursReq'[q].sent = hoursReq[q].sent /\ hoursReq'[q].seen = hoursReq[q].seen
             /\ hoursReq'[q].todo = hoursReq[q].todo /\ hoursReq'[q].listed = hoursReq[q].listed
             /\ hoursReq'[q].found = hoursReq[q].found
             /\ hoursReq'[q].stale = (hoursReq[q].stage = "checked")
    BY Staling DEF HoursIInv
  <1>2. PlacesTyped' /\ crossed' \in BOOLEAN
    BY SamePlaces DEF HoursIInv, PlacesTyped
  <1>3. \A q \in HoursRequests : CheckStands(hoursReq[q])'
    <2> SUFFICES ASSUME NEW q \in HoursRequests PROVE CheckStands(hoursReq[q])'
      OBVIOUS
    <2>1. CASE q = r
      BY <1>1, <2>1 DEF CheckStands
    <2>2. CASE q # r
      <3>1. q \in HoursRequests \ {r} /\ CheckStands(hoursReq[q])
        BY <2>2 DEF HoursIInv
      <3> QED
        BY <1>1, <3>1 DEF CheckStands
    <2> QED
      BY <2>1, <2>2
  <1>4. \A q \in HoursRequests : hoursReq'[q].stage = "deleted" =>
              /\ q # r /\ hoursReq[q].stage = "deleted"
              /\ hoursReq'[q].sent = hoursReq[q].sent /\ hoursReq'[q].seen = hoursReq[q].seen
    BY <1>1
  <1>5. OneReplaces'
    BY <1>4 DEF HoursIInv, Replacements, OneReplaces
  <1>6. Covered'
    <2>1. H!Blocking' = H!Blocking /\ \A a \in H!Blocking : H!PlaceOf(a)' = H!PlaceOf(a)
      BY SamePlaces DEF H!Blocking
    <2>2. ASSUME NEW w \in H!Place, H!Outside(w)',
                 H!Outside(w) => \/ w \in warned \union hoursRaced
                                 \/ \E q \in HoursRequests : WillWarn(hoursReq[q], w)
          PROVE  w \in warned' \union hoursRaced' \/ \E q \in HoursRequests : WillWarn(hoursReq[q], w)'
      <3>1. CASE WillWarn(p, w)'
        BY <1>1, <3>1 DEF WillWarn
      <3>2. CASE /\ H!Outside(w)' => H!Outside(w)
                 /\ w \in warned => w \in warned'
                 /\ schedule'[w.tech].usesGlobal = schedule[w.tech].usesGlobal
        <4>1. w \in warned \union hoursRaced \/ \E q \in HoursRequests : WillWarn(hoursReq[q], w)
          BY <2>2, <3>2
        <4>2. ASSUME NEW q \in HoursRequests, WillWarn(hoursReq[q], w) PROVE WillWarn(hoursReq[q], w)'
          <5>1. q \in HoursRequests \ {r}
            BY <4>2 DEF WillWarn
          <5> QED
            BY <1>1, <3>2, <4>2, <5>1 DEF WillWarn
        <4> QED
          BY <3>2, <4>1, <4>2
      <3> QED
        BY <3>1, <3>2
    <2>3. SUFFICES ASSUME NEW a \in H!Blocking, H!Outside(H!PlaceOf(a))'
                   PROVE  \/ H!PlaceOf(a) \in warned' \union hoursRaced'
                          \/ \E q \in HoursRequests : WillWarn(hoursReq[q], H!PlaceOf(a))'
      BY <2>1 DEF Covered, H!PlaceOf
    <2>4. H!PlaceOf(a) \in H!Place
      BY PlaceTyped DEF HoursIInv
    <2>5. H!Outside(H!PlaceOf(a)) => \/ H!PlaceOf(a) \in warned \union hoursRaced
                                     \/ \E q \in HoursRequests : WillWarn(hoursReq[q], H!PlaceOf(a))
      BY DEF HoursIInv, Covered
    <2>6. H!PlaceOf(a)' = H!PlaceOf(a)
      BY <2>1
    <2> QED
        BY <2>2, <2>3, <2>4, <2>5, <2>6
  <1> QED
    BY <1>1, <1>2, <1>3, <1>4, <1>5, <1>6

\* A change for the manicurist t.
LEMMA HoursChange ==
  ASSUME HoursIInv, NEW r \in HoursRequests, NEW t \in HoursTechnicians,
         hoursReq[r].stage = "idle", H!ThenWarn(r, {t}),
         UNCHANGED <<global, hoursAppt, hoursRaced, crossed>>, TablesTyped',
         \A u \in HoursTechnicians \ {t} :
            schedule'[u] = schedule[u] /\ weekly'[u] = weekly[u] /\ override'[u] = override[u],
         H!PeriodsApart'
  PROVE  HoursIInv'
  <1> DEFINE p == [H!Idle EXCEPT !.stage = "warning", !.todo = {t}]
  <1>1. hoursReq' = [H!Staled({r}) EXCEPT ![r] = p] /\ warned' = {w \in warned : w.tech \notin {t}}
    BY DEF H!ThenWarn
  <1>2. p \in HourRequest /\ p.stage = "warning" /\ p.todo = {t}
    BY HoursIdle DEF HourRequest, H!Stages
  <1> HIDE DEF p
  <1>3. ASSUME NEW w \in H!Place
        PROVE  \/ WillWarn(p, w)'
               \/ /\ H!Outside(w)' => H!Outside(w)
                  /\ w \in warned => w \in warned'
                  /\ schedule'[w.tech].usesGlobal = schedule[w.tech].usesGlobal
    <2>1. CASE w.tech = t
      BY <1>2, <2>1 DEF WillWarn
    <2>2. CASE w.tech # t
      <3>1. w.tech \in HoursTechnicians \ {t}
        BY <2>2 DEF H!Place
      <3> QED
        BY <1>1, <3>1 DEF H!Outside, H!IsWithinAvailability, H!PeriodsFor
    <2> QED
      BY <2>1, <2>2
  <1>4. /\ PlacesTyped' /\ RequestsTyped' /\ crossed' \in BOOLEAN
        /\ \A q \in HoursRequests : CheckStands(hoursReq[q])'
        /\ Covered'
        /\ OneReplaces'
        /\ \A q \in HoursRequests : hoursReq'[q].stage = "deleted" =>
              /\ q # r /\ hoursReq[q].stage = "deleted"
              /\ hoursReq'[q].sent = hoursReq[q].sent /\ hoursReq'[q].seen = hoursReq[q].seen
    <2>1. warned' \subseteq warned
      BY <1>1
    <2> QED
      BY <1>1, <1>2, <1>3, <2>1, HoursMove
  <1>5. Replacements'
    BY <1>4 DEF HoursIInv, Replacements, Replacing, H!Valid
  <1> QED
    BY <1>4, <1>5 DEF HoursIInv

LEMMA UpdateWeeklyStep ==
  ASSUME HoursIInv, NEW r \in HoursRequests, NEW t \in HoursTechnicians, NEW ps \in PeriodSets,
         H!UpdateWeekly(r, t, ps)
  PROVE  HoursIInv'
  <1>1. /\ hoursReq[r].stage = "idle" /\ H!Valid(ps) /\ H!ThenWarn(r, {t})
        /\ schedule' = [schedule EXCEPT ![t].usesGlobal = FALSE]
        /\ weekly' = [weekly EXCEPT ![t] = ps]
        /\ UNCHANGED <<global, override, hoursAppt, hoursRaced, crossed>>
    BY DEF H!UpdateWeekly
  <1>2. H!Apart(ps) /\ ps \in SUBSET H!Periods
    BY <1>1, SentPeriods, ValidApart
  <1>3. TablesTyped'
    BY <1>1, <1>2 DEF HoursIInv, TablesTyped, H!Periods
  <1>4. \A u \in HoursTechnicians \ {t} :
            schedule'[u] = schedule[u] /\ weekly'[u] = weekly[u] /\ override'[u] = override[u]
    BY <1>1 DEF HoursIInv, TablesTyped
  <1>5. weekly'[t] = ps /\ \A u \in HoursTechnicians \ {t} : weekly'[u] = weekly[u]
    BY <1>1 DEF HoursIInv, TablesTyped
  <1>6. H!PeriodsApart'
    BY <1>1, <1>2, <1>5 DEF HoursIInv, H!PeriodsApart, H!Apart
  <1> QED
    BY <1>1, <1>3, <1>4, <1>6, HoursChange

LEMMA UseGlobalScheduleStep ==
  ASSUME HoursIInv, NEW r \in HoursRequests, NEW t \in HoursTechnicians, H!UseGlobalSchedule(r, t)
  PROVE  HoursIInv'
  <1>1. /\ hoursReq[r].stage = "idle" /\ H!ThenWarn(r, {t})
        /\ schedule' = [schedule EXCEPT ![t].usesGlobal = TRUE]
        /\ UNCHANGED <<global, weekly, override, hoursAppt, hoursRaced, crossed>>
    BY DEF H!UseGlobalSchedule
  <1>2. TablesTyped' /\ H!PeriodsApart'
    BY <1>1 DEF HoursIInv, TablesTyped, H!Periods, H!PeriodsApart, H!Apart
  <1>3. \A u \in HoursTechnicians \ {t} :
            schedule'[u] = schedule[u] /\ weekly'[u] = weekly[u] /\ override'[u] = override[u]
    BY <1>1 DEF HoursIInv, TablesTyped
  <1> QED
    BY <1>1, <1>2, <1>3, HoursChange

\* A day's own hours are set or removed.
LEMMA OverrideStep ==
  ASSUME HoursIInv, NEW r \in HoursRequests, NEW t \in HoursTechnicians,
         NEW day \in [present : BOOLEAN, closed : BOOLEAN, periods : SUBSET H!Periods],
         H!Apart(day.periods), hoursReq[r].stage = "idle", H!ThenWarn(r, {t}),
         override' = [override EXCEPT ![t] = day],
         UNCHANGED <<global, schedule, weekly, hoursAppt, hoursRaced, crossed>>
  PROVE  HoursIInv'
  <1>1. TablesTyped'
    BY DEF HoursIInv, TablesTyped, H!Periods
  <1>2. override'[t] = day /\ \A u \in HoursTechnicians \ {t} : override'[u] = override[u]
    BY DEF HoursIInv, TablesTyped
  <1>3. H!PeriodsApart'
    BY <1>2 DEF HoursIInv, H!PeriodsApart, H!Apart
  <1> QED
    BY <1>1, <1>2, <1>3, HoursChange

LEMMA SetOverrideStep ==
  ASSUME HoursIInv, NEW r \in HoursRequests, NEW t \in HoursTechnicians, NEW closed \in BOOLEAN,
         NEW ps \in PeriodSets \union {{}}, H!SetOverride(r, t, closed, ps)
  PROVE  HoursIInv'
  <1> DEFINE day == [present |-> TRUE, closed |-> closed, periods |-> ps]
  <1>1. ps \in SUBSET H!Periods /\ H!Valid(ps)
    BY SentPeriods DEF H!SetOverride
  <1>2. H!Apart(ps)
    BY <1>1, ValidApart
  <1>3. day \in [present : BOOLEAN, closed : BOOLEAN, periods : SUBSET H!Periods]
        /\ H!Apart(day.periods)
    BY <1>1, <1>2
  <1>4. /\ hoursReq[r].stage = "idle" /\ H!ThenWarn(r, {t}) /\ override' = [override EXCEPT ![t] = day]
        /\ UNCHANGED <<global, schedule, weekly, hoursAppt, hoursRaced, crossed>>
    BY DEF H!SetOverride
  <1> HIDE DEF day
  <1> QED
    BY <1>3, <1>4, OverrideStep

LEMMA RemoveOverrideStep ==
  ASSUME HoursIInv, NEW r \in HoursRequests, NEW t \in HoursTechnicians, H!RemoveOverride(r, t)
  PROVE  HoursIInv'
  <1>1. H!NoOverride \in [present : BOOLEAN, closed : BOOLEAN, periods : SUBSET H!Periods]
        /\ H!Apart(H!NoOverride.periods)
    BY DEF H!NoOverride, H!Apart
  <1>2. /\ hoursReq[r].stage = "idle" /\ H!ThenWarn(r, {t})
        /\ override' = [override EXCEPT ![t] = H!NoOverride]
        /\ UNCHANGED <<global, schedule, weekly, hoursAppt, hoursRaced, crossed>>
    BY DEF H!RemoveOverride
  <1> QED
    BY <1>1, <1>2, OverrideStep

-----------------------------------------------------------------------------

LEMMA SetAcceptingBookingsStep ==
  ASSUME HoursIInv, NEW t \in HoursTechnicians, NEW accepting \in BOOLEAN,
         H!SetAcceptingBookings(t, accepting)
  PROVE  HoursIInv'
  <1>1. /\ schedule' = [schedule EXCEPT ![t].accepting = accepting]
        /\ UNCHANGED <<global, weekly, override, hoursAppt, hoursReq, warned, hoursRaced, crossed>>
    BY DEF H!SetAcceptingBookings, H!histories
  <1>2. TablesTyped' /\ PlacesTyped' /\ RequestsTyped' /\ crossed' \in BOOLEAN
    BY <1>1, SamePlaces DEF HoursIInv, TablesTyped, PlacesTyped, RequestsTyped, H!Periods
  <1>3. \A u \in HoursTechnicians : schedule'[u].usesGlobal = schedule[u].usesGlobal
    BY <1>1 DEF HoursIInv, TablesTyped
  <1>4. \A u \in HoursTechnicians : H!PeriodsFor(u)' = H!PeriodsFor(u)
    BY <1>1, <1>3 DEF H!PeriodsFor
  <1>5. \A u \in HoursTechnicians : \A s, e :
           H!IsWithinAvailability(u, s, e)' <=> H!IsWithinAvailability(u, s, e)
    BY <1>4 DEF H!IsWithinAvailability
  <1>6. \A r \in HoursRequests : CheckStands(hoursReq[r])'
    BY <1>1, <1>5 DEF HoursIInv, CheckStands
  <1>7. Covered'
    <2>1. H!Blocking' = H!Blocking /\ \A a \in H!Blocking : H!PlaceOf(a)' = H!PlaceOf(a)
      BY <1>1, SamePlaces DEF H!Blocking
    <2>2. SUFFICES ASSUME NEW a \in H!Blocking, H!Outside(H!PlaceOf(a))'
                   PROVE  \/ H!PlaceOf(a) \in warned' \union hoursRaced'
                          \/ \E q \in HoursRequests : WillWarn(hoursReq[q], H!PlaceOf(a))'
      BY <2>1 DEF Covered, H!PlaceOf
    <2>3. H!PlaceOf(a) \in H!Place /\ H!PlaceOf(a)' = H!PlaceOf(a)
      BY <2>1, PlaceTyped DEF HoursIInv
    <2>4. ASSUME NEW w \in H!Place, H!Outside(w)' PROVE H!Outside(w)
      BY <1>5, <2>4 DEF H!Outside, H!Place
    <2>5. ASSUME NEW w \in H!Place, NEW q \in HoursRequests, WillWarn(hoursReq[q], w)
          PROVE  WillWarn(hoursReq[q], w)'
      BY <1>1, <1>3, <2>5 DEF WillWarn, H!Place
    <2> QED
      BY <1>1, <2>2, <2>3, <2>4, <2>5 DEF HoursIInv, Covered
  <1>8. H!PeriodsApart' /\ Replacements'
    BY <1>1 DEF HoursIInv, H!PeriodsApart, Replacements, OneReplaces, Replacing
  <1> QED
    BY <1>2, <1>6, <1>7, <1>8 DEF HoursIInv

\* A change of the global hours that was alone leaves only its own periods.
LEMMA GlobalCommitStep ==
  ASSUME HoursIInv, NEW r \in HoursRequests, H!GlobalCommit(r) PROVE HoursIInv'
  <1> DEFINE p == [H!Idle EXCEPT !.stage = "committed"]
             x == hoursReq[r]
  <1>1. /\ x.stage = "deleted"
        /\ global' = (global \ x.seen) \union ({r} \X x.sent)
        /\ hoursReq' = [H!Staled({r}) EXCEPT ![r] = p]
        /\ warned' = {w \in warned : ~schedule[w.tech].usesGlobal}
        /\ UNCHANGED <<schedule, weekly, override, hoursAppt, hoursRaced, crossed>>
    BY DEF H!GlobalCommit
  <1>2. p \in HourRequest /\ p.stage = "committed"
    BY HoursIdle DEF HourRequest, H!Stages
  <1>3. x \in HourRequest /\ x.sent \in SUBSET H!Periods
    BY DEF HoursIInv, RequestsTyped, HourRequest
  <1> HIDE DEF p
  <1>4. ASSUME NEW w \in H!Place
        PROVE  \/ WillWarn(p, w)'
               \/ /\ H!Outside(w)' => H!Outside(w)
                  /\ w \in warned => w \in warned'
                  /\ schedule'[w.tech].usesGlobal = schedule[w.tech].usesGlobal
    <2>1. CASE schedule[w.tech].usesGlobal
      BY <1>1, <1>2, <2>1 DEF WillWarn
    <2>2. CASE ~schedule[w.tech].usesGlobal
      BY <1>1, <2>2 DEF H!Outside, H!IsWithinAvailability, H!PeriodsFor
    <2> QED
      BY <2>1, <2>2
  <1>5. /\ PlacesTyped' /\ RequestsTyped' /\ crossed' \in BOOLEAN
        /\ \A q \in HoursRequests : CheckStands(hoursReq[q])'
        /\ Covered'
        /\ OneReplaces'
        /\ \A q \in HoursRequests : hoursReq'[q].stage = "deleted" =>
              /\ q # r /\ hoursReq[q].stage = "deleted"
              /\ hoursReq'[q].sent = hoursReq[q].sent /\ hoursReq'[q].seen = hoursReq[q].seen
    <2>1. warned' \subseteq warned
      BY <1>1
    <2> QED
      BY <1>1, <1>2, <1>4, <2>1, HoursMove
  <1>6. TablesTyped'
    BY <1>1, <1>3 DEF HoursIInv, TablesTyped, H!Periods
  <1>7. Replacements'
    <2> SUFFICES ASSUME NEW q \in HoursRequests PROVE Replacing(hoursReq[q])'
      BY <1>5 DEF Replacements
    <2> SUFFICES ASSUME hoursReq'[q].stage = "deleted" PROVE Replacing(hoursReq[q])'
      BY DEF Replacing
    <2>1. /\ q # r /\ hoursReq[q].stage = "deleted" /\ hoursReq'[q].sent = hoursReq[q].sent
          /\ crossed' = crossed
      BY <1>1, <1>5
    <2>2. crossed
      BY <1>1, <2>1 DEF HoursIInv, Replacements, OneReplaces
    <2>3. H!Valid(hoursReq[q].sent)
      BY <2>1 DEF HoursIInv, Replacements, Replacing
    <2> QED
      BY <2>1, <2>2, <2>3 DEF Replacing, H!Valid
  <1>8. H!PeriodsApart'
    <2>1. ASSUME ~crossed' PROVE H!Apart({row[2] : row \in global'})
      <3>1. x.seen = global /\ H!Valid(x.sent)
        BY <1>1, <2>1 DEF HoursIInv, Replacements, Replacing
      <3>2. \A row \in global' : row[2] \in x.sent
        BY <1>1, <3>1
      <3>3. H!Apart(x.sent)
        BY <1>3, <3>1, ValidApart
      <3> QED
        BY <3>2, <3>3 DEF H!Apart
    <2>2. \A t \in HoursTechnicians : H!Apart(weekly'[t]) /\ H!Apart(override'[t].periods)
      BY <1>1 DEF HoursIInv, H!PeriodsApart
    <2> QED
      BY <2>1, <2>2 DEF H!PeriodsApart, H!Apart
  <1> QED
    BY <1>5, <1>6, <1>7, <1>8 DEF HoursIInv

\* The appointment a takes or leaves its place, and nobody's warnings but its own move.
LEMMA OnePlaceMoves ==
  ASSUME HoursIInv, NEW a \in HoursAppointments, NEW y \in H!Appt,
         hoursAppt' = [hoursAppt EXCEPT ![a] = y],
         UNCHANGED <<global, schedule, weekly, override, crossed>>,
         warned' = {w \in warned : w.appt # a},
         {w \in hoursRaced : w.appt # a} \subseteq hoursRaced', hoursRaced' \subseteq H!Place,
         y.status = "BLOCKING" =>
            /\ y.tech \in HoursTechnicians /\ y.start \in HoursStarts
            /\ \/ H!IsWithinAvailability(y.tech, y.start, y.start + HoursDuration)
               \/ [appt |-> a, tech |-> y.tech, start |-> y.start, end |-> y.start + HoursDuration] \in hoursRaced',
         RequestsTyped',
         \A q \in HoursRequests : \/ hoursReq'[q] = hoursReq[q]
                                  \/ hoursReq[q].stage = "checked" /\ hoursReq'[q].stage = "idle"
  PROVE  HoursIInv'
  <1>1. hoursAppt'[a] = y /\ \A b \in HoursAppointments \ {a} : hoursAppt'[b] = hoursAppt[b]
    BY DEF HoursIInv, PlacesTyped
  <1>2. TablesTyped' /\ crossed' \in BOOLEAN /\ H!PeriodsApart'
    BY DEF HoursIInv, TablesTyped, H!PeriodsApart
  <1>3. PlacesTyped'
    BY <1>1 DEF HoursIInv, PlacesTyped, H!Blocking
  <1>4. \A q \in HoursRequests : CheckStands(hoursReq[q])'
    BY SameTables DEF HoursIInv, CheckStands
  <1>5. Covered'
    <2> SUFFICES ASSUME NEW b \in H!Blocking', H!Outside(H!PlaceOf(b))'
                 PROVE  \/ H!PlaceOf(b)' \in warned' \union hoursRaced'
                        \/ \E q \in HoursRequests : WillWarn(hoursReq[q], H!PlaceOf(b))'
      BY DEF Covered
    <2>1. CASE b = a
      <3>1. H!PlaceOf(b)' = [appt |-> a, tech |-> y.tech, start |-> y.start, end |-> y.start + HoursDuration]
        BY <1>1, <2>1 DEF H!PlaceOf
      <3>2. y.status = "BLOCKING"
        BY <1>1, <2>1 DEF H!Blocking
      <3>3. ~H!IsWithinAvailability(y.tech, y.start, y.start + HoursDuration)
        <4>1. ~H!IsWithinAvailability(y.tech, y.start, y.start + HoursDuration)'
          BY <3>1 DEF H!Outside, H!IsWithinAvailability, H!PeriodsFor
        <4> QED
          BY <4>1, SameTables
      <3> QED
        BY <3>1, <3>2, <3>3
    <2>2. CASE b # a
      <3>1. b \in H!Blocking /\ H!PlaceOf(b)' = H!PlaceOf(b) /\ H!PlaceOf(b).appt = b
        BY <1>1, <2>2 DEF H!Blocking, H!PlaceOf
      <3>2. H!Outside(H!PlaceOf(b))
        BY <3>1, SameTables DEF H!Outside, H!IsWithinAvailability, H!PeriodsFor
      <3>3. CASE H!PlaceOf(b) \in warned \union hoursRaced
        BY <2>2, <3>1, <3>3
      <3>4. ASSUME NEW q \in HoursRequests, WillWarn(hoursReq[q], H!PlaceOf(b))
            PROVE  WillWarn(hoursReq[q], H!PlaceOf(b))'
        <4>1. hoursReq'[q] = hoursReq[q]
          BY <3>4 DEF WillWarn
        <4> QED
          BY <3>1, <3>4, <4>1 DEF WillWarn
      <3> QED
        BY <3>1, <3>2, <3>3, <3>4 DEF HoursIInv, Covered
    <2> QED
      BY <2>1, <2>2
  <1>6. Replacements'
    BY DEF HoursIInv, Replacements, OneReplaces, Replacing, H!Valid
  <1> QED
    BY <1>2, <1>3, <1>4, <1>5, <1>6 DEF HoursIInv

LEMMA LeavePlaceStep ==
  ASSUME HoursIInv, NEW a \in HoursAppointments, H!LeavePlace(a) PROVE HoursIInv'
  <1> DEFINE y == [H!NoAppt EXCEPT !.status = "FREED"]
  <1>1. /\ hoursAppt' = [hoursAppt EXCEPT ![a] = y]
        /\ warned' = {w \in warned : w.appt # a} /\ hoursRaced' = {w \in hoursRaced : w.appt # a}
        /\ UNCHANGED <<global, schedule, weekly, override, hoursReq, crossed>>
    BY DEF H!LeavePlace, H!tables
  <1>2. y \in H!Appt /\ y.status = "FREED"
    BY DEF H!NoAppt, H!Appt
  <1>3. RequestsTyped' /\ hoursRaced' \subseteq H!Place
    BY <1>1 DEF HoursIInv, RequestsTyped, PlacesTyped
  <1> HIDE DEF y
  <1> QED
    BY <1>1, <1>2, <1>3, OnePlaceMoves

LEMMA TakePlaceStep ==
  ASSUME HoursIInv, NEW r \in HoursRequests, H!TakePlace(r) PROVE HoursIInv'
  <1> DEFINE p == hoursReq[r]
             y == [status |-> "BLOCKING", tech |-> p.tech, start |-> p.start]
             taken == [appt |-> p.appt, tech |-> p.tech, start |-> p.start, end |-> p.start + HoursDuration]
  <1>1. /\ p.stage = "checked" /\ hoursReq' = [hoursReq EXCEPT ![r] = H!Idle]
        /\ UNCHANGED <<global, schedule, weekly, override, crossed>>
        /\ \/ /\ hoursAppt' = [hoursAppt EXCEPT ![p.appt] = y]
              /\ warned' = {w \in warned : w.appt # p.appt}
              /\ hoursRaced' = {w \in hoursRaced : w.appt # p.appt} \union {w \in {taken} : p.stale}
           \/ UNCHANGED <<hoursAppt, warned, hoursRaced>>
    BY DEF H!TakePlace, H!Done, H!Become, H!tables
  <1>2. /\ p.tech \in HoursTechnicians /\ p.appt \in HoursAppointments /\ p.start \in HoursStarts
        /\ p.stale \/ H!IsWithinAvailability(p.tech, p.start, p.start + HoursDuration)
    BY <1>1 DEF HoursIInv, CheckStands
  <1>3. /\ RequestsTyped' /\ hoursReq'[r] = H!Idle
        /\ \A q \in HoursRequests \ {r} : hoursReq'[q] = hoursReq[q]
    BY <1>1, HoursIdle DEF HoursIInv, RequestsTyped
  <1>4. CASE /\ hoursAppt' = [hoursAppt EXCEPT ![p.appt] = y]
             /\ warned' = {w \in warned : w.appt # p.appt}
             /\ hoursRaced' = {w \in hoursRaced : w.appt # p.appt} \union {w \in {taken} : p.stale}
    <2>1. y \in H!Appt /\ y.status = "BLOCKING" /\ y.tech = p.tech /\ y.start = p.start
      BY <1>2 DEF H!Appt
    <2>2. taken \in H!Place
      BY <1>2, MinuteEnds DEF H!Place
    <2>3. hoursRaced' \subseteq H!Place
      BY <1>4, <2>2 DEF HoursIInv, PlacesTyped
    <2>4. taken \in hoursRaced' \/ H!IsWithinAvailability(y.tech, y.start, y.start + HoursDuration)
      BY <1>2, <1>4, <2>1
    <2>5. \A q \in HoursRequests : \/ hoursReq'[q] = hoursReq[q]
                                   \/ hoursReq[q].stage = "checked" /\ hoursReq'[q].stage = "idle"
      BY <1>1, <1>3, HoursIdle
    <2>6. {w \in hoursRaced : w.appt # p.appt} \subseteq hoursRaced'
      BY <1>4
    <2>7. taken = [appt |-> p.appt, tech |-> y.tech, start |-> y.start, end |-> y.start + HoursDuration]
      BY <2>1
    <2> HIDE DEF y, taken
    <2> QED
      BY <1>1, <1>2, <1>3, <1>4, <2>1, <2>3, <2>4, <2>5, <2>6, <2>7, OnePlaceMoves
  <1>5. CASE UNCHANGED <<hoursAppt, warned, hoursRaced>>
    <2>1. /\ TablesTyped' /\ PlacesTyped' /\ RequestsTyped'
          /\ hoursReq'[r] = H!Idle /\ \A q \in HoursRequests \ {r} : hoursReq'[q] = hoursReq[q]
          /\ \A q \in HoursRequests : CheckStands(hoursReq[q])'
          /\ Covered'
      <3>1. warned \subseteq H!Place /\ hoursRaced \subseteq H!Place /\ CheckStands(H!Idle)
            /\ \A w : ~WillWarn(hoursReq[r], w)
        BY <1>1, HoursIdle DEF HoursIInv, PlacesTyped, CheckStands, WillWarn
      <3> QED
        BY <1>1, <1>5, <3>1, HoursIdle, OneRequestMoves
    <2>2. Replacements' /\ H!PeriodsApart' /\ crossed' \in BOOLEAN
      BY <1>1, <1>3, HoursIdle, QuietMove
    <2> QED
      BY <2>1, <2>2 DEF HoursIInv
  <1> QED
    BY <1>1, <1>4, <1>5

LEMMA HoursNextStep ==
  ASSUME HoursIInv, [H!Next]_hoursVars PROVE HoursIInv'
  <1>1. ASSUME NEW r \in HoursRequests, H!Changes(r) PROVE HoursIInv'
    <2>1. CASE \E ps \in PeriodSets : H!GlobalDelete(r, ps)
      BY <2>1, GlobalDeleteStep
    <2>2. CASE H!GlobalCommit(r)
      BY <2>2, GlobalCommitStep
    <2>3. CASE H!GlobalInherited(r)
      BY <2>3, GlobalInheritedStep
    <2>4. ASSUME NEW t \in HoursTechnicians, NEW ps \in PeriodSets, H!UpdateWeekly(r, t, ps)
          PROVE  HoursIInv'
      BY <2>4, UpdateWeeklyStep
    <2>5. ASSUME NEW t \in HoursTechnicians, NEW ps \in PeriodSets, H!SetOverride(r, t, FALSE, ps)
          PROVE  HoursIInv'
      BY <2>5, SetOverrideStep
    <2>6. ASSUME NEW t \in HoursTechnicians, H!SetOverride(r, t, TRUE, {}) PROVE HoursIInv'
      BY <2>6, SetOverrideStep
    <2>7. ASSUME NEW t \in HoursTechnicians, H!UseGlobalSchedule(r, t) PROVE HoursIInv'
      BY <2>7, UseGlobalScheduleStep
    <2>8. ASSUME NEW t \in HoursTechnicians, H!RemoveOverride(r, t) PROVE HoursIInv'
      BY <2>8, RemoveOverrideStep
    <2> QED
      BY <1>1, <2>1, <2>2, <2>3, <2>4, <2>5, <2>6, <2>7, <2>8 DEF H!Changes
  <1>2. ASSUME NEW r \in HoursRequests, H!Warnings(r) PROVE HoursIInv'
    BY <1>2, ListAppointmentsStep, CompareStep, WarnStep DEF H!Warnings
  <1>3. ASSUME NEW r \in HoursRequests, H!Bookings(r) PROVE HoursIInv'
    <2>1. ASSUME NEW t \in HoursTechnicians, NEW a \in HoursAppointments, NEW s \in HoursStarts,
                 H!CheckHold(r, t, a, s) \/ H!CheckManual(r, t, a, s) \/ H!CheckReschedule(r, t, a, s)
          PROVE  HoursIInv'
      BY <2>1, CheckAvailabilityStep DEF H!CheckHold, H!CheckManual, H!CheckReschedule
    <2>2. CASE H!TakePlace(r)
      BY <2>2, TakePlaceStep
    <2> QED
      BY <1>3, <2>1, <2>2 DEF H!Bookings
  <1>4. ASSUME NEW r \in HoursRequests, H!Die(r) PROVE HoursIInv'
    BY <1>4, HoursDieStep
  <1>5. ASSUME NEW t \in HoursTechnicians, NEW accepting \in BOOLEAN, H!SetAcceptingBookings(t, accepting)
        PROVE  HoursIInv'
    BY <1>5, SetAcceptingBookingsStep
  <1>6. ASSUME NEW a \in HoursAppointments, H!LeavePlace(a) PROVE HoursIInv'
    BY <1>6, LeavePlaceStep
  <1>7. CASE UNCHANGED hoursVars
    <2>1. UNCHANGED <<global, schedule, weekly, override, hoursAppt, hoursReq, warned, hoursRaced, crossed>>
      BY <1>7 DEF hoursVars
    <2> QED
      BY <2>1, SamePlaces, SameTables
         DEF HoursIInv, TablesTyped, PlacesTyped, RequestsTyped, CheckStands, Covered, WillWarn,
             Replacements, OneReplaces, Replacing, H!PeriodsApart, H!Blocking, H!PlaceOf
  <1> QED
    BY <1>1, <1>2, <1>3, <1>4, <1>5, <1>6, <1>7 DEF H!Next

-----------------------------------------------------------------------------

\* Division, when the divisor is not known.
LEMMA Quotient ==
  ASSUME NEW n \in Nat, NEW d \in Nat, d > 0
  PROVE  n \div d \in Nat /\ d * (n \div d) <= n /\ n < d * (n \div d) + d
  OBVIOUS

LEMMA Remainder ==
  ASSUME NEW a \in Nat, NEW b \in Nat, NEW d \in Nat, d > 0, d * b <= a, a < d * b + d
  PROVE  a \div d = b /\ a % d = a - d * b
  OBVIOUS

LEMMA Multiples ==
  ASSUME NEW a \in Nat, NEW b \in Nat, NEW d \in Nat, d > 0
  PROVE  /\ a * d \in Nat /\ (a * d) % d = 0 /\ a <= a * d /\ d * a = a * d
         /\ (a + b) * d = a * d + b * d
         /\ a < b => a * d + d <= b * d
  OBVIOUS

\* The first slot of a period is the first minute of the grid that is not before it.
LEMMA FirstSlot ==
  ASSUME NEW m \in Nat, NEW s \in Nat
  PROVE  /\ H!CeilTo(m) \in Nat /\ m <= H!CeilTo(m)
         /\ \A k \in Nat : /\ H!CeilTo(m) + k * Interval \in Nat
                           /\ (H!CeilTo(m) + k * Interval) % Interval = 0
         /\ s % Interval = 0 /\ m <= s =>
              H!CeilTo(m) <= s /\ \E k \in 0..s : s = H!CeilTo(m) + k * Interval
  <1> DEFINE q == (m + Interval - 1) \div Interval
             j == s \div Interval
  <1>1. Interval \in Nat /\ Interval > 0 /\ m + Interval - 1 \in Nat
    <2>1. Interval \in Nat /\ Interval > 0
      BY HoursConstants
    <2> QED
      BY <2>1
  <1>2. q \in Nat /\ Interval * q <= m + Interval - 1 /\ m + Interval - 1 < Interval * q + Interval
    BY <1>1, Quotient
  <1>3. j \in Nat /\ Interval * j <= s /\ s < Interval * j + Interval /\ s % Interval = s - Interval * j
    BY <1>1, Quotient, Remainder
  <1>4. H!CeilTo(m) = q * Interval
    BY DEF H!CeilTo
  <1> HIDE DEF q, j
  <1>5. H!CeilTo(m) \in Nat /\ Interval * q = H!CeilTo(m) /\ m <= H!CeilTo(m)
    <2>1. q * Interval \in Nat /\ Interval * q = q * Interval
      BY <1>1, <1>2, Multiples
    <2> QED
      BY <1>1, <1>2, <1>4, <2>1
  <1>6. ASSUME NEW k \in Nat
        PROVE  /\ H!CeilTo(m) + k * Interval \in Nat
               /\ (H!CeilTo(m) + k * Interval) % Interval = 0
    <2>1. q + k \in Nat /\ (q + k) * Interval = H!CeilTo(m) + k * Interval
      BY <1>1, <1>2, <1>4, Multiples
    <2>2. (q + k) * Interval \in Nat /\ ((q + k) * Interval) % Interval = 0
      BY <1>1, <2>1, Multiples
    <2> QED
      BY <2>1, <2>2
  <1>7. ASSUME s % Interval = 0, m <= s
        PROVE  H!CeilTo(m) <= s /\ \E k \in 0..s : s = H!CeilTo(m) + k * Interval
    <2>1. s = j * Interval /\ j * Interval \in Nat
      <3>1. Interval * j = j * Interval /\ j * Interval \in Nat
        BY <1>1, <1>3, Multiples
      <3> QED
        BY <1>1, <1>3, <1>7, <3>1
    <2>2. q <= j
      <3>1. j < q => j * Interval + Interval <= q * Interval
        BY <1>1, <1>2, <1>3, Multiples
      <3> QED
        BY <1>1, <1>2, <1>3, <1>4, <1>5, <1>7, <2>1, <3>1
    <2>3. j - q \in Nat /\ q + (j - q) = j
      BY <1>2, <1>3, <2>2
    <2>4. /\ (q + (j - q)) * Interval = q * Interval + (j - q) * Interval
          /\ j - q <= (j - q) * Interval /\ (j - q) * Interval \in Nat
      BY <1>1, <1>2, <2>3, Multiples
    <2>5. s = H!CeilTo(m) + (j - q) * Interval
      BY <1>4, <2>1, <2>3, <2>4
    <2>6. j - q <= s /\ H!CeilTo(m) <= s
      BY <1>5, <2>3, <2>4, <2>5
    <2> QED
      BY <2>3, <2>5, <2>6
  <1> QED
    BY <1>5, <1>6, <1>7

LEMMA SlotsAreBookable ==
  ASSUME TablesTyped PROVE H!SlotsBookable
  <1> SUFFICES ASSUME NEW t \in HoursTechnicians
               PROVE  H!Slots(t) = {s \in HoursStarts : /\ H!AssertPublicStart(s) /\ schedule[t].accepting
                                                       /\ H!IsWithinAvailability(t, s, s + HoursDuration)
                                                       /\ H!Free(t, s, HoursAppointments)}
    BY DEF H!SlotsBookable
  <1>1. \A p \in H!PeriodsFor(t) : p[1] \in Nat /\ p[2] \in Nat
    <2>1. H!PeriodsFor(t) \subseteq H!Periods
      BY DEF TablesTyped, H!PeriodsFor
    <2> QED
      BY <2>1, PeriodTimes
  <1>2. Earliest \in Nat /\ Latest \in Nat /\ HoursDuration \in Nat
    BY HoursConstants
  <1>3. ASSUME NEW s \in H!Slots(t)
        PROVE  /\ s \in HoursStarts /\ H!AssertPublicStart(s) /\ schedule[t].accepting
               /\ H!IsWithinAvailability(t, s, s + HoursDuration) /\ H!Free(t, s, HoursAppointments)
    <2>1. /\ \E p \in H!PeriodsFor(t) : \E k \in 0..p[2] : s = H!CeilTo(p[1]) + k * Interval
          /\ \E p \in H!PeriodsFor(t) : s >= H!CeilTo(p[1]) /\ s + HoursDuration <= p[2]
          /\ s >= Earliest /\ s <= Latest /\ schedule[t].accepting /\ H!Free(t, s, HoursAppointments)
      BY DEF H!Slots
    <2>2. PICK p \in H!PeriodsFor(t) : \E k \in 0..p[2] : s = H!CeilTo(p[1]) + k * Interval
      BY <2>1
    <2>3. PICK k \in 0..p[2] : s = H!CeilTo(p[1]) + k * Interval
      BY <2>2
    <2>4. k \in Nat /\ p[1] \in Nat
      BY <1>1
    <2>5. s \in Nat /\ s % Interval = 0
      BY <2>3, <2>4, FirstSlot
    <2>6. s \in Earliest..Latest
      BY <1>2, <2>1, <2>5
    <2>7. s \in HoursStarts /\ H!AssertPublicStart(s)
      <3>1. s \in HoursStarts
        BY <2>5, <2>6, SlotMinutes
      <3> QED
        BY <2>1, <2>5, <3>1 DEF H!AssertPublicStart
    <2>8. PICK q \in H!PeriodsFor(t) : s >= H!CeilTo(q[1]) /\ s + HoursDuration <= q[2]
      BY <2>1
    <2>9. q[1] \in Nat /\ q[2] \in Nat /\ H!CeilTo(q[1]) \in Nat /\ q[1] <= H!CeilTo(q[1])
      BY <1>1, FirstSlot
    <2>10. q[1] <= s /\ q[2] >= s + HoursDuration
      BY <1>2, <2>5, <2>8, <2>9
    <2> QED
      BY <2>1, <2>7, <2>10 DEF H!IsWithinAvailability
  <1>4. ASSUME NEW s \in HoursStarts, H!AssertPublicStart(s), schedule[t].accepting,
               H!IsWithinAvailability(t, s, s + HoursDuration), H!Free(t, s, HoursAppointments)
        PROVE  s \in H!Slots(t)
    <2>1. s \in Nat
      BY MinuteEnds
    <2>2. s % Interval = 0 /\ s >= Earliest /\ s <= Latest
      BY <1>4 DEF H!AssertPublicStart
    <2>3. PICK p \in H!PeriodsFor(t) : p[1] <= s /\ p[2] >= s + HoursDuration
      BY <1>4 DEF H!IsWithinAvailability
    <2>4. p[1] \in Nat /\ p[2] \in Nat
      BY <1>1
    <2>5. H!CeilTo(p[1]) \in Nat /\ H!CeilTo(p[1]) <= s
      BY <2>1, <2>2, <2>3, <2>4, FirstSlot
    <2>6. PICK k \in 0..s : s = H!CeilTo(p[1]) + k * Interval
      BY <2>1, <2>2, <2>3, <2>4, FirstSlot
    <2>7. k \in 0..p[2] /\ s >= H!CeilTo(p[1]) /\ s + HoursDuration <= p[2]
      BY <1>2, <2>1, <2>3, <2>4, <2>5
    <2> QED
      BY <1>4, <2>2, <2>6, <2>7 DEF H!Slots
  <1> QED
    BY <1>3, <1>4

LEMMA HoursSafe ==
  HoursIInv => H!TypeOK /\ H!OutsideIsWarned /\ H!PeriodsApart /\ H!SlotsBookable
  <1> SUFFICES ASSUME HoursIInv
               PROVE  H!TypeOK /\ H!OutsideIsWarned /\ H!PeriodsApart /\ H!SlotsBookable
    OBVIOUS
  <1>1. H!TypeOK
    <2>1. ASSUME NEW r \in HoursRequests
          PROVE  hoursReq[r].stage \in H!Stages /\ DOMAIN hoursReq[r] = DOMAIN H!Idle
      BY DEF HoursIInv, RequestsTyped, HourRequest, H!Idle
    <2> QED
      BY <2>1 DEF HoursIInv, TablesTyped, PlacesTyped, H!TypeOK
  <1>2. H!OutsideIsWarned
    <2> SUFFICES ASSUME \A r \in HoursRequests : hoursReq[r].stage = "idle", NEW a \in H!Blocking
                 PROVE  \/ H!IsWithinAvailability(hoursAppt[a].tech, hoursAppt[a].start,
                                                 hoursAppt[a].start + HoursDuration)
                        \/ H!PlaceOf(a) \in warned \union hoursRaced
      BY DEF H!OutsideIsWarned
    <2>1. \A w : \A r \in HoursRequests : ~WillWarn(hoursReq[r], w)
      BY DEF WillWarn
    <2> QED
      BY <2>1 DEF HoursIInv, Covered, H!Outside, H!PlaceOf
  <1>3. H!SlotsBookable
    BY SlotsAreBookable DEF HoursIInv
  <1> QED
    BY <1>1, <1>2, <1>3 DEF HoursIInv

-----------------------------------------------------------------------------
(* Reminders.  A run that began after the appointment last changed works   *)
(* on what it is, so that one that goes through before the clock moves     *)
(* has told everybody of it.                                               *)

\* The one has been told in window w of the row's hour, as this role.
Notified(w, row, role) == \E m \in notices : m.window = w /\ m.start = row.start /\ m.role = role

ClientTold(w, row) == row.client # None => Notified(w, row, "client") \/ Admin \in archived

TechnicianTold(w, row) == Notified(w, row, "technician") \/ row.tech \in archived

BothTold(w) == ClientTold(w, reminderAppt) /\ TechnicianTold(w, reminderAppt)

\* What a run read, and whom it has told of it.
Works(x) ==
    x.stage # "idle" =>
       /\ x.now \in 0..clock /\ x.row \in N!Row
       /\ x.now > since => x.row = reminderAppt
       /\ x.stage = "client" => x.row.client = Admin
       /\ x.stage = "technician" => ClientTold(N!WindowOf(x.row.start, x.now), x.row)

RemindersTyped ==
    /\ clock \in 0..MaxTime /\ since \in 0..clock
    /\ reminderAppt \in N!Row
    /\ archived \subseteq ReportAppointments \union {Admin}
    /\ notices \subseteq N!Notice
    /\ \A m \in notices : m.role = "client" => m.user = Admin
    /\ run \in [Techs -> [stage : {"idle", "client", "technician"}, now : 0..MaxTime,
                          row : N!Row \union {None}]]
    /\ done \in BOOLEAN

\* Everybody has been told in a window once its last moment is over, or a run
\* has gone through at that moment.
ToldInTime ==
    reminderAppt.status = "CONFIRMED" =>
       \A w \in N!Windows :
          since < N!LastOf(w) /\ (clock > N!LastOf(w) \/ (clock = N!LastOf(w) /\ done)) => BothTold(w)

RemindersIInv == RemindersTyped /\ (\A j \in Techs : Works(run[j])) /\ ToldInTime

LEMMA ReminderConstants ==
  /\ ReminderStarts \subseteq Nat /\ MaxTime \in Nat
  /\ Short \in Nat /\ Short > 0 /\ Long \in Nat /\ Long > Short
  /\ Admin # None
  BY StudioAssumption

LEMMA RowStarts == ASSUME NEW row \in N!Row PROVE row.start \in Nat
  BY ReminderConstants DEF N!Row

LEMMA ReminderTimes ==
  ASSUME RemindersTyped
  PROVE  /\ clock \in Nat /\ clock <= MaxTime /\ since \in Nat /\ since <= clock
         /\ reminderAppt \in N!Row /\ reminderAppt.start \in Nat
  <1>1. clock \in 0..MaxTime /\ since \in 0..clock /\ reminderAppt \in N!Row
    BY DEF RemindersTyped
  <1> QED
    BY <1>1, RowStarts, ReminderConstants

LEMMA RemindersInit == N!Init => RemindersIInv
  <1> SUFFICES ASSUME N!Init PROVE RemindersIInv
    OBVIOUS
  <1> USE ReminderConstants DEF N!Init
  <1>1. \A j \in Techs : run[j] = N!Idle
    OBVIOUS
  <1>2. N!Idle \in [stage : {"idle", "client", "technician"}, now : 0..MaxTime,
                    row : N!Row \union {None}] /\ N!Idle.stage = "idle"
    BY DEF N!Idle
  <1>3. RemindersTyped
    <2>1. clock \in 0..MaxTime /\ since \in 0..clock
      OBVIOUS
    <2>2. run \in [Techs -> [stage : {"idle", "client", "technician"}, now : 0..MaxTime,
                            row : N!Row \union {None}]]
      BY <1>2
    <2> QED
      BY <2>1, <2>2 DEF RemindersTyped
  <1> QED
    BY <1>1, <1>2, <1>3 DEF RemindersIInv, Works, ToldInTime, N!Row

\* At the last moment of a window the job finds the appointment in it.
LEMMA LastMoment ==
  ASSUME RemindersTyped, NEW w \in N!Windows
  PROVE  /\ N!LastOf(w) \in Int /\ N!LastOf(w) < reminderAppt.start
         /\ reminderAppt.start <= N!LastOf(w) + Long
         /\ N!WindowOf(reminderAppt.start, N!LastOf(w)) = w
  <1>1. reminderAppt.start \in Nat
    BY ReminderConstants DEF RemindersTyped, N!Row
  <1> QED
    BY <1>1, ReminderConstants DEF N!Windows, N!LastOf, N!WindowOf

\* Who has been told of an appointment that stays as it is has been told.
LEMMA StillTold ==
  ASSUME UNCHANGED reminderAppt, notices \subseteq notices', archived \subseteq archived', NEW w
  PROVE  N!LastOf(w)' = N!LastOf(w) /\ (BothTold(w) => BothTold(w)')
  BY DEF N!LastOf, BothTold, ClientTold, TechnicianTold, Notified

\* No moment is the last one of a window but for which somebody new was told.
LEMMA StillInTime ==
  ASSUME RemindersIInv, UNCHANGED <<reminderAppt, since, clock>>, notices \subseteq notices',
         archived \subseteq archived',
         \A w \in N!Windows :
            reminderAppt.status = "CONFIRMED" /\ since < N!LastOf(w) /\ clock = N!LastOf(w) /\ done' =>
               done \/ BothTold(w)'
  PROVE  ToldInTime'
  <1> SUFFICES ASSUME reminderAppt.status = "CONFIRMED", NEW w \in N!Windows, since < N!LastOf(w),
                      clock > N!LastOf(w) \/ (clock = N!LastOf(w) /\ done')
               PROVE  BothTold(w)'
    <2>1. \A w \in N!Windows : N!LastOf(w)' = N!LastOf(w)
      BY StillTold
    <2> QED
      BY <2>1 DEF ToldInTime
  <1>1. CASE clock > N!LastOf(w)
    BY Zenon, <1>1, StillTold DEF RemindersIInv, ToldInTime
  <1>2. CASE clock = N!LastOf(w) /\ done'
    <2>1. CASE done
      BY <1>2, <2>1, StillTold DEF RemindersIInv, ToldInTime
    <2>2. CASE BothTold(w)'
      BY <2>2
    <2> QED
      BY <1>2, <2>1, <2>2
  <1> QED
    BY <1>1, <1>2

LEMMA StartRunStep == ASSUME RemindersIInv, NEW j \in Techs, N!StartRun(j) PROVE RemindersIInv'
  <1>1. UNCHANGED <<clock, reminderAppt, archived, notices, since>> /\ run[j].stage = "idle"
    BY DEF N!StartRun
  <1>2. CASE N!Near(clock)
    <2> DEFINE x == [stage |-> IF reminderAppt.client = None THEN "technician" ELSE "client",
                     now |-> clock, row |-> reminderAppt]
    <2>1. run' = [run EXCEPT ![j] = x] /\ done' = done
      BY <1>2 DEF N!StartRun
    <2>2. run'[j] = x /\ \A i \in Techs \ {j} : run'[i] = run[i]
      BY <2>1 DEF RemindersIInv, RemindersTyped
    <2>3. RemindersTyped'
      BY <1>1, <2>1, ReminderConstants DEF RemindersIInv, RemindersTyped
    <2>4. reminderAppt.client \in {Admin, None}
      BY DEF RemindersIInv, RemindersTyped, N!Row
    <2>5. \A i \in Techs : Works(run[i])'
      BY <1>1, <2>2, <2>4
         DEF RemindersIInv, RemindersTyped, Works, ClientTold, Notified, N!WindowOf
    <2>6. ToldInTime'
      BY <1>1, <2>1, StillInTime
    <2> QED
      BY <2>3, <2>5, <2>6 DEF RemindersIInv
  <1>3. CASE ~N!Near(clock)
    <2>1. done' /\ run' = run
      BY <1>3 DEF N!StartRun
    <2>2. RemindersTyped' /\ \A i \in Techs : Works(run[i])'
      BY <1>1, <2>1 DEF RemindersIInv, RemindersTyped, Works, ClientTold, Notified, N!WindowOf
    <2>3. ASSUME reminderAppt.status = "CONFIRMED", NEW w \in N!Windows PROVE clock # N!LastOf(w)
      BY <1>3, <2>3, LastMoment DEF N!Near, RemindersIInv
    <2>4. ToldInTime'
      BY <1>1, <2>3, StillInTime
    <2> QED
      BY <2>2, <2>4 DEF RemindersIInv
  <1> QED
    BY <1>2, <1>3

\* What notify adds, and that it adds it once.
LEMMA TellsOnce ==
  ASSUME RemindersTyped, NEW row \in N!Row, NEW now, NEW role \in {"client", "technician"},
         NEW user \in ReportAppointments \union {Admin}, role = "client" => user = Admin,
         notices' = N!Told(user, row, now, role)
  PROVE  /\ notices \subseteq notices' /\ notices' \subseteq N!Notice
         /\ \A m \in notices' : m.role = "client" => m.user = Admin
         /\ \/ user \in archived
            \/ \E m \in notices' : /\ m.window = N!WindowOf(row.start, now)
                                   /\ m.start = row.start /\ m.role = role
  <1> DEFINE n == [window |-> N!WindowOf(row.start, now), start |-> row.start,
                   role |-> role, user |-> user]
  <1>1. n \in N!Notice
    BY DEF N!Notice, N!Row, N!WindowOf, N!Windows
  <1>2. notices' = IF user \in archived \/ \E m \in notices : N!SameKey(n, m)
                   THEN notices ELSE notices \union {n}
    BY DEF N!Told
  <1> QED
    BY <1>1, <1>2 DEF RemindersTyped, N!SameKey

LEMMA NotifyClientStep == ASSUME RemindersIInv, NEW j \in Techs, N!NotifyClient(j) PROVE RemindersIInv'
  <1>1. /\ run[j].stage = "client" /\ run' = [run EXCEPT ![j].stage = "technician"]
        /\ notices' = N!Told(run[j].row.client, run[j].row, run[j].now, "client")
        /\ UNCHANGED <<clock, reminderAppt, archived, done, since>>
    BY DEF N!NotifyClient
  <1>2. run[j].row \in N!Row /\ run[j].row.client = Admin
    BY <1>1 DEF RemindersIInv, Works
  <1>3. /\ notices \subseteq notices' /\ notices' \subseteq N!Notice
        /\ \A m \in notices' : m.role = "client" => m.user = Admin
        /\ ClientTold(N!WindowOf(run[j].row.start, run[j].now), run[j].row)'
    BY <1>1, <1>2, TellsOnce DEF RemindersIInv, ClientTold, Notified, N!WindowOf
  <1>4. /\ run'[j].stage = "technician" /\ run'[j].now = run[j].now /\ run'[j].row = run[j].row
        /\ \A i \in Techs \ {j} : run'[i] = run[i]
    BY <1>1 DEF RemindersIInv, RemindersTyped
  <1>5. RemindersTyped'
    BY <1>1, <1>3 DEF RemindersIInv, RemindersTyped
  <1>6. \A i \in Techs : Works(run[i])'
    BY <1>1, <1>3, <1>4 DEF RemindersIInv, Works, ClientTold, Notified, N!WindowOf
  <1>7. ToldInTime'
    BY <1>1, <1>3, StillInTime
  <1> QED
    BY <1>5, <1>6, <1>7 DEF RemindersIInv

LEMMA NotifyTechnicianStep ==
  ASSUME RemindersIInv, NEW j \in Techs, N!NotifyTechnician(j) PROVE RemindersIInv'
  <1>1. /\ run[j].stage = "technician" /\ run' = [run EXCEPT ![j] = N!Idle]
        /\ notices' = N!Told(run[j].row.tech, run[j].row, run[j].now, "technician")
        /\ done' = (done \/ run[j].now = clock)
        /\ UNCHANGED <<clock, reminderAppt, archived, since>>
    BY DEF N!NotifyTechnician
  <1>2. /\ run[j].row \in N!Row /\ run[j].row.tech \in ReportAppointments
        /\ run[j].now > since => run[j].row = reminderAppt
        /\ ClientTold(N!WindowOf(run[j].row.start, run[j].now), run[j].row)
    BY <1>1 DEF RemindersIInv, Works, N!Row
  <1>3. /\ notices \subseteq notices' /\ notices' \subseteq N!Notice
        /\ \A m \in notices' : m.role = "client" => m.user = Admin
        /\ \/ run[j].row.tech \in archived
           \/ \E m \in notices' : /\ m.window = N!WindowOf(run[j].row.start, run[j].now)
                                  /\ m.start = run[j].row.start /\ m.role = "technician"
    <2> DEFINE row == run[j].row
    <2>1. row \in N!Row /\ row.tech \in ReportAppointments \union {Admin}
          /\ notices' = N!Told(row.tech, row, run[j].now, "technician")
      BY <1>1, <1>2
    <2> HIDE DEF row
    <2>2. /\ notices \subseteq notices' /\ notices' \subseteq N!Notice
          /\ \A m \in notices' : m.role = "client" => m.user = Admin
          /\ \/ row.tech \in archived
             \/ \E m \in notices' : /\ m.window = N!WindowOf(row.start, run[j].now)
                                    /\ m.start = row.start /\ m.role = "technician"
      BY <2>1, TellsOnce DEF RemindersIInv
    <2> QED
      BY <2>2 DEF row
  <1>4. /\ run'[j].stage = "idle" /\ \A i \in Techs \ {j} : run'[i] = run[i]
    BY <1>1 DEF RemindersIInv, RemindersTyped, N!Idle
  <1>5. RemindersTyped'
    BY <1>1, <1>3, ReminderConstants DEF RemindersIInv, RemindersTyped, N!Idle
  <1>6. \A i \in Techs : Works(run[i])'
    BY <1>1, <1>3, <1>4 DEF RemindersIInv, Works, ClientTold, Notified, N!WindowOf
  <1>7. ToldInTime'
    <2>1. ASSUME NEW w \in N!Windows, since < N!LastOf(w), clock = N!LastOf(w), run[j].now = clock
          PROVE  BothTold(w)'
      <3>1. run[j].row = reminderAppt /\ N!WindowOf(run[j].row.start, run[j].now) = w
        BY <1>2, <2>1, LastMoment DEF RemindersIInv
      <3>2. ClientTold(w, reminderAppt) /\ TechnicianTold(w, reminderAppt)'
        BY <1>1, <1>2, <1>3, <3>1 DEF TechnicianTold, Notified
      <3> QED
        BY <1>1, <1>3, <3>2 DEF BothTold, ClientTold, TechnicianTold, Notified
    <2> QED
      BY <1>1, <1>3, <2>1, StillInTime
  <1> QED
    BY <1>5, <1>6, <1>7 DEF RemindersIInv

LEMMA StopStep == ASSUME RemindersIInv, NEW j \in Techs, N!Stop(j) PROVE RemindersIInv'
  <1>1. run' = [run EXCEPT ![j] = N!Idle]
        /\ UNCHANGED <<clock, reminderAppt, archived, notices, done, since>>
    BY DEF N!Stop
  <1>2. /\ run'[j].stage = "idle" /\ \A i \in Techs \ {j} : run'[i] = run[i]
    BY <1>1 DEF RemindersIInv, RemindersTyped, N!Idle
  <1>3. RemindersTyped'
    BY <1>1, ReminderConstants DEF RemindersIInv, RemindersTyped, N!Idle
  <1>4. \A i \in Techs : Works(run[i])'
    BY <1>1, <1>2 DEF RemindersIInv, Works, ClientTold, Notified, N!WindowOf
  <1>5. ToldInTime'
    BY <1>1, StillInTime
  <1> QED
    BY <1>3, <1>4, <1>5 DEF RemindersIInv

\* A change makes the moment of the change the last one.
LEMMA BecomesStep == ASSUME RemindersIInv, NEW row \in N!Row, N!Becomes(row) PROVE RemindersIInv'
  <1>1. reminderAppt' = row /\ since' = clock /\ UNCHANGED <<clock, archived, notices, run, done>>
    BY DEF N!Becomes
  <1>2. RemindersTyped'
    BY <1>1 DEF RemindersIInv, RemindersTyped
  <1>3. \A i \in Techs : Works(run[i])'
    BY <1>1 DEF RemindersIInv, RemindersTyped, Works, ClientTold, Notified, N!WindowOf
  <1>4. ToldInTime'
    <2> SUFFICES ASSUME NEW w \in N!Windows
                 PROVE  ~(since' < N!LastOf(w)'
                          /\ (clock' > N!LastOf(w)' \/ (clock' = N!LastOf(w)' /\ done')))
      BY DEF ToldInTime
    <2>1. row.start \in Nat /\ clock \in Int
      BY RowStarts, ReminderTimes DEF RemindersIInv
    <2>2. N!LastOf(w)' \in Int
      BY <1>1, <2>1, ReminderConstants DEF N!LastOf
    <2> QED
      BY <1>1, <2>1, <2>2
  <1> QED
    BY <1>2, <1>3, <1>4 DEF RemindersIInv

LEMMA ArchiveStep ==
  ASSUME RemindersIInv, NEW u \in ReportAppointments \union {Admin}, N!Archive(u)
  PROVE  RemindersIInv'
  <1>1. archived = {} /\ archived' = {u}
        /\ UNCHANGED <<clock, reminderAppt, notices, run, done, since>>
    BY DEF N!Archive
  <1>2. RemindersTyped'
    BY <1>1 DEF RemindersIInv, RemindersTyped
  <1>3. \A i \in Techs : Works(run[i])'
    BY <1>1 DEF RemindersIInv, Works, ClientTold, Notified, N!WindowOf
  <1>4. ToldInTime'
    BY <1>1, StillInTime
  <1> QED
    BY <1>2, <1>3, <1>4 DEF RemindersIInv

LEMMA TickStep == ASSUME RemindersIInv, N!Tick PROVE RemindersIInv'
  <1>1. done /\ clock < MaxTime /\ clock' = clock + 1 /\ done' = FALSE
        /\ UNCHANGED <<reminderAppt, archived, notices, run, since>>
    BY DEF N!Tick
  <1>2. RemindersTyped'
    <2>1. clock' \in 0..MaxTime /\ since' \in 0..clock'
      BY <1>1, ReminderConstants, ReminderTimes DEF RemindersIInv
    <2>2. /\ reminderAppt' \in N!Row /\ archived' \subseteq ReportAppointments \union {Admin}
          /\ notices' \subseteq N!Notice /\ \A m \in notices' : m.role = "client" => m.user = Admin
          /\ run' \in [Techs -> [stage : {"idle", "client", "technician"}, now : 0..MaxTime,
                                 row : N!Row \union {None}]]
      BY <1>1 DEF RemindersIInv, RemindersTyped
    <2> QED
      BY <1>1, <2>1, <2>2 DEF RemindersTyped
  <1>3. \A i \in Techs : Works(run[i])'
    BY <1>1 DEF RemindersIInv, RemindersTyped, Works, ClientTold, Notified, N!WindowOf
  <1>4. ToldInTime'
    <2>1. clock \in Int /\ \A w \in N!Windows : N!LastOf(w) \in Int /\ N!LastOf(w)' = N!LastOf(w)
      BY <1>1, LastMoment DEF RemindersIInv, RemindersTyped, N!LastOf
    <2>2. \A w \in N!Windows : BothTold(w) => BothTold(w)'
      BY <1>1 DEF BothTold, ClientTold, TechnicianTold, Notified
    <2> QED
      BY <1>1, <2>1, <2>2 DEF RemindersIInv, ToldInTime
  <1> QED
    BY <1>2, <1>3, <1>4 DEF RemindersIInv

LEMMA RemindersNextStep == RemindersIInv /\ [N!Next]_reminderVars => RemindersIInv'
  <1> SUFFICES ASSUME RemindersIInv, [N!Next]_reminderVars PROVE RemindersIInv'
    OBVIOUS
  <1>1. ASSUME NEW j \in Techs,
               N!StartRun(j) \/ N!NotifyClient(j) \/ N!NotifyTechnician(j) \/ N!Stop(j)
        PROVE  RemindersIInv'
    BY <1>1, StartRunStep, NotifyClientStep, NotifyTechnicianStep, StopStep
  <1>2. reminderAppt \in N!Row
    BY DEF RemindersIInv, RemindersTyped
  <1>3. CASE N!Confirm
    <2>1. [reminderAppt EXCEPT !.status = "CONFIRMED"] \in N!Row
      BY <1>2 DEF N!Row
    <2> QED
      BY <1>3, <2>1, BecomesStep DEF N!Confirm
  <1>4. CASE N!CancelAppointment
    <2>1. [reminderAppt EXCEPT !.status = "CANCELLED"] \in N!Row
      BY <1>2 DEF N!Row
    <2> QED
      BY <1>4, <2>1, BecomesStep DEF N!CancelAppointment
  <1>5. ASSUME NEW s \in ReminderStarts, NEW t \in ReportAppointments, N!Reschedule(s, t)
        PROVE  RemindersIInv'
    <2>1. [reminderAppt EXCEPT !.start = s, !.tech = t] \in N!Row
      BY <1>2 DEF N!Row
    <2> QED
      BY <1>5, <2>1, BecomesStep DEF N!Reschedule
  <1>6. ASSUME NEW u \in ReportAppointments \union {Admin}, N!Archive(u) PROVE RemindersIInv'
    BY <1>6, ArchiveStep
  <1>7. CASE UNCHANGED reminderVars
    <2>1. UNCHANGED <<clock, reminderAppt, archived, notices, run, done, since>>
      BY <1>7 DEF reminderVars
    <2>2. RemindersTyped'
      BY <2>1 DEF RemindersIInv, RemindersTyped
    <2>3. \A i \in Techs : Works(run[i])'
      BY <2>1 DEF RemindersIInv, Works, ClientTold, Notified, N!WindowOf
    <2>4. ToldInTime'
      BY <2>1, StillInTime
    <2> QED
      BY <2>2, <2>3, <2>4 DEF RemindersIInv
  <1> QED
    BY <1>1, <1>3, <1>4, <1>5, <1>6, <1>7, TickStep DEF N!Next

LEMMA RemindersSafe == RemindersIInv => N!TypeOK /\ N!RemindedInTime
  <1> SUFFICES ASSUME RemindersIInv PROVE N!TypeOK /\ N!RemindedInTime
    OBVIOUS
  <1>1. N!TypeOK
    BY ReminderConstants DEF RemindersIInv, RemindersTyped, Works, N!TypeOK
  <1>2. N!RemindedInTime
    <2> SUFFICES ASSUME reminderAppt.status = "CONFIRMED", clock >= reminderAppt.start,
                        NEW w \in N!Windows, since < N!LastOf(w)
                 PROVE  LET told(role) == {n.user : n \in {m \in notices :
                                m.window = w /\ m.start = reminderAppt.start /\ m.role = role}}
                        IN  /\ reminderAppt.client # None => told("client") = {Admin} \/ Admin \in archived
                            /\ told("technician") # {} \/ reminderAppt.tech \in archived
      BY DEF N!RemindedInTime
    <2>1. BothTold(w)
      <3>1. clock > N!LastOf(w)
        <4>1. reminderAppt.start \in Nat /\ clock \in Int
          BY ReminderTimes DEF RemindersIInv
        <4>2. N!LastOf(w) \in Int /\ N!LastOf(w) < reminderAppt.start
          BY LastMoment DEF RemindersIInv
        <4> QED
          BY <4>1, <4>2
      <3> QED
        BY Zenon, <3>1 DEF RemindersIInv, ToldInTime
    <2>2. \A m \in notices : m.role = "client" => m.user = Admin
      BY DEF RemindersIInv, RemindersTyped
    <2>3. reminderAppt.client # None =>
            {n.user : n \in {m \in notices : m.window = w /\ m.start = reminderAppt.start /\ m.role = "client"}}
              = {Admin} \/ Admin \in archived
      BY <2>1, <2>2 DEF BothTold, ClientTold, Notified
    <2>4. \/ {n.user : n \in {m \in notices : m.window = w /\ m.start = reminderAppt.start
                                              /\ m.role = "technician"}} # {}
          \/ reminderAppt.tech \in archived
      BY <2>1 DEF BothTold, TechnicianTold, Notified
    <2> QED
      BY <2>3, <2>4
  <1> QED
    BY <1>1, <1>2

-----------------------------------------------------------------------------
(* Sums.  What a sum over a finite set is, by induction on the number of   *)
(* its elements: a set of naturals that is not empty has a least one.      *)

LEMMA Least ==
  ASSUME NEW T \in SUBSET Nat, T # {}
  PROVE  \E n \in T : \A m \in T : n <= m
  <1>1. PICK n \in T : \A m \in T : ~(<<m, n>> \in OpToRel(<, Nat))
    BY NatLessThanWellFounded, WFMin
  <1>2. \A m \in T : ~(m < n)
    BY <1>1, Zenon DEF OpToRel
  <1> QED
    BY <1>2

\* A property of naturals that the first one that lacks it cannot lack.
LEMMA Inductive ==
  ASSUME NEW T \in SUBSET Nat, \A n \in Nat : (\A m \in Nat : m < n => m \in T) => n \in T
  PROVE  T = Nat
  <1> SUFFICES ASSUME Nat \ T # {} PROVE FALSE
    OBVIOUS
  <1>1. PICK n \in Nat \ T : \A m \in Nat \ T : n <= m
    BY Least
  <1> QED
    BY <1>1

Picked(s) == CHOOSE x \in s : TRUE

\* F is the function that a sum of w over parts of S defines.
Summed(S, w, F) ==
    F = [s \in SUBSET S |-> IF s = {} THEN 0 ELSE w[Picked(s)] + F[s \ {Picked(s)}]]

LEMMA PickedLess ==
  ASSUME NEW S, IsFiniteSet(S), NEW s \in SUBSET S
  PROVE  /\ IsFiniteSet(s) /\ Cardinality(s) \in Nat
         /\ s # {} => /\ Picked(s) \in s /\ s \ {Picked(s)} \in SUBSET S
                      /\ Cardinality(s \ {Picked(s)}) \in Nat
                      /\ Cardinality(s \ {Picked(s)}) < Cardinality(s)
  <1>1. IsFiniteSet(s) /\ Cardinality(s) \in Nat
    BY FS_Subset, FS_CardinalityType
  <1>2. s # {} => Picked(s) \in s
    BY DEF Picked
  <1>3. s # {} => /\ Cardinality(s \ {Picked(s)}) = Cardinality(s) - 1
                  /\ Cardinality(s \ {Picked(s)}) \in Nat
    BY <1>1, <1>2, FS_RemoveElement, FS_CardinalityType
  <1> QED
    BY <1>1, <1>2, <1>3

LEMMA SumIsThere ==
  ASSUME NEW S, IsFiniteSet(S), NEW w
  PROVE  \E F : Summed(S, w, F)
  <1> DEFINE Parts(n) == {s \in SUBSET S : Cardinality(s) <= n}
             Next_(F, s) == IF s = {} THEN 0 ELSE w[Picked(s)] + F[s \ {Picked(s)}]
             T == {n \in Nat : \E F : \A s \in Parts(n) : F[s] = Next_(F, s)}
  <1>1. ASSUME NEW n \in Nat, \A m \in Nat : m < n => m \in T PROVE n \in T
    <2>1. PICK G : n > 0 => \A s \in Parts(n - 1) : G[s] = Next_(G, s)
      <3>1. n > 0 => n - 1 \in T
        <4> HIDE DEF T
        <4> QED
          BY <1>1
      <3> QED
        BY <3>1
    <2> DEFINE F == [s \in SUBSET S |-> IF Cardinality(s) < n THEN G[s] ELSE Next_(G, s)]
    <2>2. ASSUME NEW s \in Parts(n) PROVE F[s] = Next_(F, s)
      <3>1. Cardinality(s) \in Nat
        BY PickedLess
      <3>2. s # {} => F[s \ {Picked(s)}] = G[s \ {Picked(s)}]
        BY PickedLess, <3>1
      <3>3. Next_(F, s) = Next_(G, s)
        BY <3>2
      <3>4. Cardinality(s) < n => s \in Parts(n - 1) /\ n > 0
        BY <3>1
      <3>5. Cardinality(s) < n => G[s] = Next_(G, s)
        BY <3>4, <2>1
      <3> QED
        BY <3>3, <3>5
    <2> QED
      BY <2>2
  <1>2. T = Nat
    <2> HIDE DEF T
    <2>1. T \in SUBSET Nat
      BY DEF T
    <2> QED
      BY <1>1, <2>1, Inductive
  <1>3. Cardinality(S) \in Nat
    BY FS_CardinalityType
  <1>4. PICK F : \A s \in Parts(Cardinality(S)) : F[s] = Next_(F, s)
    BY <1>2, <1>3
  <1>5. SUBSET S = Parts(Cardinality(S))
    BY FS_Subset
  <1> DEFINE J == [s \in SUBSET S |-> F[s]]
  <1>6. ASSUME NEW s \in SUBSET S PROVE J[s] = Next_(J, s)
    <2>1. s # {} => J[s \ {Picked(s)}] = F[s \ {Picked(s)}]
      BY PickedLess
    <2> QED
      BY <2>1, <1>4, <1>5
  <1>7. J = [s \in SUBSET S |-> Next_(J, s)]
    <2> HIDE DEF Next_
    <2>1. J = [s \in SUBSET S |-> J[s]]
      OBVIOUS
    <2> HIDE DEF J
    <2> QED
      BY <1>6, <2>1
  <1> QED
    BY <1>7 DEF Summed

LEMMA SumStep ==
  ASSUME NEW S, NEW w, NEW F, Summed(S, w, F), NEW s \in SUBSET S
  PROVE  F[s] = IF s = {} THEN 0 ELSE w[Picked(s)] + F[s \ {Picked(s)}]
  BY DEF Summed

\* A sum of integers is one.
LEMMA SumType ==
  ASSUME NEW S, IsFiniteSet(S), NEW w \in [S -> Int], NEW F, Summed(S, w, F)
  PROVE  \A s \in SUBSET S : F[s] \in Int
  <1> DEFINE T == {n \in Nat : \A s \in SUBSET S : Cardinality(s) = n => F[s] \in Int}
  <1>1. ASSUME NEW n \in Nat, \A m \in Nat : m < n => m \in T PROVE n \in T
    <2> SUFFICES ASSUME NEW s \in SUBSET S, Cardinality(s) = n PROVE F[s] \in Int
      OBVIOUS
    <2>1. s # {} => w[Picked(s)] \in Int /\ F[s \ {Picked(s)}] \in Int
      <3> SUFFICES ASSUME s # {} PROVE w[Picked(s)] \in Int /\ F[s \ {Picked(s)}] \in Int
        OBVIOUS
      <3>1. /\ Picked(s) \in S /\ s \ {Picked(s)} \in SUBSET S
            /\ Cardinality(s \ {Picked(s)}) \in Nat /\ Cardinality(s \ {Picked(s)}) < n
        BY PickedLess
      <3> QED
        BY <3>1, <1>1
    <2> QED
      BY <2>1, SumStep
  <1>2. T = Nat
    <2> HIDE DEF T
    <2>1. T \in SUBSET Nat
      BY DEF T
    <2> QED
      BY <1>1, <2>1, Inductive
  <1> QED
    BY <1>2, PickedLess

\* There is one such function.
LEMMA SumIsOne ==
  ASSUME NEW S, IsFiniteSet(S), NEW w, NEW F, Summed(S, w, F), NEW G, Summed(S, w, G)
  PROVE  F[S] = G[S]
  <1> DEFINE T == {n \in Nat : \A s \in SUBSET S : Cardinality(s) = n => F[s] = G[s]}
  <1>1. ASSUME NEW n \in Nat, \A m \in Nat : m < n => m \in T PROVE n \in T
    <2> SUFFICES ASSUME NEW s \in SUBSET S, Cardinality(s) = n PROVE F[s] = G[s]
      OBVIOUS
    <2>1. s # {} => F[s \ {Picked(s)}] = G[s \ {Picked(s)}]
      <3> SUFFICES ASSUME s # {} PROVE F[s \ {Picked(s)}] = G[s \ {Picked(s)}]
        OBVIOUS
      <3>1. /\ s \ {Picked(s)} \in SUBSET S
            /\ Cardinality(s \ {Picked(s)}) \in Nat /\ Cardinality(s \ {Picked(s)}) < n
        BY PickedLess
      <3> QED
        BY <3>1, <1>1
    <2>2. F[s] = IF s = {} THEN 0 ELSE w[Picked(s)] + F[s \ {Picked(s)}]
      <3> HIDE DEF T
      <3> QED
        BY DEF Summed
    <2>3. G[s] = IF s = {} THEN 0 ELSE w[Picked(s)] + G[s \ {Picked(s)}]
      <3> HIDE DEF T
      <3> QED
        BY DEF Summed
    <2> QED
      BY <2>1, <2>2, <2>3
  <1>2. T = Nat
    <2> HIDE DEF T
    <2>1. T \in SUBSET Nat
      BY DEF T
    <2> QED
      BY <1>1, <2>1, Inductive
  <1>3. Cardinality(S) \in Nat
    BY FS_CardinalityType
  <1> QED
    BY <1>2, <1>3

\* The elements that a function takes to a value, and to a set of values.
ClassOf(Rows, of, x) == {r \in Rows : of[r] = x}
ClassesOf(Rows, of, s) == {r \in Rows : of[r] \in s}

\* A set is the sum of its classes.
LEMMA SumOfClasses ==
  ASSUME NEW S, IsFiniteSet(S), NEW Rows, IsFiniteSet(Rows), NEW of, NEW w, NEW F, Summed(S, w, F),
         \A x \in S : w[x] = Cardinality(ClassOf(Rows, of, x))
  PROVE  F[S] = Cardinality(ClassesOf(Rows, of, S))
  <1> DEFINE In(s) == ClassesOf(Rows, of, s)
             T == {n \in Nat : \A s \in SUBSET S : Cardinality(s) = n => F[s] = Cardinality(In(s))}
  <1>1. ASSUME NEW n \in Nat, \A m \in Nat : m < n => m \in T PROVE n \in T
    <2> SUFFICES ASSUME NEW s \in SUBSET S, Cardinality(s) = n PROVE F[s] = Cardinality(In(s))
      OBVIOUS
    <2>1. F[s] = IF s = {} THEN 0 ELSE w[Picked(s)] + F[s \ {Picked(s)}]
      <3> HIDE DEF T, In
      <3> QED
        BY DEF Summed
    <2>4. s # {} => /\ Picked(s) \in s /\ s \ {Picked(s)} \in SUBSET S
                    /\ Cardinality(s \ {Picked(s)}) \in Nat /\ Cardinality(s \ {Picked(s)}) < n
      <3> HIDE DEF T, In
      <3> QED
        BY PickedLess
    <2>2. CASE s = {}
      <3>1. In(s) = {} /\ Cardinality({}) = 0
        BY <2>2, FS_EmptySet DEF ClassesOf
      <3>2. F[s] = 0
        BY <2>1, <2>2
      <3> QED
        BY <3>1, <3>2
    <2>3. CASE s # {}
      <3> DEFINE x == Picked(s)
                 A == ClassOf(Rows, of, x)
                 B == In(s \ {x})
      <3>1. /\ x \in s /\ s \ {x} \in SUBSET S
            /\ Cardinality(s \ {x}) \in Nat /\ Cardinality(s \ {x}) < n
        BY <2>3, <2>4
      <3>2. F[s \ {x}] = Cardinality(B)
        <4>1. Cardinality(s \ {x}) \in T
          <5> HIDE DEF T
          <5>1. \A m \in Nat : m < n => m \in T
            BY <1>1
          <5> HIDE DEF x
          <5> QED
            BY <3>1, <5>1
        <4> HIDE DEF x, In
        <4> QED
          BY <3>1, <4>1
      <3>3. w[x] = Cardinality(A)
        BY <3>1
      <3>4. IsFiniteSet(A) /\ IsFiniteSet(B) /\ A \intersect B = {} /\ In(s) = A \union B
        <4>1. A \in SUBSET Rows /\ B \in SUBSET Rows
          BY DEF ClassOf, ClassesOf
        <4> QED
          BY <4>1, <3>1, FS_Subset DEF ClassOf, ClassesOf
      <3> HIDE DEF A, B
      <3>5. Cardinality(A \union B) = Cardinality(A) + Cardinality(B)
        <4>1. Cardinality(A \union B) = Cardinality(A) + Cardinality(B) - Cardinality(A \intersect B)
          BY <3>4, FS_Union
        <4>2. Cardinality(A \intersect B) = 0
          BY <3>4, FS_EmptySet
        <4> QED
          BY <4>1, <4>2, <3>4, FS_CardinalityType
      <3> QED
        BY <2>1, <2>3, <3>2, <3>3, <3>4, <3>5
    <2> QED
      BY <2>2, <2>3
  <1>2. T = Nat
    <2> HIDE DEF T
    <2>1. T \in SUBSET Nat
      BY DEF T
    <2> QED
      BY <1>1, <2>1, Inductive
  <1>3. Cardinality(S) \in Nat
    BY FS_CardinalityType
  <1> QED
    BY <1>2, <1>3

-----------------------------------------------------------------------------
(* Reports: the rows read are rows of the tables, and a query keeps the    *)
(* shape of one whatever it has read.                                      *)

QueryShape(x) ==
    {"stage", "todo"} \subseteq DOMAIN x /\ x.stage \in R!Stages /\ x.todo \subseteq R!Questions

ReportsIInv ==
    /\ reportAppt \in [ReportAppointments -> R!Row \union {R!Absent}]
    /\ log \subseteq (1..MaxEntries) \X Instants
    /\ query = [q \in Queries |-> query[q]] /\ \A q \in Queries : QueryShape(query[q])
    /\ fresh \subseteq Queries

LEMMA ShapeMoves ==
  ASSUME NEW x, QueryShape(x), NEW st \in R!Stages, NEW td \in SUBSET R!Questions, NEW v, NEW w
  PROVE  /\ QueryShape([x EXCEPT !.todo = td, !.stage = st])
         /\ QueryShape([x EXCEPT !.stage = st, !.todo = td])
         /\ QueryShape([x EXCEPT !.stage = st, !.first = v])
         /\ QueryShape([x EXCEPT !.page = v, !.read = w])
  BY DEF QueryShape

LEMMA IdleShape == QueryShape(R!Idle)
  BY DEF QueryShape, R!Idle, R!Stages

LEMMA ReportsInit == R!Init => ReportsIInv
  BY DEF R!Init, ReportsIInv, QueryShape, R!Idle, R!Stages

\* One query takes a step, and neither the studio nor the log.
LEMMA OneQueryMoves ==
  ASSUME ReportsIInv, NEW q \in Queries, NEW p, QueryShape(p),
         query' = [query EXCEPT ![q] = p], UNCHANGED <<reportAppt, log>>, fresh' \subseteq Queries
  PROVE  ReportsIInv'
  <1>1. query' = [u \in Queries |-> query'[u]] /\ \A u \in Queries : query'[u] = IF u = q THEN p ELSE query[u]
    BY DEF ReportsIInv
  <1>2. \A u \in Queries : QueryShape(query'[u])
    BY <1>1 DEF ReportsIInv
  <1> QED
    BY <1>1, <1>2 DEF ReportsIInv, QueryShape

LEMMA AnsweredStep ==
  ASSUME ReportsIInv, NEW q \in Queries, NEW p, NEW question, QueryShape(p), R!Answered(q, p, question)
  PROVE  ReportsIInv'
  <1> DEFINE y == [p EXCEPT !.todo = p.todo \ {question},
                            !.stage = IF p.todo = {question} THEN "answered" ELSE "dashboard"]
  <1>1. query' = [query EXCEPT ![q] = y] /\ UNCHANGED <<reportAppt, log, fresh>>
    BY DEF R!Answered, R!Become
  <1>2. QueryShape(y)
    <2>1. /\ (IF p.todo = {question} THEN "answered" ELSE "dashboard") \in R!Stages
          /\ p.todo \ {question} \in SUBSET R!Questions
      BY DEF QueryShape, R!Stages
    <2> QED
      BY <2>1, ShapeMoves
  <1> HIDE DEF y
  <1> QED
    BY <1>1, <1>2, OneQueryMoves DEF ReportsIInv

LEMMA LogNextStep ==
  ASSUME ReportsIInv, R!LogNext PROVE ReportsIInv'
  <1>1. ASSUME NEW n \in 1..MaxEntries, NEW t \in Instants, R!Record(n, t) PROVE ReportsIInv'
    BY <1>1 DEF R!Record, ReportsIInv, QueryShape
  <1>2. ASSUME NEW q \in Queries, R!Audit(q) PROVE ReportsIInv'
    <2> DEFINE y == [R!Idle EXCEPT !.stage = "paging", !.first = log]
    <2>1. query' = [query EXCEPT ![q] = y] /\ UNCHANGED <<reportAppt, log, fresh>>
      BY <1>2 DEF R!Audit, R!Become
    <2>2. QueryShape(y)
      BY IdleShape, ShapeMoves DEF R!Stages
    <2> HIDE DEF y
    <2> QED
      BY <2>1, <2>2, OneQueryMoves DEF ReportsIInv
  <1>3. ASSUME NEW q \in Queries, R!NextPage(q) PROVE ReportsIInv'
    <2>1. PICK page1, read1 : query' = [query EXCEPT ![q] = [query[q] EXCEPT !.page = page1, !.read = read1]]
      BY <1>3 DEF R!NextPage, R!Become
    <2> DEFINE y == [query[q] EXCEPT !.page = page1, !.read = read1]
    <2>2. QueryShape(y)
      <3>1. QueryShape(query[q])
        BY DEF ReportsIInv
      <3> QED
        BY <3>1, ShapeMoves DEF QueryShape
    <2>3. UNCHANGED <<reportAppt, log, fresh>>
      BY <1>3 DEF R!NextPage
    <2> HIDE DEF y
    <2> QED
      BY <2>1, <2>2, <2>3, OneQueryMoves DEF ReportsIInv, y
  <1>4. ASSUME NEW q \in Queries, R!AllPages(q) PROVE ReportsIInv'
    <2>1. QueryShape(R!Idle) /\ query' = [query EXCEPT ![q] = R!Idle] /\ UNCHANGED <<reportAppt, log, fresh>>
      BY <1>4 DEF R!AllPages, R!Become, QueryShape, R!Idle, R!Stages
    <2> QED
      BY <2>1, OneQueryMoves DEF ReportsIInv
  <1> QED
    BY <1>1, <1>2, <1>3, <1>4 DEF R!LogNext

LEMMA RowMoves ==
  ASSUME ReportsIInv, NEW a \in ReportAppointments, NEW row \in R!Row,
         reportAppt' = [reportAppt EXCEPT ![a] = row], fresh' = {}, UNCHANGED <<log, query>>
  PROVE  ReportsIInv'
  BY DEF ReportsIInv, QueryShape

LEMMA DashboardNextStep ==
  ASSUME ReportsIInv, R!DashboardNext PROVE ReportsIInv'
  <1>1. ASSUME NEW a \in ReportAppointments, NEW d \in R!Days, NEW s \in R!Statuses, R!Progress(a, d, s)
        PROVE  ReportsIInv'
    <2>1. reportAppt[a] \in R!Row
      BY <1>1 DEF ReportsIInv, R!Progress
    <2> DEFINE row == [reportAppt[a] EXCEPT !.day = d, !.status = s]
    <2>2. row \in R!Row
      BY <2>1 DEF R!Row
    <2>3. /\ reportAppt' = [reportAppt EXCEPT ![a] = row]
          /\ fresh' = {} /\ UNCHANGED <<log, query>>
      BY <1>1, <2>1 DEF R!Progress, R!Changed, ReportsIInv
    <2> HIDE DEF row
    <2> QED
      BY <2>2, <2>3, RowMoves
  <1>2. ASSUME NEW a \in ReportAppointments, NEW d \in R!Days, NEW s \in R!Statuses,
               NEW c \in ReportClients \union {None}, R!Book(a, d, c, s)
        PROVE  ReportsIInv'
    <2> DEFINE row == [id |-> a, status |-> s, day |-> d, client |-> c]
    <2>1. row \in R!Row
      BY DEF R!Row
    <2>2. reportAppt' = [reportAppt EXCEPT ![a] = row] /\ fresh' = {} /\ UNCHANGED <<log, query>>
      BY <1>2 DEF R!Book, R!Changed
    <2> HIDE DEF row
    <2> QED
      BY <2>1, <2>2, RowMoves
  <1>3. ASSUME NEW q \in Queries, R!Dashboard(q) PROVE ReportsIInv'
    <2> DEFINE y == [R!Idle EXCEPT !.stage = "dashboard", !.todo = R!Questions]
    <2>1. /\ query' = [query EXCEPT ![q] = y] /\ fresh' = fresh \union {q}
          /\ UNCHANGED <<reportAppt, log>>
      BY <1>3 DEF R!Dashboard, R!Become
    <2>2. QueryShape(y)
      BY IdleShape, ShapeMoves DEF R!Stages
    <2>3. fresh' \subseteq Queries
      BY <2>1 DEF ReportsIInv
    <2> HIDE DEF y
    <2> QED
      BY <2>1, <2>2, <2>3, OneQueryMoves
  <1>4. ASSUME NEW q \in Queries,
               R!AskAppointments(q) \/ R!AskDeposits(q) \/ R!AskDesigns(q) \/ R!AskCompleted(q)
        PROVE  ReportsIInv'
    <2>1. QueryShape(query[q])
      BY DEF ReportsIInv
    <2>2. ASSUME NEW rows
          PROVE  /\ QueryShape([query[q] EXCEPT !.rows = rows]) /\ QueryShape([query[q] EXCEPT !.deposits = rows])
                 /\ QueryShape([query[q] EXCEPT !.designs = rows])
                 /\ QueryShape([query[q] EXCEPT !.completed = rows])
      BY <2>1 DEF QueryShape
    <2>3. CASE R!AskAppointments(q)
      BY <2>2, <2>3, AnsweredStep DEF R!AskAppointments
    <2>4. CASE R!AskDeposits(q)
      BY <2>2, <2>4, AnsweredStep DEF R!AskDeposits
    <2>5. CASE R!AskDesigns(q)
      BY <2>2, <2>5, AnsweredStep DEF R!AskDesigns
    <2>6. CASE R!AskCompleted(q)
      BY <2>2, <2>6, AnsweredStep DEF R!AskCompleted
    <2> QED
      BY <1>4, <2>3, <2>4, <2>5, <2>6
  <1>5. ASSUME NEW q \in Queries, R!AskClients(q) PROVE ReportsIInv'
    <2>1. PICK rows : query' = [query EXCEPT ![q] = [query[q] EXCEPT !.grouped = rows]]
      BY <1>5 DEF R!AskClients, R!Become
    <2>2. QueryShape([query[q] EXCEPT !.grouped = rows])
      <3>1. QueryShape(query[q])
        BY DEF ReportsIInv
      <3> QED
        BY <3>1 DEF QueryShape
    <2>3. UNCHANGED <<reportAppt, log, fresh>>
      BY <1>5 DEF R!AskClients
    <2> QED
      BY <2>1, <2>2, <2>3, OneQueryMoves DEF ReportsIInv
  <1>6. ASSUME NEW q \in Queries, R!Close(q) PROVE ReportsIInv'
    <2>1. /\ QueryShape(R!Idle) /\ query' = [query EXCEPT ![q] = R!Idle] /\ UNCHANGED <<reportAppt, log>>
          /\ fresh' \subseteq fresh
      BY <1>6 DEF R!Close, R!Become, QueryShape, R!Idle, R!Stages
    <2> QED
      BY <2>1, OneQueryMoves DEF ReportsIInv
  <1> QED
    BY <1>1, <1>2, <1>3, <1>4, <1>5, <1>6 DEF R!DashboardNext

LEMMA ReportsNextStep ==
  ASSUME ReportsIInv, [R!LogNext \/ R!DashboardNext]_reportVars PROVE ReportsIInv'
  <1>1. CASE UNCHANGED reportVars
    BY <1>1 DEF reportVars, ReportsIInv, QueryShape
  <1> QED
    BY <1>1, LogNextStep, DashboardNextStep

LEMMA ReportsSafe == ReportsIInv => R!TypeOK
  BY DEF ReportsIInv, QueryShape, R!TypeOK

-----------------------------------------------------------------------------
(* The audit log.  An entry that shares its instant with no other one has  *)
(* as many before it as are newer, and no entry ever gets nearer the       *)
(* front: what a page has passed it has read.                              *)

Newer(e) == {f \in log : f[2] > e[2]}

Single(e) == \A f \in log \ {e} : f[2] # e[2]

ReadSoFar(x) ==
    x.stage = "paging" =>
       /\ {"page", "read", "first"} \subseteq DOMAIN x /\ x.page \in Nat /\ x.first \subseteq log
       /\ \A e \in x.first : Single(e) /\ Cardinality(Newer(e)) < R!Skipped(x.page) => e \in x.read

LogIInv == ReportsIInv /\ IsFiniteSet(log) /\ \A q \in Queries : ReadSoFar(query[q])

LEMMA LogConstants == PageSize \in Nat /\ Instants \subseteq Nat
  BY StudioAssumption

LEMMA ReportsCardinality == ASSUME NEW S PROVE R!Cardinality(S) = Cardinality(S)
  BY DEF R!Cardinality, Cardinality

LEMMA Instant ==
  ASSUME ReportsIInv, NEW e \in log PROVE e[2] \in Nat
  BY LogConstants DEF ReportsIInv

LEMMA NewerFinite ==
  ASSUME IsFiniteSet(log), NEW e
  PROVE  IsFiniteSet(Newer(e)) /\ Cardinality(Newer(e)) \in Nat
  <1>1. Newer(e) \in SUBSET log
    BY DEF Newer
  <1>2. IsFiniteSet(Newer(e))
    BY <1>1, FS_Subset
  <1> QED
    BY <1>2, FS_CardinalityType

LEMMA OneToN ==
  ASSUME NEW n \in Nat, NEW S, NEW s \in [1..n -> S]
  PROVE  s \in Seq(S) /\ Len(s) = n
  OBVIOUS

\* The injection of the places before i, in order, onto what is newer.
LEMMA PlaceInOrder ==
  ASSUME ReportsIInv, IsFiniteSet(log), NEW s \in R!Orders, NEW e \in log, Single(e)
  PROVE  /\ Len(s) = Cardinality(log)
         /\ \E i \in 1..Cardinality(log) : s[i] = e /\ Cardinality(Newer(e)) = i - 1
  <1> DEFINE n == Cardinality(log)
  <1>1. n \in Nat
    BY FS_CardinalityType
  <1>2. /\ s \in [1..n -> log] /\ \A i, j \in 1..n : i # j => s[i] # s[j]
        /\ \A i, j \in 1..n : i < j => s[i][2] >= s[j][2]
    <2>1. s \in R!SetToSeqs(log) /\ \A i, j \in DOMAIN s : i < j => s[i][2] >= s[j][2]
      BY DEF R!Orders
    <2>2. s \in [1..n -> log] /\ \A i, j \in 1..n : i # j => s[i] # s[j]
      BY <2>1, ReportsCardinality DEF R!SetToSeqs
    <2> QED
      BY <2>1, <2>2
  <1>3. Len(s) = n
    BY <1>1, <1>2, OneToN
  <1>4. IsFiniteSet(1..n) /\ Cardinality(1..n) = n
    BY <1>1, FS_Interval
  <1> HIDE DEF n
  <1>5. PICK i \in 1..n : s[i] = e
    <2>1. s \in Injection(1..n, log)
      BY <1>2 DEF Injection, IsInjective
    <2>2. s \in Surjection(1..n, log)
      BY <1>4, <2>1, FS_Injection DEF n
    <2> QED
      BY <2>2 DEF Surjection
  <1>6. ASSUME NEW j \in 1..(i - 1) PROVE j \in 1..n /\ s[j] \in Newer(e)
    <2>1. j \in 1..n /\ j < i /\ s[j] \in log /\ s[j] # e /\ s[j][2] >= e[2]
      BY <1>1, <1>2, <1>5
    <2>2. s[j][2] # e[2] /\ s[j][2] \in Nat /\ e[2] \in Nat
      BY <2>1, Instant DEF Single
    <2> QED
      BY <2>1, <2>2 DEF Newer
  <1>7. ASSUME NEW f \in Newer(e) PROVE \E j \in 1..(i - 1) : s[j] = f
    <2>1. f \in log /\ f[2] > e[2] /\ f[2] \in Nat /\ e[2] \in Nat
      BY Instant DEF Newer
    <2>2. PICK j \in 1..n : s[j] = f
      <3>1. s \in Injection(1..n, log)
        BY <1>2 DEF Injection, IsInjective
      <3>2. s \in Surjection(1..n, log)
        BY <1>4, <3>1, FS_Injection DEF n
      <3> QED
        BY <2>1, <3>2 DEF Surjection
    <2>3. ~(i < j) /\ j # i
      BY <1>2, <1>5, <2>1, <2>2
    <2> QED
      BY <1>1, <2>2, <2>3
  <1>8. Cardinality(Newer(e)) = i - 1
    <2> DEFINE g == [j \in 1..(i - 1) |-> s[j]]
    <2>1. g \in Surjection(1..(i - 1), Newer(e)) /\ g \in Injection(1..(i - 1), Newer(e))
      <3>1. g \in [1..(i - 1) -> Newer(e)] /\ \A t \in Newer(e) : \E j \in 1..(i - 1) : g[j] = t
        BY <1>6, <1>7
      <3>2. \A a, b \in 1..(i - 1) : g[a] = g[b] => a = b
        BY <1>2, <1>6
      <3> QED
        BY <3>1, <3>2 DEF Surjection, Injection, IsInjective
    <2>2. IsFiniteSet(1..(i - 1)) /\ Cardinality(1..(i - 1)) = i - 1
      <3>1. i - 1 \in Int /\ 1 \in Int /\ i - 1 >= 0
        BY <1>1
      <3> QED
        BY <3>1, FS_Interval
    <2> HIDE DEF g
    <2> QED
      BY <2>1, <2>2, FS_Surjection
  <1> QED
    BY <1>3, <1>5, <1>8 DEF n

LEMMA Skips ==
  ASSUME NEW n \in Nat
  PROVE  /\ R!Skipped(n) \in Nat /\ R!Skipped(n + 1) = R!Skipped(n) + PageSize /\ R!Skipped(0) = 0
  BY LogConstants DEF R!Skipped

LEMMA TheLess == ASSUME NEW a \in Nat, NEW b \in Nat PROVE R!Min({a, b}) = IF a <= b THEN a ELSE b
  BY DEF R!Min

LEMMA LogInit == R!Init => LogIInv
  BY ReportsInit, FS_EmptySet DEF LogIInv, R!Init, ReadSoFar, R!Idle

LEMMA LogStep ==
  ASSUME LogIInv, [R!LogNext]_reportVars PROVE LogIInv'
  <1>1. ReportsIInv'
    BY LogNextStep, ReportsNextStep DEF LogIInv
  <1>2. CASE UNCHANGED reportVars
    BY <1>1, <1>2 DEF LogIInv, reportVars, ReadSoFar, Single, Newer
  <1>3. ASSUME NEW n \in 1..MaxEntries, NEW t \in Instants, R!Record(n, t) PROVE LogIInv'
    <2>1. log' = log \union {<<n, t>>} /\ query' = query
      BY <1>3 DEF R!Record
    <2>2. IsFiniteSet(log')
      BY <2>1, FS_AddElement DEF LogIInv
    <2>3. ASSUME NEW e PROVE /\ Single(e)' => Single(e)
                             /\ Cardinality(Newer(e)) <= Cardinality(Newer(e)')
      <3>1. Newer(e) \in SUBSET Newer(e)'
        BY <2>1 DEF Newer
      <3>2. IsFiniteSet(Newer(e)')
        <4>1. Newer(e)' \in SUBSET log'
          BY DEF Newer
        <4> QED
          BY <2>2, <4>1, FS_Subset
      <3> QED
        BY <2>1, <3>1, <3>2, FS_Subset DEF Single
    <2>4. ASSUME NEW q \in Queries PROVE ReadSoFar(query[q])'
      <3> SUFFICES ASSUME query[q].stage = "paging",
                          NEW e \in query[q].first, Single(e)',
                          Cardinality(Newer(e)') < R!Skipped(query[q].page)
                   PROVE  e \in query[q].read
        BY <2>1 DEF LogIInv, ReadSoFar, R!Skipped
      <3>1. Cardinality(Newer(e)) \in Nat /\ Cardinality(Newer(e)') \in Nat
        <4>1. Newer(e)' \in SUBSET log'
          BY DEF Newer
        <4>2. IsFiniteSet(Newer(e)')
          BY <2>2, <4>1, FS_Subset
        <4> QED
          BY <4>2, NewerFinite, FS_CardinalityType DEF LogIInv
      <3>2. query[q].page \in Nat /\ R!Skipped(query[q].page) \in Nat
        BY Skips DEF LogIInv, ReadSoFar
      <3>3. Single(e) /\ Cardinality(Newer(e)) < R!Skipped(query[q].page)
        BY <2>3, <3>1, <3>2
      <3> QED
        BY <3>3 DEF LogIInv, ReadSoFar
    <2> QED
      BY <1>1, <2>2, <2>4 DEF LogIInv
  <1>4. ASSUME NEW q \in Queries, NEW y, query' = [query EXCEPT ![q] = y], log' = log, ReadSoFar(y)
        PROVE  LogIInv'
    <2>1. \A u \in Queries : query'[u] = IF u = q THEN y ELSE query[u]
      BY <1>4 DEF LogIInv, ReportsIInv
    <2>2. ASSUME NEW u \in Queries PROVE ReadSoFar(query[u])'
      BY <1>4, <2>1, <2>2 DEF LogIInv, ReadSoFar, Single, Newer, R!Skipped
    <2> QED
      BY <1>1, <1>4, <2>2 DEF LogIInv
  <1>5. ASSUME NEW q \in Queries, R!Audit(q) PROVE LogIInv'
    <2> DEFINE y == [R!Idle EXCEPT !.stage = "paging", !.first = log]
    <2>1. query' = [query EXCEPT ![q] = y] /\ log' = log
      BY <1>5 DEF R!Audit, R!Become
    <2>2. ReadSoFar(y)
      <3>1. {"page", "read", "first"} \subseteq DOMAIN y /\ y.page = 0 /\ y.first = log
        BY DEF R!Idle
      <3> HIDE DEF y
      <3>2. \A e \in log : ~(Cardinality(Newer(e)) < R!Skipped(0))
        BY NewerFinite, Skips DEF LogIInv
      <3> QED
        BY <3>1, <3>2 DEF ReadSoFar
    <2> QED
      BY <1>4, <2>1, <2>2
  <1>6. ASSUME NEW q \in Queries, R!NextPage(q) PROVE LogIInv'
    <2> DEFINE x == query[q]
    <2>1. PICK s \in R!Orders :
             query' = [query EXCEPT ![q] = [x EXCEPT !.page = x.page + 1,
                         !.read = x.read \union
                           {s[i] : i \in R!Skipped(x.page) + 1 ..
                                         R!Min({R!Skipped(x.page) + PageSize, Len(s)})}]]
      BY <1>6 DEF R!NextPage, R!Become
    <2> DEFINE top == R!Min({R!Skipped(x.page) + PageSize, Len(s)})
               more == {s[i] : i \in R!Skipped(x.page) + 1 .. top}
               y == [x EXCEPT !.page = x.page + 1, !.read = x.read \union more]
    <2>2. x.stage = "paging" /\ log' = log /\ ReadSoFar(x) /\ IsFiniteSet(log) /\ ReportsIInv
          /\ QueryShape(x)
      BY <1>6 DEF R!NextPage, LogIInv, ReportsIInv
    <2>3. x.page \in Nat /\ x.first \subseteq log /\ {"page", "read", "first"} \subseteq DOMAIN x
      BY <2>2 DEF ReadSoFar
    <2> HIDE DEF more
    <2>4. /\ y.page = x.page + 1 /\ y.first = x.first /\ y.read = x.read \union more
          /\ {"page", "read", "first"} \subseteq DOMAIN y
      BY <2>3
    <2> HIDE DEF x, y
    <2>5. /\ R!Skipped(x.page) \in Nat /\ PageSize \in Nat
          /\ R!Skipped(x.page + 1) = R!Skipped(x.page) + PageSize
      BY <2>3, Skips, LogConstants
    <2>6. ASSUME NEW e \in x.first, Single(e), Cardinality(Newer(e)) < R!Skipped(x.page + 1)
          PROVE  e \in x.read \union more
      <3>1. Len(s) = Cardinality(log) /\ Cardinality(log) \in Nat
        BY <2>2, <2>3, <2>6, PlaceInOrder, FS_CardinalityType
      <3>2. PICK i \in 1..Cardinality(log) : s[i] = e /\ Cardinality(Newer(e)) = i - 1
        BY <2>2, <2>3, <2>6, PlaceInOrder
      <3>3. top = IF R!Skipped(x.page) + PageSize <= Len(s) THEN R!Skipped(x.page) + PageSize ELSE Len(s)
        BY <2>5, <3>1, TheLess
      <3>4. CASE i - 1 < R!Skipped(x.page)
        BY <2>2, <2>6, <3>2, <3>4 DEF ReadSoFar
      <3>5. CASE ~(i - 1 < R!Skipped(x.page))
        <4>1. i \in R!Skipped(x.page) + 1 .. top
          BY <2>5, <2>6, <3>1, <3>2, <3>3, <3>5
        <4> QED
          BY <3>2, <4>1 DEF more
      <3> QED
        BY <3>4, <3>5
    <2>7. ReadSoFar(y)
      BY <2>3, <2>4, <2>6 DEF ReadSoFar
    <2> QED
      BY <1>4, <2>1, <2>2, <2>7 DEF more, x, y
  <1>7. ASSUME NEW q \in Queries, R!AllPages(q) PROVE LogIInv'
    <2>1. query' = [query EXCEPT ![q] = R!Idle] /\ log' = log /\ ReadSoFar(R!Idle)
      BY <1>7 DEF R!AllPages, R!Become, ReadSoFar, R!Idle
    <2> QED
      BY <1>4, <2>1
  <1> QED
    BY <1>2, <1>3, <1>5, <1>6, <1>7 DEF R!LogNext

LEMMA LogSafe == LogIInv => R!PagesCoverLog
  <1> SUFFICES ASSUME LogIInv, NEW q \in Queries, query[q].stage = "paging",
                      R!Skipped(query[q].page) >= R!Cardinality(log), NEW e \in query[q].first, Single(e)
               PROVE  e \in query[q].read
    BY DEF R!PagesCoverLog, Single
  <1>1. e \in log /\ query[q].page \in Nat
    BY DEF LogIInv, ReadSoFar
  <1>2. /\ Cardinality(log) \in Nat /\ Cardinality(Newer(e)) \in Nat
        /\ R!Skipped(query[q].page) \in Nat /\ R!Skipped(query[q].page) >= Cardinality(log)
    BY <1>1, NewerFinite, Skips, ReportsCardinality, FS_CardinalityType DEF LogIInv
  <1>3. Cardinality(Newer(e)) < Cardinality(log)
    <2>1. Newer(e) \in SUBSET log /\ e \notin Newer(e)
      <3>1. e[2] \in Nat
        BY <1>1, Instant DEF LogIInv
      <3> QED
        BY <3>1 DEF Newer
    <2>2. IsFiniteSet(log)
      BY DEF LogIInv
    <2>3. Cardinality(Newer(e)) <= Cardinality(log) /\ Cardinality(log) # Cardinality(Newer(e))
      BY <1>1, <2>1, <2>2, FS_Subset
    <2> QED
      BY <1>2, <2>3
  <1>4. Cardinality(Newer(e)) < R!Skipped(query[q].page)
    BY <1>2, <1>3
  <1> QED
    BY <1>4 DEF LogIInv, ReadSoFar

-----------------------------------------------------------------------------
(* The dashboard.  What its questions read, and how often its sums are     *)
(* those of the rows it read first.                                        *)

-----------------------------------------------------------------------------
(* The dashboard.  While nothing changes, every column is a part of the    *)
(* same rows; whatever changes, the rows that were read are rows of the    *)
(* range, each with one status and one day.                                *)

RangeRows == {row \in R!Row : R!Within(row.day)}

FrequentRows == {row \in R!InRange : row.client # None /\ R!FrequentRow(row)}

Columns == {"rows", "deposits", "designs", "grouped", "completed"}

ColumnsRead(x) ==
    /\ Columns \subseteq DOMAIN x
    /\ IsFiniteSet(x.rows) /\ x.rows \subseteq RangeRows
    /\ IsFiniteSet(x.grouped) /\ IsFiniteSet(x.completed)

ColumnsFresh(x) ==
    x.stage \in {"dashboard", "answered"} =>
       /\ "appointments" \in x.todo \/ x.rows = R!InRange
       /\ x.deposits \subseteq R!InRange /\ x.designs \subseteq R!InRange
       /\ x.grouped = {} \/ x.grouped = FrequentRows
       /\ x.completed \subseteq x.grouped
       /\ x.stage = "answered" => x.todo = {}

DashboardIInv ==
    /\ ReportsIInv
    /\ \A q \in Queries : ColumnsRead(query[q])
    /\ \A q \in fresh : ColumnsFresh(query[q])

LEMMA TableFinite ==
  ASSUME ReportsIInv
  PROVE  IsFiniteSet(R!InRange) /\ R!InRange \subseteq RangeRows
  <1> DEFINE S == {b \in ReportAppointments : reportAppt[b].status # "ABSENT"}
             f == [a \in S |-> reportAppt[a]]
  <1>1. IsFiniteSet(S)
    BY StudioAssumption, FS_Subset
  <1>2. R!Table = {reportAppt[a] : a \in S}
    BY DEF R!Table
  <1>3. f \in Surjection(S, R!Table)
    BY <1>2 DEF Surjection
  <1>4. IsFiniteSet(R!Table)
    <2> HIDE DEF S, f
    <2> QED
      BY <1>1, <1>3, FS_Surjection
  <1>5. R!Table \subseteq R!Row
    <2>1. \A a \in S : reportAppt[a] \in R!Row
      BY DEF ReportsIInv, R!Absent
    <2> QED
      BY <1>2, <2>1
  <1>6. IsFiniteSet(R!InRange)
    BY <1>4, FS_Subset DEF R!InRange
  <1> QED
    BY <1>5, <1>6 DEF R!InRange, RangeRows

LEMMA IdleRead == ColumnsRead(R!Idle)
  BY FS_EmptySet DEF ColumnsRead, R!Idle, Columns

LEMMA DashboardInit == R!Init => DashboardIInv
  BY ReportsInit, IdleRead DEF R!Init, DashboardIInv

\* One query reads, and nothing it counts changes.
LEMMA OneReads ==
  ASSUME DashboardIInv, ReportsIInv', NEW q \in Queries, NEW p, query' = [query EXCEPT ![q] = p],
         UNCHANGED reportAppt, fresh' \subseteq fresh \union {q},
         ColumnsRead(p), q \in fresh' => ColumnsFresh(p)
  PROVE  DashboardIInv'
  <1>1. \A u \in Queries : query'[u] = IF u = q THEN p ELSE query[u]
    BY DEF DashboardIInv, ReportsIInv
  <1>2. fresh' \subseteq Queries
    BY DEF ReportsIInv
  <1>3. \A x : ColumnsRead(x)' <=> ColumnsRead(x)
    BY DEF ColumnsRead, RangeRows
  <1>4. R!InRange' = R!InRange /\ FrequentRows' = FrequentRows
    BY DEF R!InRange, R!Table, FrequentRows
  <1>5. \A u \in Queries : ColumnsRead(query'[u])
    BY <1>1 DEF DashboardIInv
  <1>6. \A u \in fresh' : ColumnsFresh(query'[u])
    BY <1>1, <1>2 DEF DashboardIInv
  <1> QED
    BY <1>4, <1>5, <1>6 DEF DashboardIInv, ColumnsRead, RangeRows, ColumnsFresh

\* What a question leaves of the others.
LEMMA Question ==
  ASSUME DashboardIInv, NEW q \in Queries, NEW p, NEW question, R!Answered(q, p, question),
         ReportsIInv',
         ColumnsRead(p), {"stage", "todo"} \subseteq DOMAIN p, p.stage = query[q].stage, p.todo = query[q].todo,
         q \in fresh =>
           ColumnsFresh([p EXCEPT !.todo = p.todo \ {question},
                           !.stage = IF p.todo = {question} THEN "answered" ELSE "dashboard"])
  PROVE  DashboardIInv'
  <1> DEFINE y == [p EXCEPT !.todo = p.todo \ {question},
                            !.stage = IF p.todo = {question} THEN "answered" ELSE "dashboard"]
  <1>1. query' = [query EXCEPT ![q] = y] /\ UNCHANGED <<reportAppt, log, fresh>>
    BY DEF R!Answered, R!Become
  <1>2. ColumnsRead(y)
    BY DEF ColumnsRead, Columns
  <1> HIDE DEF y
  <1> QED
    BY <1>1, <1>2, OneReads DEF y

LEMMA DashboardStep ==
  DashboardIInv /\ [R!DashboardNext]_reportVars => DashboardIInv'
  <1> SUFFICES ASSUME DashboardIInv, [R!DashboardNext]_reportVars PROVE DashboardIInv'
    OBVIOUS
  <1>1. ReportsIInv'
    BY ReportsNextStep DEF DashboardIInv
  <1>2. CASE UNCHANGED reportVars
    BY <1>1, <1>2 DEF reportVars, DashboardIInv, ColumnsRead, RangeRows, ColumnsFresh, R!InRange,
       R!Table, FrequentRows
  <1>3. ASSUME fresh' = {}, UNCHANGED query PROVE DashboardIInv'
    BY <1>1, <1>3 DEF DashboardIInv, ColumnsRead, RangeRows
  <1>4. ASSUME NEW a \in ReportAppointments, NEW d \in R!Days, NEW s \in R!Statuses,
               \/ R!Progress(a, d, s)
               \/ \E c \in ReportClients \union {None} : R!Book(a, d, c, s)
        PROVE  DashboardIInv'
    BY <1>3, <1>4 DEF R!Progress, R!Book, R!Changed
  <1>5. ASSUME NEW q \in Queries, R!Dashboard(q) PROVE DashboardIInv'
    <2> DEFINE y == [R!Idle EXCEPT !.stage = "dashboard", !.todo = R!Questions]
    <2>1. /\ query' = [query EXCEPT ![q] = y] /\ fresh' = fresh \union {q}
          /\ UNCHANGED <<reportAppt, log>>
      BY <1>5 DEF R!Dashboard, R!Become
    <2>2. ColumnsRead(y)
      BY IdleRead DEF ColumnsRead, Columns, R!Idle
    <2>3. ColumnsFresh(y)
      BY DEF ColumnsFresh, R!Idle, R!Questions
    <2> HIDE DEF y
    <2> QED
      BY <1>1, <2>1, <2>2, <2>3, OneReads
  <1>6. ASSUME NEW q \in Queries, R!AskAppointments(q) PROVE DashboardIInv'
    <2> DEFINE p == [query[q] EXCEPT !.rows = R!InRange]
    <2>1. R!Answered(q, p, "appointments") /\ query[q].stage = "dashboard"
      BY <1>6 DEF R!AskAppointments, R!Answered
    <2>2. QueryShape(query[q]) /\ ColumnsRead(query[q])
      BY DEF DashboardIInv, ReportsIInv
    <2>3. ColumnsRead(p) /\ {"stage", "todo"} \subseteq DOMAIN p /\ p.stage = query[q].stage /\ p.todo = query[q].todo
      BY <2>2, TableFinite DEF DashboardIInv, ColumnsRead, Columns, QueryShape
    <2>4. q \in fresh => ColumnsFresh([p EXCEPT !.todo = p.todo \ {"appointments"},
                           !.stage = IF p.todo = {"appointments"} THEN "answered" ELSE "dashboard"])
      BY <2>1, <2>2 DEF DashboardIInv, ColumnsFresh, ColumnsRead, Columns, QueryShape
    <2> HIDE DEF p
    <2> QED
      BY <1>1, <2>1, <2>3, <2>4, Question
  <1>7. ASSUME NEW q \in Queries, R!AskDeposits(q) PROVE DashboardIInv'
    <2> DEFINE p == [query[q] EXCEPT !.deposits = {row \in R!InRange : row.client # None}]
    <2>1. R!Answered(q, p, "deposits") /\ query[q].stage = "dashboard"
      BY <1>7 DEF R!AskDeposits, R!Answered
    <2>2. QueryShape(query[q]) /\ ColumnsRead(query[q])
      BY DEF DashboardIInv, ReportsIInv
    <2>3. ColumnsRead(p) /\ {"stage", "todo"} \subseteq DOMAIN p /\ p.stage = query[q].stage /\ p.todo = query[q].todo
      BY <2>2 DEF ColumnsRead, Columns, QueryShape
    <2>4. q \in fresh => ColumnsFresh([p EXCEPT !.todo = p.todo \ {"deposits"},
                           !.stage = IF p.todo = {"deposits"} THEN "answered" ELSE "dashboard"])
      BY <2>1, <2>2 DEF DashboardIInv, ColumnsFresh, ColumnsRead, Columns, QueryShape
    <2> HIDE DEF p
    <2> QED
      BY <1>1, <2>1, <2>3, <2>4, Question
  <1>8. ASSUME NEW q \in Queries, R!AskDesigns(q) PROVE DashboardIInv'
    <2> DEFINE p == [query[q] EXCEPT !.designs = {row \in R!InRange : row.status # "CANCELLED"}]
    <2>1. R!Answered(q, p, "designs") /\ query[q].stage = "dashboard"
      BY <1>8 DEF R!AskDesigns, R!Answered
    <2>2. QueryShape(query[q]) /\ ColumnsRead(query[q])
      BY DEF DashboardIInv, ReportsIInv
    <2>3. ColumnsRead(p) /\ {"stage", "todo"} \subseteq DOMAIN p /\ p.stage = query[q].stage /\ p.todo = query[q].todo
      BY <2>2 DEF ColumnsRead, Columns, QueryShape
    <2>4. q \in fresh => ColumnsFresh([p EXCEPT !.todo = p.todo \ {"designs"},
                           !.stage = IF p.todo = {"designs"} THEN "answered" ELSE "dashboard"])
      BY <2>1, <2>2 DEF DashboardIInv, ColumnsFresh, ColumnsRead, Columns, QueryShape
    <2> HIDE DEF p
    <2> QED
      BY <1>1, <2>1, <2>3, <2>4, Question
  <1>9. ASSUME NEW q \in Queries, R!AskCompleted(q) PROVE DashboardIInv'
    <2> DEFINE of == {row.client : row \in query[q].grouped}
               attended == {row \in R!Attended(R!InRange) : row.client \in of}
               p == [query[q] EXCEPT !.completed = attended]
    <2>1. R!Answered(q, p, "clients") /\ query[q].stage = "dashboard"
      BY <1>9 DEF R!AskCompleted, R!Answered
    <2>2. QueryShape(query[q]) /\ ColumnsRead(query[q])
      BY DEF DashboardIInv, ReportsIInv
    <2>3. IsFiniteSet(attended)
      BY TableFinite, FS_Subset DEF DashboardIInv, R!Attended
    <2>4. query[q].grouped = {} \/ query[q].grouped = FrequentRows => attended \subseteq query[q].grouped
      <3>1. CASE query[q].grouped = {}
        BY <3>1
      <3>2. CASE query[q].grouped = FrequentRows
        BY <3>2 DEF FrequentRows, R!Attended, R!FrequentRow
      <3> QED
        BY <3>1, <3>2
    <2> HIDE DEF attended
    <2>5. ColumnsRead(p) /\ {"stage", "todo"} \subseteq DOMAIN p /\ p.stage = query[q].stage /\ p.todo = query[q].todo
      BY <2>2, <2>3 DEF ColumnsRead, Columns, QueryShape
    <2>6. q \in fresh => ColumnsFresh([p EXCEPT !.todo = p.todo \ {"clients"},
                           !.stage = IF p.todo = {"clients"} THEN "answered" ELSE "dashboard"])
      BY <2>1, <2>2, <2>4 DEF DashboardIInv, ColumnsFresh, ColumnsRead, Columns, QueryShape
    <2> HIDE DEF p
    <2> QED
      BY <1>1, <2>1, <2>5, <2>6, Question
  <1>10. ASSUME NEW q \in Queries, R!AskClients(q) PROVE DashboardIInv'
    <2> DEFINE p == [query[q] EXCEPT !.grouped = FrequentRows]
    <2>1. /\ query[q].stage = "dashboard" /\ query[q].grouped = {}
          /\ query' = [query EXCEPT ![q] = p] /\ UNCHANGED <<reportAppt, log, fresh>>
      BY <1>10 DEF R!AskClients, R!Become, FrequentRows
    <2>2. QueryShape(query[q]) /\ ColumnsRead(query[q])
      BY DEF DashboardIInv, ReportsIInv
    <2>3. IsFiniteSet(FrequentRows)
      BY TableFinite, FS_Subset DEF DashboardIInv, FrequentRows
    <2>4. ColumnsRead(p)
      BY <2>2, <2>3 DEF ColumnsRead, Columns
    <2>5. q \in fresh => ColumnsFresh(p)
      BY <2>1, <2>2 DEF DashboardIInv, ColumnsFresh, ColumnsRead, Columns, QueryShape
    <2> HIDE DEF p
    <2> QED
      BY <1>1, <2>1, <2>4, <2>5, OneReads
  <1>11. ASSUME NEW q \in Queries, R!Close(q) PROVE DashboardIInv'
    <2>1. query' = [query EXCEPT ![q] = R!Idle] /\ fresh' = fresh \ {q} /\ UNCHANGED reportAppt
      BY <1>11 DEF R!Close, R!Become
    <2> QED
      BY <1>1, <2>1, IdleRead, OneReads
  <1> QED
    BY <1>2, <1>4, <1>5, <1>6, <1>7, <1>8, <1>9, <1>10, <1>11 DEF R!DashboardNext

\* The totals of counts and days, as sums of functions.
LEMMA CountsSummed ==
  ASSUME NEW rows,
         IsFiniteSet(R!Statuses), NEW w, \A c \in R!Statuses : w[c] = R!CountBy(rows)[c],
         NEW F, Summed(R!Statuses, w, F)
  PROVE  R!MapThenSumSet(LAMBDA s : R!CountBy(rows)[s], R!Statuses) = F[R!Statuses]
  <1> DEFINE S == R!Statuses
             e(c) == R!CountBy(rows)[c]
             Sums(G) == [s \in SUBSET S |-> IF s = {} THEN 0 ELSE e(Picked(s)) + G[s \ {Picked(s)}]]
             iter == CHOOSE G : G = Sums(G)
  <1>1. R!MapThenSumSet(LAMBDA s : R!CountBy(rows)[s], R!Statuses) = iter[S]
    BY DEF R!MapThenSumSet, R!MapThenFoldSet, Picked
  <1>2. \A s \in SUBSET S : s # {} => w[Picked(s)] = e(Picked(s))
    BY DEF Picked
  <1>3. \A G : Summed(S, w, G) <=> G = Sums(G)
    <2> HIDE DEF e, S
    <2> QED
      BY <1>2 DEF Summed
  <1>4. Summed(S, w, iter)
    <2> HIDE DEF Sums
    <2>1. F = Sums(F)
      BY <1>3
    <2>2. iter = Sums(iter)
      BY <2>1, Zenon
    <2> HIDE DEF iter
    <2> QED
      BY <1>3, <2>2
  <1> HIDE DEF iter
  <1> QED
    BY <1>1, <1>4, SumIsOne

LEMMA DaysSummed ==
  ASSUME NEW rows,
         IsFiniteSet(DOMAIN R!Daily(rows)), NEW w, \A c \in DOMAIN R!Daily(rows) : w[c] = R!Daily(rows)[c].total,
         NEW F, Summed(DOMAIN R!Daily(rows), w, F)
  PROVE  R!MapThenSumSet(LAMBDA d : R!Daily(rows)[d].total, DOMAIN R!Daily(rows)) = F[DOMAIN R!Daily(rows)]
  <1> DEFINE S == DOMAIN R!Daily(rows)
             e(c) == R!Daily(rows)[c].total
             Sums(G) == [s \in SUBSET S |-> IF s = {} THEN 0 ELSE e(Picked(s)) + G[s \ {Picked(s)}]]
             iter == CHOOSE G : G = Sums(G)
  <1>1. R!MapThenSumSet(LAMBDA d : R!Daily(rows)[d].total, DOMAIN R!Daily(rows)) = iter[S]
    BY DEF R!MapThenSumSet, R!MapThenFoldSet, Picked
  <1>2. \A s \in SUBSET S : s # {} => w[Picked(s)] = e(Picked(s))
    BY DEF Picked
  <1>3. \A G : Summed(S, w, G) <=> G = Sums(G)
    <2> HIDE DEF e, S
    <2> QED
      BY <1>2 DEF Summed
  <1>4. Summed(S, w, iter)
    <2> HIDE DEF Sums
    <2>1. F = Sums(F)
      BY <1>3
    <2>2. iter = Sums(iter)
      BY <2>1, Zenon
    <2> HIDE DEF iter
    <2> QED
      BY <1>3, <2>2
  <1> HIDE DEF iter
  <1> QED
    BY <1>1, <1>4, SumIsOne

LEMMA StatusesFinite == IsFiniteSet(R!Statuses)
  <1>1. IsFiniteSet({"HELD"})
    BY FS_Singleton
  <1>2. IsFiniteSet({"HELD"} \union {"CONFIRMED"})
    BY <1>1, FS_AddElement
  <1>3. IsFiniteSet({"HELD"} \union {"CONFIRMED"} \union {"COMPLETED"})
    BY <1>2, FS_AddElement
  <1>4. IsFiniteSet({"HELD"} \union {"CONFIRMED"} \union {"COMPLETED"} \union {"CANCELLED"})
    BY <1>3, FS_AddElement
  <1>5. {"HELD"} \union {"CONFIRMED"} \union {"COMPLETED"} \union {"CANCELLED"} = R!Statuses
    BY DEF R!Statuses
  <1> QED
    BY <1>4, <1>5

\* Every row has one status and, in the range, one day: both totals count it once.
LEMMA TotalsAgree ==
  ASSUME NEW rows, IsFiniteSet(rows), rows \subseteq RangeRows
  PROVE  /\ R!MapThenSumSet(LAMBDA s : R!CountBy(rows)[s], R!Statuses) = R!Number(rows)
         /\ R!MapThenSumSet(LAMBDA d : R!Daily(rows)[d].total, DOMAIN R!Daily(rows)) = R!Number(rows)
  <1> DEFINE status == [row \in rows |-> row.status]
             day == [row \in rows |-> row.day]
             counts == R!CountBy(rows)
             totals == [d \in R!DaysShown |-> Cardinality({row \in rows : row.day = d})]
  <1>1. R!Number(rows) = Cardinality(rows)
    BY ReportsCardinality DEF R!Number
  <1>2. \A row \in rows : row.status \in R!Statuses /\ row.day \in R!DaysShown
    BY StudioAssumption DEF RangeRows, R!Row, R!Within, R!Days, R!DaysShown
  <1>3. R!MapThenSumSet(LAMBDA s : R!CountBy(rows)[s], R!Statuses) = Cardinality(rows)
    <2>1. PICK F : Summed(R!Statuses, counts, F)
      BY StatusesFinite, SumIsThere
    <2>2. R!MapThenSumSet(LAMBDA s : R!CountBy(rows)[s], R!Statuses) = F[R!Statuses]
      BY <2>1, StatusesFinite, CountsSummed
    <2>3. \A s \in R!Statuses : counts[s] = Cardinality(ClassOf(rows, status, s))
      <3> SUFFICES ASSUME NEW s \in R!Statuses
                   PROVE  counts[s] = Cardinality(ClassOf(rows, status, s))
        OBVIOUS
      <3>1. counts[s] = Cardinality({row \in rows : row.status = s})
        BY ReportsCardinality DEF R!CountBy, R!Number, R!OfStatus
      <3>2. {row \in rows : row.status = s} = ClassOf(rows, status, s)
        BY DEF ClassOf
      <3> QED
        BY <3>1, <3>2
    <2> HIDE DEF counts
    <2>4. F[R!Statuses] = Cardinality(ClassesOf(rows, status, R!Statuses))
      <3> HIDE DEF status
      <3> QED
        BY <2>1, <2>3, StatusesFinite, SumOfClasses
    <2>5. ClassesOf(rows, status, R!Statuses) = rows
      BY <1>2 DEF ClassesOf
    <2> QED
      BY <2>2, <2>4, <2>5
  <1>4. R!MapThenSumSet(LAMBDA d : R!Daily(rows)[d].total, DOMAIN R!Daily(rows)) = Cardinality(rows)
    <2> DEFINE S == DOMAIN R!Daily(rows)
    <2>1. S = R!DaysShown /\ IsFiniteSet(S)
      BY StudioAssumption, FS_Interval DEF R!Daily, R!DaysShown
    <2>2. PICK F : Summed(S, totals, F)
      BY <2>1, SumIsThere
    <2>3. \A d \in S : totals[d] = R!Daily(rows)[d].total
      <3> SUFFICES ASSUME NEW d \in R!DaysShown PROVE totals[d] = R!Daily(rows)[d].total
        BY <2>1
      <3>1. R!Daily(rows)[d].total = R!Number({row \in rows : row.day = d})
        BY DEF R!Daily
      <3> QED
        BY <3>1, ReportsCardinality DEF R!Number
    <2>4. R!MapThenSumSet(LAMBDA d : R!Daily(rows)[d].total, DOMAIN R!Daily(rows)) = F[S]
      <3> HIDE DEF totals
      <3> QED
        BY <2>1, <2>2, <2>3, DaysSummed
    <2>5. \A d \in S : totals[d] = Cardinality(ClassOf(rows, day, d))
      <3> SUFFICES ASSUME NEW d \in R!DaysShown
                   PROVE  totals[d] = Cardinality(ClassOf(rows, day, d))
        BY <2>1
      <3>1. {row \in rows : row.day = d} = ClassOf(rows, day, d)
        BY DEF ClassOf
      <3> QED
        BY <3>1
    <2>6. F[S] = Cardinality(ClassesOf(rows, day, S))
      <3> HIDE DEF totals, day, S
      <3> QED
        BY <2>1, <2>2, <2>5, SumOfClasses
    <2>7. ClassesOf(rows, day, S) = rows
      BY <1>2, <2>1 DEF ClassesOf
    <2> QED
      BY <2>4, <2>6, <2>7
  <1> QED
    BY <1>1, <1>3, <1>4

LEMMA DashboardSafe == DashboardIInv => R!DashboardAgrees
  <1> SUFFICES ASSUME DashboardIInv, NEW q \in Queries, query[q].stage = "answered"
               PROVE  LET rows == query[q].rows
                      IN  /\ R!MapThenSumSet(LAMBDA s : R!CountBy(rows)[s], R!Statuses) = R!Number(rows)
                          /\ R!MapThenSumSet(LAMBDA d : R!Daily(rows)[d].total, DOMAIN R!Daily(rows))
                               = R!Number(rows)
                          /\ q \in fresh =>
                               /\ query[q].deposits \union query[q].designs \subseteq rows
                               /\ \A c \in ReportClients :
                                     R!CompletedInRange(q, c) <= R!AppointmentsInRange(q, c)
    BY DEF R!DashboardAgrees
  <1>1. ColumnsRead(query[q])
    BY DEF DashboardIInv
  <1>2. /\ R!MapThenSumSet(LAMBDA s : R!CountBy(query[q].rows)[s], R!Statuses) = R!Number(query[q].rows)
        /\ R!MapThenSumSet(LAMBDA d : R!Daily(query[q].rows)[d].total, DOMAIN R!Daily(query[q].rows))
             = R!Number(query[q].rows)
    BY <1>1, TotalsAgree DEF ColumnsRead
  <1>3. ASSUME q \in fresh PROVE query[q].deposits \union query[q].designs \subseteq query[q].rows
    BY <1>3 DEF DashboardIInv, ColumnsFresh
  <1>4. ASSUME q \in fresh, NEW c \in ReportClients
        PROVE  R!CompletedInRange(q, c) <= R!AppointmentsInRange(q, c)
    <2> DEFINE A == {row \in query[q].completed : row.client = c}
               B == {row \in query[q].grouped : row.client = c}
    <2>1. A \in SUBSET B
      BY <1>4 DEF DashboardIInv, ColumnsFresh
    <2>2. IsFiniteSet(B)
      BY <1>1, FS_Subset DEF ColumnsRead
    <2>3. Cardinality(A) <= Cardinality(B)
      <3> HIDE DEF A, B
      <3> QED
        BY <2>1, <2>2, FS_Subset
    <2> QED
      BY <2>3, ReportsCardinality DEF R!CompletedInRange, R!AppointmentsInRange, R!Number
  <1> QED
    BY <1>2, <1>3, <1>4

-----------------------------------------------------------------------------
(* The exported line, read back.                                           *)

Chars == TextPieces \union {"'", "quote", ","}

\* The sequences put together, one after the other.
LEMMA Flattens ==
  ASSUME NEW ss, Len(ss) \in Nat \ {0}
  PROVE  \E F : /\ R!FlattenSeq(ss) = F[Len(ss)] /\ F[1] = ss[1]
                /\ \A i \in 2..Len(ss) : F[i] = F[i - 1] \o ss[i]
  <1> DEFINE n == Len(ss)
             Step_(F, i) == IF i = 1 THEN ss[i] ELSE F[i - 1] \o ss[i]
             Steps(F) == [i \in 1..n |-> Step_(F, i)]
             flatten == CHOOSE F : F = Steps(F)
             T == {m \in Nat : \E F : \A i \in 1..m : F[i] = Step_(F, i)}
  <1>1. R!FlattenSeq(ss) = flatten[n]
    BY DEF R!FlattenSeq
  <1>2. ASSUME NEW m \in Nat, \A k \in Nat : k < m => k \in T PROVE m \in T
    <2>1. PICK G : m > 0 => \A i \in 1..(m - 1) : G[i] = Step_(G, i)
      <3>1. m > 0 => m - 1 \in T
        <4> HIDE DEF T
        <4> QED
          BY <1>2
      <3> QED
        BY <3>1
    <2> DEFINE F == [i \in 1..m |-> IF i < m THEN G[i] ELSE Step_(G, i)]
    <2>2. ASSUME NEW i \in 1..m PROVE F[i] = Step_(F, i)
      <3>1. i # 1 => F[i - 1] = G[i - 1]
        OBVIOUS
      <3>2. Step_(F, i) = Step_(G, i)
        BY <3>1
      <3>3. i < m => G[i] = Step_(G, i)
        BY <2>1
      <3> QED
        BY <3>2, <3>3
    <2> QED
      BY <2>2
  <1>3. T = Nat
    <2> HIDE DEF T
    <2>1. T \in SUBSET Nat
      BY DEF T
    <2> QED
      BY <1>2, <2>1, Inductive
  <1>4. PICK F : \A i \in 1..n : F[i] = Step_(F, i)
    BY <1>3
  <1> DEFINE J == [i \in 1..n |-> F[i]]
  <1>5. J = Steps(J)
    <2>1. \A i \in 1..n : J[i] = Step_(J, i)
      BY <1>4
    <2>2. J = [i \in 1..n |-> J[i]]
      OBVIOUS
    <2> HIDE DEF J, Step_
    <2> QED
      BY <2>1, <2>2
  <1>6. flatten = Steps(flatten)
    <2> HIDE DEF Steps, J
    <2> QED
      BY <1>5, Zenon
  <1>7. \A i \in 1..n : flatten[i] = Step_(flatten, i)
    <2> HIDE DEF flatten
    <2>1. \A i \in 1..n : flatten[i] = Steps(flatten)[i]
      BY <1>6
    <2> QED
      BY <2>1
  <1>8. \A i \in 2..n : flatten[i] = flatten[i - 1] \o ss[i]
    <2> HIDE DEF flatten
    <2> SUFFICES ASSUME NEW i \in 2..n PROVE flatten[i] = flatten[i - 1] \o ss[i]
      OBVIOUS
    <2>1. i \in 1..n /\ i # 1
      OBVIOUS
    <2> QED
      BY <1>7, <2>1
  <1>9. flatten[1] = ss[1]
    <2> HIDE DEF flatten
    <2>1. 1 \in 1..n
      OBVIOUS
    <2> QED
      BY <1>7, <2>1
  <1> HIDE DEF flatten, J, Steps, Step_, T
  <1> QED
    BY <1>1, <1>8, <1>9, Zenon

\* A line of two fields.
LEMMA TwoFields ==
  ASSUME NEW f, NEW g
  PROVE  R!Csv(<<f, g>>) = R!Escape(f) \o (<<",">> \o R!Escape(g))
  <1> DEFINE ss == [i \in DOMAIN <<f, g>> |->
                      IF i = 1 THEN R!Escape(<<f, g>>[i]) ELSE <<",">> \o R!Escape(<<f, g>>[i])]
  <1>1. Len(ss) = 2 /\ ss[1] = R!Escape(f) /\ ss[2] = <<",">> \o R!Escape(g)
    <2>1. DOMAIN <<f, g>> = 1..2 /\ <<f, g>>[1] = f /\ <<f, g>>[2] = g
      OBVIOUS
    <2> DEFINE e(i) == IF i = 1 THEN R!Escape(<<f, g>>[i]) ELSE <<",">> \o R!Escape(<<f, g>>[i])
    <2>2. ss = [i \in 1..2 |-> e(i)]
      BY <2>1, Zenon
    <2>3. ss = [i \in 1..2 |-> e(i)] => Len(ss) = 2 /\ ss[1] = e(1) /\ ss[2] = e(2)
      <3> HIDE DEF e, ss
      <3> QED
        OBVIOUS
    <2>4. e(1) = R!Escape(f) /\ e(2) = <<",">> \o R!Escape(g)
      <3>1. 2 # 1
        OBVIOUS
      <3> QED
        BY <2>1, <3>1, Zenon
    <2> HIDE DEF ss, e
    <2> QED
      BY <2>2, <2>3, <2>4
  <1>2. R!Csv(<<f, g>>) = R!FlattenSeq(ss)
    BY Zenon DEF R!Csv
  <1> HIDE DEF ss
  <1>3. PICK F : /\ R!FlattenSeq(ss) = F[Len(ss)] /\ F[1] = ss[1]
                 /\ \A i \in 2..Len(ss) : F[i] = F[i - 1] \o ss[i]
    <2>1. Len(ss) \in Nat \ {0}
      <3>1. 2 \in Nat \ {0}
        OBVIOUS
      <3> QED
        BY <1>1, <3>1, Zenon
    <2> QED
      BY <2>1, Flattens, Zenon
  <1>4. F[2] = F[1] \o ss[2]
    <2>1. 2 \in 2..2 /\ 2 - 1 = 1
      OBVIOUS
    <2>2. F[2] = F[2 - 1] \o ss[2]
      BY <2>1, <1>1, <1>3, Zenon
    <2> QED
      BY <2>1, <2>2, Zenon
  <1> QED
    BY <1>1, <1>2, <1>3, <1>4, Zenon

-----------------------------------------------------------------------------
(* What the reader does with a part of a line.                             *)

\* Where the reader is: in or out of quotes, after the fields h, in the field x.
At(inside, closed, h, x) == [inside |-> inside, closed |-> closed, fields |-> Append(h, x)]

\* s takes the reader from a to b.
Reads(a, s, b) ==
    \E T : T[0] = a /\ T[Len(s)] = b /\ \A k \in 1..Len(s) : T[k] = R!ReadChar(T[k - 1], s[k])

LEMMA ReadOne ==
  ASSUME NEW h \in Seq(Seq(Chars)), NEW x \in Seq(Chars), NEW c \in Chars,
         NEW i \in BOOLEAN, NEW d \in BOOLEAN
  PROVE  LET to == R!ReadChar(At(i, d, h, x), c)
         IN  /\ c # "quote" /\ (i \/ c # ",") => to = At(i, d, h, Append(x, c))
             /\ c = "," /\ ~i => to = At(FALSE, FALSE, Append(h, x), <<>>)
             /\ c = "quote" /\ i => to = At(FALSE, TRUE, h, x)
             /\ c = "quote" /\ ~i /\ d => to = At(TRUE, FALSE, h, Append(x, c))
             /\ c = "quote" /\ ~i /\ ~d => to = At(TRUE, d, h, x)
  <1>1. R!Front(Append(h, x)) = h
    <2>1. Len(Append(h, x)) = Len(h) + 1 /\ Append(h, x) \in Seq(Seq(Chars)) /\ Len(h) \in Nat
      OBVIOUS
    <2> DEFINE b == Append(h, x)
    <2>2. \A j \in 1..Len(h) : b[j] = h[j] /\ b[j] \in Seq(Chars)
      OBVIOUS
    <2>3. R!Front(b) = SubSeq(b, 1, Len(h))
      BY <2>1 DEF R!Front
    <2> HIDE DEF b
    <2>4. /\ SubSeq(b, 1, Len(h)) \in Seq(Seq(Chars))
          /\ Len(SubSeq(b, 1, Len(h))) = Len(h)
          /\ \A j \in 1..Len(h) : SubSeq(b, 1, Len(h))[j] = b[j]
      BY <2>1, <2>2, SubSeqProperties
    <2>5. SubSeq(b, 1, Len(h)) = h
      BY <2>2, <2>4, SeqEqual
    <2> QED
      BY <2>3, <2>5 DEF b
  <1>2. R!Last(Append(h, x)) = x
    BY DEF R!Last
  <1>3. At(i, d, h, x).fields = Append(h, x) /\ At(i, d, h, x).inside = i /\ At(i, d, h, x).closed = d
    BY DEF At
  <1>4. c # "quote" /\ (i \/ c # ",") => R!ReadChar(At(i, d, h, x), c) = At(i, d, h, Append(x, c))
    BY <1>1, <1>2 DEF At, R!ReadChar
  <1>5. c = "," /\ ~i => R!ReadChar(At(i, d, h, x), c) = At(FALSE, FALSE, Append(h, x), <<>>)
    BY DEF At, R!ReadChar
  <1>6. c = "quote" /\ i => R!ReadChar(At(i, d, h, x), c) = At(FALSE, TRUE, h, x)
    BY DEF At, R!ReadChar
  <1>7. c = "quote" /\ ~i /\ d => R!ReadChar(At(i, d, h, x), c) = At(TRUE, FALSE, h, Append(x, c))
    BY <1>1, <1>2 DEF At, R!ReadChar
  <1>8. c = "quote" /\ ~i /\ ~d => R!ReadChar(At(i, d, h, x), c) = At(TRUE, d, h, x)
    BY DEF At, R!ReadChar
  <1> QED
    BY <1>4, <1>5, <1>6, <1>7, <1>8

\* One character, no character, and one part after another.
LEMMA ReadsOne ==
  ASSUME NEW a, NEW c
  PROVE  Reads(a, <<c>>, R!ReadChar(a, c)) /\ Reads(a, <<>>, a)
  <1> DEFINE T == [k \in 0..1 |-> IF k = 0 THEN a ELSE R!ReadChar(a, c)]
  <1>1. T[0] = a /\ T[1] = R!ReadChar(a, c) /\ Len(<<c>>) = 1 /\ <<c>>[1] = c
    OBVIOUS
  <1>2. Len(<<>>) = 0
    OBVIOUS
  <1> HIDE DEF T
  <1>3. \A k \in 1..Len(<<c>>) : T[k] = R!ReadChar(T[k - 1], <<c>>[k])
    BY <1>1
  <1>4. Reads(a, <<c>>, R!ReadChar(a, c))
    BY <1>1, <1>3, Zenon DEF Reads
  <1>5. Reads(a, <<>>, a)
    BY <1>1, <1>2 DEF Reads
  <1> QED
    BY <1>4, <1>5

LEMMA ReadsOn ==
  ASSUME NEW a, NEW b, NEW c, NEW s \in Seq(Chars), NEW t \in Seq(Chars),
         Reads(a, s, b), Reads(b, t, c)
  PROVE  Reads(a, s \o t, c)
  <1>1. PICK T : T[0] = a /\ T[Len(s)] = b /\ \A k \in 1..Len(s) : T[k] = R!ReadChar(T[k - 1], s[k])
    BY DEF Reads
  <1>2. PICK U : U[0] = b /\ U[Len(t)] = c /\ \A k \in 1..Len(t) : U[k] = R!ReadChar(U[k - 1], t[k])
    BY DEF Reads
  <1>3. /\ Len(s) \in Nat /\ Len(t) \in Nat /\ Len(s \o t) = Len(s) + Len(t)
        /\ \A k \in 1..Len(s) : (s \o t)[k] = s[k]
        /\ \A k \in (Len(s) + 1)..(Len(s) + Len(t)) : (s \o t)[k] = t[k - Len(s)]
    BY ConcatProperties
  <1> DEFINE V == [k \in 0..(Len(s) + Len(t)) |-> IF k <= Len(s) THEN T[k] ELSE U[k - Len(s)]]
  <1>4. V[0] = a /\ V[Len(s \o t)] = c
    <2>1. V[0] = T[0] /\ V[Len(s \o t)] = IF Len(t) = 0 THEN T[Len(s)] ELSE U[Len(t)]
      BY <1>3
    <2> HIDE DEF V
    <2> QED
      BY <2>1, <1>1, <1>2
  <1>5. ASSUME NEW k \in 1..Len(s \o t) PROVE V[k] = R!ReadChar(V[k - 1], (s \o t)[k])
    <2>1. CASE k <= Len(s)
      <3>1. V[k] = T[k] /\ V[k - 1] = T[k - 1] /\ (s \o t)[k] = s[k] /\ k \in 1..Len(s)
        BY <2>1, <1>3
      <3> HIDE DEF V
      <3> QED
        BY <3>1, <1>1
    <2>2. CASE k > Len(s)
      <3> DEFINE j == k - Len(s)
      <3>1. j \in 1..Len(t) /\ V[k] = U[j] /\ (s \o t)[k] = t[j]
        BY <2>2, <1>3
      <3>2. V[k - 1] = U[j - 1]
        <4>1. CASE j = 1
          BY <4>1, <1>1, <1>2, <1>3
        <4>2. CASE j # 1
          BY <4>2, <2>2, <1>3
        <4> QED
          BY <4>1, <4>2
      <3> HIDE DEF V, j
      <3> QED
        BY <3>1, <3>2, <1>2
    <2> QED
      BY <2>1, <2>2, <1>3
  <1> HIDE DEF V
  <1> QED
    BY <1>4, <1>5 DEF Reads

\* A text is read a character after another.
LEMMA Prefixes ==
  ASSUME NEW t \in Seq(Chars), NEW k \in 1..Len(t)
  PROVE  /\ SubSeq(t, 1, k - 1) \in Seq(Chars) /\ t[k] \in Chars
         /\ Append(SubSeq(t, 1, k - 1), t[k]) = SubSeq(t, 1, k)
         /\ k - 1 \in 0..Len(t) /\ k \in 0..Len(t)
  <1>1. Len(t) \in Nat /\ 1 \in 1..Len(t) /\ k \in 1..Len(t) /\ t[k] \in Chars
    OBVIOUS
  <1>2. SubSeq(t, 1, k) = SubSeq(t, 1, k - 1) \o <<t[k]>>
    BY <1>1, SubSeqRecursiveSecond
  <1>3. SubSeq(t, 1, k - 1) \in Seq(Chars)
    <2>1. \A i \in 1..(k - 1) : t[i] \in Chars
      BY <1>1
    <2> QED
      BY <1>1, <2>1, SubSeqProperties
  <1>4. Append(SubSeq(t, 1, k - 1), t[k]) = SubSeq(t, 1, k - 1) \o <<t[k]>>
    BY <1>1, <1>3, AppendIsConcat
  <1>5. k - 1 \in 0..Len(t) /\ k \in 0..Len(t)
    OBVIOUS
  <1> QED
    BY <1>1, <1>2, <1>3, <1>4, <1>5

LEMMA Ends ==
  ASSUME NEW t \in Seq(Chars)
  PROVE  Len(t) \in Nat /\ SubSeq(t, 1, 0) = <<>> /\ SubSeq(t, 1, Len(t)) = t
         /\ 0 \in 0..Len(t) /\ Len(t) \in 0..Len(t)
  <1>1. Len(t) \in Nat /\ 0 \in 0..Len(t) /\ Len(t) \in 0..Len(t)
    OBVIOUS
  <1>2. SubSeq(t, 1, 0) = <<>>
    BY SubSeqEmpty
  <1>3. SubSeq(t, 1, Len(t)) = t
    BY SubSeqFull
  <1> QED
    BY <1>1, <1>2, <1>3

\* A text without quotes or commas is read as it is.
LEMMA ReadsPlain ==
  ASSUME NEW h \in Seq(Seq(Chars)), NEW t \in Seq(Chars),
         \A k \in 1..Len(t) : t[k] \notin {"quote", ","}
  PROVE  Reads(At(FALSE, FALSE, h, <<>>), t, At(FALSE, FALSE, h, t))
  <1> DEFINE at(x) == At(FALSE, FALSE, h, x)
             V == [k \in 0..Len(t) |-> at(SubSeq(t, 1, k))]
  <1>1. Len(t) \in Nat /\ SubSeq(t, 1, 0) = <<>> /\ SubSeq(t, 1, Len(t)) = t
    BY Ends
  <1>4. \A j \in 0..Len(t) : V[j] = at(SubSeq(t, 1, j))
    <2> HIDE DEF at
    <2> QED
      BY Zenon
  <1>2. V[0] = at(<<>>) /\ V[Len(t)] = at(t)
    <2>1. 0 \in 0..Len(t) /\ Len(t) \in 0..Len(t)
      BY Ends, Zenon
    <2> HIDE DEF at, V
    <2> QED
      BY <1>1, <1>4, <2>1, Zenon
  <1>3. ASSUME NEW k \in 1..Len(t) PROVE V[k] = R!ReadChar(V[k - 1], t[k])
    <2> DEFINE x == SubSeq(t, 1, k - 1)
    <2>1. x \in Seq(Chars) /\ Append(x, t[k]) = SubSeq(t, 1, k) /\ t[k] \in Chars
      BY Prefixes
    <2>2. V[k - 1] = at(x) /\ V[k] = at(SubSeq(t, 1, k))
      <3>1. k - 1 \in 0..Len(t) /\ k \in 0..Len(t)
        BY Prefixes, Zenon
      <3> HIDE DEF at, V
      <3> QED
        BY <1>4, <3>1, Zenon
    <2>3. t[k] # "quote" /\ t[k] # ","
      OBVIOUS
    <2> HIDE DEF V, x
    <2>4. R!ReadChar(at(x), t[k]) = at(Append(x, t[k]))
      BY <2>1, <2>3, ReadOne
    <2> HIDE DEF at
    <2> QED
      BY <2>1, <2>2, <2>4
  <1> HIDE DEF V
  <1> QED
    BY <1>2, <1>3, Zenon DEF Reads, at

\* Between quotes, a text with its quotes doubled is read as it was.
LEMMA ReadsDoubled ==
  ASSUME NEW h \in Seq(Seq(Chars)), NEW t \in Seq(Chars)
  PROVE  /\ R!Doubled(t) \in Seq(Chars)
         /\ Reads(At(TRUE, FALSE, h, <<>>), R!Doubled(t), At(TRUE, FALSE, h, t))
  <1> DEFINE n == Len(t)
             q == <<"quote", "quote">>
             ss == [i \in DOMAIN t |-> IF t[i] = "quote" THEN <<"quote", "quote">> ELSE <<t[i]>>]
             in(x) == At(TRUE, FALSE, h, x)
             Good(s, i) == s \in Seq(Chars) /\ Reads(in(<<>>), s, in(SubSeq(t, 1, i)))
  <1>1. R!Doubled(t) = R!FlattenSeq(ss)
    BY Zenon DEF R!Doubled
  <1>2. n \in Nat /\ Len(ss) = n
    <2>1. DOMAIN t = 1..n /\ n \in Nat
      OBVIOUS
    <2> QED
      BY <2>1
  <1>3. ASSUME NEW i \in 1..n, NEW x \in Seq(Chars)
        PROVE  ss[i] \in Seq(Chars) /\ Reads(in(x), ss[i], in(Append(x, t[i])))
    <2>1. t[i] \in Chars /\ "quote" \in Chars /\ <<"quote">> \in Seq(Chars) /\ <<t[i]>> \in Seq(Chars)
      <3>1. t[i] \in Chars /\ "quote" \in Chars
        <4>1. "quote" \in Chars
          BY DEF Chars
        <4> QED
          BY <4>1
      <3> QED
        BY <3>1
    <2>2. CASE t[i] = "quote"
      <3>1. ss[i] = <<"quote">> \o <<"quote">>
        <4>1. ss[i] = q
          BY <2>2
        <4>2. q = <<"quote">> \o <<"quote">>
          OBVIOUS
        <4> QED
          BY <4>1, <4>2, Zenon
      <3>2. R!ReadChar(in(x), "quote") = At(FALSE, TRUE, h, x)
        BY <2>1, ReadOne
      <3>3. R!ReadChar(At(FALSE, TRUE, h, x), "quote") = in(Append(x, "quote"))
        BY <2>1, ReadOne
      <3>4. Reads(in(x), <<"quote">>, At(FALSE, TRUE, h, x))
        BY <3>2, ReadsOne, Zenon
      <3>5. Reads(At(FALSE, TRUE, h, x), <<"quote">>, in(Append(x, "quote")))
        BY <3>3, ReadsOne, Zenon
      <3> HIDE DEF ss, in
      <3>6. Reads(in(x), <<"quote">> \o <<"quote">>, in(Append(x, "quote")))
        BY <3>4, <3>5, <2>1, ReadsOn
      <3>7. <<"quote">> \o <<"quote">> \in Seq(Chars)
        BY <2>1
      <3> QED
        BY <3>1, <3>6, <3>7, <2>2, Zenon
    <2>3. CASE t[i] # "quote"
      <3>1. ss[i] = <<t[i]>>
        BY <2>3
      <3>2. R!ReadChar(in(x), t[i]) = in(Append(x, t[i]))
        BY <2>1, <2>3, ReadOne
      <3> HIDE DEF ss, in
      <3> QED
        BY <3>1, <3>2, <2>1, ReadsOne, Zenon
    <2> QED
      BY <2>2, <2>3
  <1>4. SubSeq(t, 1, 0) = <<>> /\ SubSeq(t, 1, n) = t
    BY Ends
  <1>5. CASE n = 0
    <2>1. R!FlattenSeq(ss) = ss
      BY <1>2, <1>5 DEF R!FlattenSeq
    <2>2. ss = <<>> /\ t = <<>>
      BY <1>2, <1>5
    <2>3. <<>> \in Seq(Chars) /\ Reads(in(<<>>), <<>>, in(<<>>))
      <3>1. <<>> \in Seq(Chars)
        OBVIOUS
      <3>2. Reads(in(<<>>), <<>>, in(<<>>))
        BY ReadsOne, Zenon
      <3> QED
        BY <3>1, <3>2, Zenon
    <2> HIDE DEF ss, in
    <2> QED
      BY <1>1, <2>1, <2>2, <2>3 DEF in
  <1>6. CASE n # 0
    <2>1. Len(ss) \in Nat \ {0}
      BY <1>2, <1>6
    <2>2. PICK F : /\ R!FlattenSeq(ss) = F[Len(ss)] /\ F[1] = ss[1]
                   /\ \A i \in 2..Len(ss) : F[i] = F[i - 1] \o ss[i]
      <3> HIDE DEF ss
      <3> QED
        BY <2>1, Flattens, Zenon
    <2> DEFINE T == {m \in Nat : m \in 1..n => Good(F[m], m)}
    <2>3. ASSUME NEW m \in Nat, \A k \in Nat : k < m => k \in T PROVE m \in T
      <3> SUFFICES ASSUME m \in 1..n PROVE Good(F[m], m)
        OBVIOUS
      <3>1. /\ SubSeq(t, 1, m - 1) \in Seq(Chars)
            /\ Append(SubSeq(t, 1, m - 1), t[m]) = SubSeq(t, 1, m)
        BY Prefixes
      <3>2. ss[m] \in Seq(Chars) /\ Reads(in(SubSeq(t, 1, m - 1)), ss[m], in(SubSeq(t, 1, m)))
        <4> HIDE DEF ss, in
        <4> QED
          BY <1>3, <3>1
      <3>3. CASE m = 1
        <4>1. SubSeq(t, 1, m - 1) = <<>>
          BY <1>4, <3>3
        <4> HIDE DEF ss, in
        <4> QED
          BY <3>2, <3>3, <4>1, <2>2
      <3>4. CASE m # 1
        <4>1. m - 1 \in Nat /\ m - 1 < m /\ m - 1 \in 1..n
          BY <3>4
        <4>2. m - 1 \in T
          <5> HIDE DEF T
          <5> QED
            BY <2>3, <4>1
        <4>3. Good(F[m - 1], m - 1)
          BY <4>1, <4>2
        <4>4. F[m] = F[m - 1] \o ss[m]
          <5>1. m \in 2..Len(ss)
            BY <3>4, <1>2
          <5> HIDE DEF ss
          <5> QED
            BY <5>1, <2>2
        <4> HIDE DEF ss, in
        <4>5. Reads(in(<<>>), F[m - 1] \o ss[m], in(SubSeq(t, 1, m)))
          BY <4>3, <3>2, ReadsOn
        <4>6. F[m - 1] \o ss[m] \in Seq(Chars)
          BY <4>3, <3>2, ConcatProperties
        <4> QED
          BY <4>4, <4>5, <4>6, Zenon
      <3> QED
        BY <3>3, <3>4
    <2>4. T = Nat
      <3> HIDE DEF T
      <3>1. T \in SUBSET Nat
        BY DEF T
      <3> QED
        BY <2>3, <3>1, Inductive
    <2>5. Good(F[n], n)
      <3>1. n \in Nat /\ n \in 1..n
        BY <1>2, <1>6
      <3>2. n \in T
        <4> HIDE DEF T
        <4> QED
          BY <2>4, <3>1
      <3> QED
        BY <3>1, <3>2, Zenon
    <2> HIDE DEF ss, in
    <2> QED
      BY <1>1, <1>2, <1>4, <2>2, <2>5 DEF in
  <1> QED
    BY <1>5, <1>6

\* A field, quoted if it must be, is read as the text that was kept.
LEMMA ReadsField ==
  ASSUME NEW h \in Seq(Seq(Chars)), NEW f, R!Kept(f) \in Seq(Chars)
  PROVE  /\ R!Escape(f) \in Seq(Chars)
         /\ \E d \in BOOLEAN :
              Reads(At(FALSE, FALSE, h, <<>>), R!Escape(f), At(FALSE, d, h, R!Kept(f)))
  <1> DEFINE t == R!Kept(f)
             special == \E c \in R!Special : R!Contains(t, c)
             x == R!Doubled(t)
  <1>1. R!Escape(f) = IF special THEN R!Quoted(t) ELSE t
    BY Zenon DEF R!Escape
  <1>2. CASE ~special
    <2>1. \A k \in 1..Len(t) : t[k] \notin {"quote", ","}
      BY <1>2, Zenon DEF R!Contains, R!Special
    <2> HIDE DEF t
    <2>2. t \in Seq(Chars)
      BY DEF t
    <2>3. Reads(At(FALSE, FALSE, h, <<>>), t, At(FALSE, FALSE, h, t))
      BY <2>1, <2>2, ReadsPlain
    <2>4. FALSE \in BOOLEAN
      OBVIOUS
    <2> QED
      BY <1>1, <1>2, <2>2, <2>3, <2>4, Zenon DEF t
  <1>3. CASE special
    <2> HIDE DEF t
    <2>1. t \in Seq(Chars)
      BY DEF t
    <2>2. /\ x \in Seq(Chars)
          /\ Reads(At(TRUE, FALSE, h, <<>>), x, At(TRUE, FALSE, h, t))
      BY <2>1, ReadsDoubled
    <2>3. "quote" \in Chars
      BY DEF Chars
    <2>4. <<>> \in Seq(Chars) /\ <<"quote">> \in Seq(Chars)
      BY <2>3
    <2>5. R!ReadChar(At(FALSE, FALSE, h, <<>>), "quote") = At(TRUE, FALSE, h, <<>>)
      BY <2>3, <2>4, ReadOne
    <2>6. R!ReadChar(At(TRUE, FALSE, h, t), "quote") = At(FALSE, TRUE, h, t)
      BY <2>1, <2>3, ReadOne
    <2> HIDE DEF x
    <2>7. Reads(At(FALSE, FALSE, h, <<>>), <<"quote">>, At(TRUE, FALSE, h, <<>>))
      BY <2>5, ReadsOne, Zenon
    <2>8. Reads(At(TRUE, FALSE, h, t), <<"quote">>, At(FALSE, TRUE, h, t))
      BY <2>6, ReadsOne, Zenon
    <2>9. /\ <<"quote">> \o x \in Seq(Chars)
          /\ Reads(At(FALSE, FALSE, h, <<>>), <<"quote">> \o x, At(TRUE, FALSE, h, t))
      BY <2>2, <2>4, <2>7, ReadsOn, ConcatProperties, Zenon
    <2>10. /\ (<<"quote">> \o x) \o <<"quote">> \in Seq(Chars)
           /\ Reads(At(FALSE, FALSE, h, <<>>), (<<"quote">> \o x) \o <<"quote">>,
                    At(FALSE, TRUE, h, t))
      BY <2>4, <2>8, <2>9, ReadsOn, ConcatProperties, Zenon
    <2>11. R!Quoted(t) = (<<"quote">> \o x) \o <<"quote">>
      BY Zenon DEF R!Quoted, x
    <2>12. TRUE \in BOOLEAN
      OBVIOUS
    <2> QED
      BY <1>1, <1>3, <2>10, <2>11, <2>12, Zenon DEF t
  <1> QED
    BY <1>2, <1>3, Zenon

LEMMA ReadComma ==
  ASSUME NEW h \in Seq(Seq(Chars)), NEW x \in Seq(Chars), NEW d \in BOOLEAN
  PROVE  R!ReadChar(At(FALSE, d, h, x), ",") = At(FALSE, FALSE, Append(h, x), <<>>)
  BY DEF At, R!ReadChar

LEMMA Small ==
  /\ "," \in Chars /\ <<",">> \in Seq(Chars)
  /\ \A s, t : Append(<<s>>, t) = <<s, t>>
  <1>1. "," \in Chars
    BY DEF Chars
  <1>2. \A c \in Chars : <<c>> \in Seq(Chars)
    OBVIOUS
  <1>3. ASSUME NEW s, NEW t PROVE Append(<<s>>, t) = <<s, t>>
    <2> DEFINE a == <<s>>
               b == <<s, t>>
               S == {s, t}
    <2>1. a \in Seq(S) /\ Len(a) = 1 /\ a[1] = s /\ t \in S
      OBVIOUS
    <2>2. b \in Seq(S) /\ Len(b) = 2 /\ b[1] = s /\ b[2] = t
      OBVIOUS
    <2> HIDE DEF a, b, S
    <2>3. /\ Append(a, t) \in Seq(S) /\ Len(Append(a, t)) = 2
          /\ Append(a, t)[1] = s /\ Append(a, t)[2] = t
      <3>1. /\ Append(a, t) \in Seq(S) /\ Len(Append(a, t)) = Len(a) + 1
            /\ \A i \in 1..Len(a) : Append(a, t)[i] = a[i]
            /\ Append(a, t)[Len(a) + 1] = t
        <4>1. a \in Seq(S) /\ t \in S
          BY <2>1, Zenon
        <4> QED
          BY <4>1, AppendProperties
      <3>2. 1 \in 1..1 /\ 1 + 1 = 2
        OBVIOUS
      <3> QED
        BY <2>1, <3>1, <3>2, Zenon
    <2>4. Append(a, t) = b
      BY <2>2, <2>3, SeqEqual
    <2> QED
      BY <2>4 DEF a, b
  <1> QED
    BY <1>1, <1>2, <1>3, Zenon

\* A line of two fields, from its start.
LEMMA ReadsLine ==
  ASSUME NEW f, R!Kept(f) \in Seq(Chars), NEW g, R!Kept(g) \in Seq(Chars)
  PROVE  /\ R!Csv(<<f, g>>) \in Seq(Chars)
         /\ \E d \in BOOLEAN : Reads(At(FALSE, FALSE, <<>>, <<>>), R!Csv(<<f, g>>),
                                     At(FALSE, d, <<R!Kept(f)>>, R!Kept(g)))
  <1> DEFINE s == R!Kept(f)
             t == R!Kept(g)
             h == <<s>>
             ef == R!Escape(f)
             eg == R!Escape(g)
  <1>1. <<>> \in Seq(Seq(Chars)) /\ <<>> \in Seq(Chars)
    OBVIOUS
  <1>2. h \in Seq(Seq(Chars)) /\ Append(<<>>, s) = h
    OBVIOUS
  <1>4. <<",">> \in Seq(Chars)
    BY Small, Zenon
  <1>5. /\ ef \in Seq(Chars)
        /\ \E d \in BOOLEAN : Reads(At(FALSE, FALSE, <<>>, <<>>), ef, At(FALSE, d, <<>>, s))
    BY <1>1, ReadsField
  <1>6. PICK d \in BOOLEAN : Reads(At(FALSE, FALSE, <<>>, <<>>), ef, At(FALSE, d, <<>>, s))
    BY <1>5
  <1>7. /\ eg \in Seq(Chars)
        /\ \E e \in BOOLEAN : Reads(At(FALSE, FALSE, h, <<>>), eg, At(FALSE, e, h, t))
    <2> HIDE DEF h
    <2> QED
      BY <1>2, ReadsField
  <1>8. PICK e \in BOOLEAN : Reads(At(FALSE, FALSE, h, <<>>), eg, At(FALSE, e, h, t))
    BY <1>7
  <1>9. R!ReadChar(At(FALSE, d, <<>>, s), ",") = At(FALSE, FALSE, h, <<>>)
    <2>1. FALSE \in BOOLEAN /\ s \in Seq(Chars)
      OBVIOUS
    <2> HIDE DEF h, s
    <2>2. R!ReadChar(At(FALSE, d, <<>>, s), ",") = At(FALSE, FALSE, Append(<<>>, s), <<>>)
      BY <1>1, <2>1, ReadComma
    <2> QED
      BY <1>2, <2>2
  <1> HIDE DEF s, t, h, ef, eg
  <1>10. Reads(At(FALSE, d, <<>>, s), <<",">>, At(FALSE, FALSE, h, <<>>))
    BY <1>9, ReadsOne, Zenon
  <1>11. /\ <<",">> \o eg \in Seq(Chars)
         /\ Reads(At(FALSE, d, <<>>, s), <<",">> \o eg, At(FALSE, e, h, t))
    BY <1>4, <1>7, <1>8, <1>10, ReadsOn, ConcatProperties, Zenon
  <1>12. /\ ef \o (<<",">> \o eg) \in Seq(Chars)
         /\ Reads(At(FALSE, FALSE, <<>>, <<>>), ef \o (<<",">> \o eg), At(FALSE, e, h, t))
    BY <1>5, <1>6, <1>11, ReadsOn, ConcatProperties, Zenon
  <1> QED
    BY <1>8, <1>12, TwoFields, Zenon DEF s, t, h, ef, eg

-----------------------------------------------------------------------------
(* The reader is a fold.                                                   *)

Start == [inside |-> FALSE, closed |-> FALSE, fields |-> <<<<>>>>]

LEMMA Greatest ==
  ASSUME NEW n \in Nat, NEW s \in SUBSET (1..n), s # {}
  PROVE  R!Max(s) \in s /\ \A y \in s : R!Max(s) >= y
  <1> DEFINE T == {k \in Nat : n - k \in s}
  <1>1. T # {}
    <2>1. PICK x \in s : TRUE
      OBVIOUS
    <2>2. n - x \in Nat /\ n - (n - x) = x
      BY <2>1
    <2> QED
      BY <2>1, <2>2
  <1>2. PICK k \in T : \A m \in T : k <= m
    <2>1. T \in SUBSET Nat
      OBVIOUS
    <2> HIDE DEF T
    <2> QED
      BY <1>1, <2>1, Least
  <1>3. n - k \in s
    BY <1>2
  <1>4. ASSUME NEW y \in s PROVE n - k >= y
    <2>1. n - y \in Nat /\ n - (n - y) = y
      OBVIOUS
    <2>2. n - y \in T
      BY <2>1
    <2>3. k <= n - y
      BY <2>2, <1>2
    <2> QED
      BY <2>3, <1>2
  <1>5. \E x \in s : \A y \in s : x >= y
    BY <1>3, <1>4
  <1> QED
    BY <1>5 DEF R!Max

\* One step of the fold over a line.
Read(line, F, s) ==
    IF s = {} THEN Start ELSE R!ReadChar(F[s \ {R!Max(s)}], line[R!Max(s)])

LEMMA ReaderIsThere ==
  ASSUME NEW n \in Nat, NEW line
  PROVE  \E F : F = [s \in SUBSET (1..n) |-> Read(line, F, s)]
  <1> DEFINE T == {m \in Nat : \E F : \A s \in SUBSET (1..m) : F[s] = Read(line, F, s)}
  <1>1. ASSUME NEW m \in Nat, \A k \in Nat : k < m => k \in T PROVE m \in T
    <2>1. PICK G : m > 0 => \A s \in SUBSET (1..(m - 1)) : G[s] = Read(line, G, s)
      <3>1. m > 0 => m - 1 \in T
        <4> HIDE DEF T
        <4> QED
          BY <1>1
      <3> QED
        BY <3>1
    <2> DEFINE F == [s \in SUBSET (1..m) |-> IF m \in s THEN Read(line, G, s)
                                             ELSE IF s = {} THEN Start ELSE G[s]]
    <2>2. ASSUME NEW s \in SUBSET (1..m) PROVE F[s] = Read(line, F, s)
      <3>1. CASE s = {}
        BY <3>1 DEF Read
      <3>2. CASE s # {}
        <4> DEFINE x == R!Max(s)
                   r == s \ {x}
        <4>1. x \in s /\ \A y \in s : x >= y
          BY <3>2, Greatest
        <4> HIDE DEF x
        <4>2. x \in 1..m /\ r \in SUBSET (1..(m - 1)) /\ r \in SUBSET (1..m) /\ m \notin r /\ m > 0
          BY <4>1
        <4>3. F[r] = IF r = {} THEN Start ELSE G[r]
          BY <4>2
        <4>4. G[{}] = Start
          <5>1. {} \in SUBSET (1..(m - 1))
            OBVIOUS
          <5>2. Read(line, G, {}) = Start
            BY DEF Read
          <5> QED
            BY <5>1, <5>2, <4>2, <2>1
        <4>5. F[r] = G[r]
          <5> HIDE DEF F, r
          <5> QED
            BY <4>3, <4>4
        <4>6. Read(line, F, s) = Read(line, G, s)
          <5> HIDE DEF F
          <5> QED
            BY <4>5, <3>2 DEF Read, x
        <4>7. m \notin s => G[s] = Read(line, G, s)
          <5>1. m \notin s => s \in SUBSET (1..(m - 1))
            OBVIOUS
          <5> QED
            BY <5>1, <2>1, <4>2
        <4>8. F[s] = IF m \in s THEN Read(line, G, s) ELSE G[s]
          BY <3>2
        <4> HIDE DEF F
        <4> QED
          BY <4>6, <4>7, <4>8
      <3> QED
        BY <3>1, <3>2
    <2> QED
      BY <2>2
  <1>2. T = Nat
    <2> HIDE DEF T
    <2>1. T \in SUBSET Nat
      BY DEF T
    <2> QED
      BY <1>1, <2>1, Inductive
  <1>3. PICK F : \A s \in SUBSET (1..n) : F[s] = Read(line, F, s)
    BY <1>2
  <1> DEFINE J == [s \in SUBSET (1..n) |-> F[s]]
  <1>4. ASSUME NEW s \in SUBSET (1..n) PROVE J[s] = Read(line, J, s)
    <2>1. s \ {R!Max(s)} \in SUBSET (1..n)
      OBVIOUS
    <2>2. J[s \ {R!Max(s)}] = F[s \ {R!Max(s)}] /\ J[s] = F[s]
      BY <2>1
    <2>3. Read(line, J, s) = Read(line, F, s)
      BY <2>2, Zenon DEF Read
    <2> HIDE DEF J
    <2> QED
      BY <2>2, <2>3, <1>3
  <1>5. J = [s \in SUBSET (1..n) |-> J[s]]
    OBVIOUS
  <1> HIDE DEF J
  <1>6. J = [s \in SUBSET (1..n) |-> Read(line, J, s)]
    BY <1>4, <1>5
  <1> QED
    BY <1>6

\* Reading a line gives the fields of the state that it takes its start to.
LEMMA ReadsAll ==
  ASSUME NEW line \in Seq(Chars), NEW b, Reads(Start, line, b)
  PROVE  R!ReadFields(line) = b.fields
  <1> DEFINE n == Len(line)
             op(x, y) == R!ReadChar(y, x)
             Folded(F) == [s \in SUBSET (DOMAIN line) |->
                             IF s = {} THEN Start
                             ELSE R!ReadChar(F[s \ {R!Max(s)}], line[R!Max(s)])]
             iter == CHOOSE F : F = Folded(F)
  <1>1. R!ReadFields(line) = iter[DOMAIN line].fields
    BY DEF R!ReadFields, R!FoldLeft, R!MapThenFoldSet, Start
  <1>2. n \in Nat /\ DOMAIN line = 1..n
    OBVIOUS
  <1>3. iter = Folded(iter)
    <2>1. PICK F : F = [s \in SUBSET (1..n) |-> Read(line, F, s)]
      BY <1>2, ReaderIsThere
    <2>2. F = Folded(F)
      BY <2>1, <1>2, Zenon DEF Read
    <2> HIDE DEF Folded
    <2> QED
      BY <2>2, Zenon
  <1>4. \A s \in SUBSET (1..n) : iter[s] = Read(line, iter, s)
    <2> HIDE DEF iter
    <2>1. \A s \in SUBSET (1..n) : iter[s] = Folded(iter)[s]
      BY <1>3
    <2>2. \A s \in SUBSET (1..n) : Folded(iter)[s] = Read(line, iter, s)
      BY <1>2 DEF Read
    <2> HIDE DEF Folded
    <2> QED
      BY <2>1, <2>2
  <1> HIDE DEF iter
  <1>5. PICK V : /\ V[0] = Start /\ V[n] = b
                 /\ \A k \in 1..n : V[k] = R!ReadChar(V[k - 1], line[k])
    BY DEF Reads
  <1> DEFINE T == {m \in Nat : m <= n => iter[1..m] = V[m]}
  <1>6. ASSUME NEW m \in Nat, \A k \in Nat : k < m => k \in T PROVE m \in T
    <2> SUFFICES ASSUME m <= n PROVE iter[1..m] = V[m]
      OBVIOUS
    <2>1. 1..m \in SUBSET (1..n)
      BY <1>2
    <2>2. iter[1..m] = Read(line, iter, 1..m)
      <3> HIDE DEF n
      <3> QED
        BY <1>4, <2>1
    <2>3. CASE m = 0
      <3>1. 1..m = {}
        BY <2>3
      <3>2. iter[1..m] = Start
        BY <3>1, <2>2 DEF Read
      <3> QED
        BY <3>2, <2>3, <1>5
    <2>4. CASE m # 0
      <3>1. 1..m # {} /\ m - 1 \in Nat /\ m - 1 < m /\ m \in 1..n
        <4> HIDE DEF n, T
        <4>1. m \in 1..n
          BY <2>4, <1>2
        <4> QED
          BY <2>4, <4>1
      <3>2. R!Max(1..m) = m
        <4>1. R!Max(1..m) \in 1..m /\ \A y \in 1..m : R!Max(1..m) >= y
          BY <3>1, Greatest
        <4> HIDE DEF n
        <4> QED
          BY <4>1, <3>1
      <3>3. (1..m) \ {m} = 1..(m - 1)
        OBVIOUS
      <3>4. iter[1..(m - 1)] = V[m - 1]
        <4>1. m - 1 \in T
          <5> HIDE DEF T
          <5> QED
            BY <3>1, <1>6
        <4> QED
          BY <4>1, <3>1, <1>2
      <3>5. iter[1..m] = R!ReadChar(iter[(1..m) \ {m}], line[m])
        BY <2>2, <3>1, <3>2 DEF Read
      <3> HIDE DEF n
      <3> QED
        BY <3>1, <3>3, <3>4, <3>5, <1>5
    <2> QED
      BY <2>3, <2>4
  <1>7. T = Nat
    <2> HIDE DEF T
    <2>1. T \in SUBSET Nat
      BY DEF T
    <2> QED
      BY <1>6, <2>1, Inductive
  <1>8. iter[1..n] = b
    <2>1. n \in T /\ n <= n
      BY <1>2, <1>7
    <2> QED
      BY <2>1, <1>5
  <1> QED
    BY <1>1, <1>2, <1>8

\* A line made of two texts, of whatever length and of whatever characters, reads
\* back as the two, those that begin a formula behind an apostrophe.
THEOREM LinesReadBack ==
  ASSUME NEW f \in Seq(TextPieces), NEW g \in Seq(TextPieces)
  PROVE  R!ReadFields(R!Csv(<<f, g>>)) = <<R!Kept(f), R!Kept(g)>>
  <1>1. ASSUME NEW t \in Seq(TextPieces) PROVE R!Kept(t) \in Seq(Chars)
    <2>3. TextPieces \subseteq Chars /\ "'" \in Chars
      BY DEF Chars
    <2>4. t \in Seq(Chars)
      BY <2>3
    <2>5. <<"'">> \in Seq(Chars)
      BY <2>3
    <2>6. <<"'">> \o t \in Seq(Chars)
      BY <2>4, <2>5
    <2> QED
      BY <2>4, <2>6 DEF R!Kept
  <1> DEFINE s == R!Kept(f)
             t == R!Kept(g)
             line == R!Csv(<<f, g>>)
  <1>2. s \in Seq(Chars) /\ t \in Seq(Chars)
    BY <1>1
  <1>3. /\ line \in Seq(Chars)
        /\ \E d \in BOOLEAN : Reads(At(FALSE, FALSE, <<>>, <<>>), line, At(FALSE, d, <<s>>, t))
    BY <1>2, ReadsLine
  <1> HIDE DEF s, t, line
  <1>4. PICK d \in BOOLEAN : Reads(At(FALSE, FALSE, <<>>, <<>>), line, At(FALSE, d, <<s>>, t))
    BY <1>3
  <1>5. At(FALSE, FALSE, <<>>, <<>>) = Start
    <2>1. Append(<<>>, <<>>) = <<<<>>>>
      OBVIOUS
    <2> QED
      BY <2>1, Zenon DEF At, Start
  <1>6. R!ReadFields(line) = At(FALSE, d, <<s>>, t).fields
    BY <1>3, <1>4, <1>5, ReadsAll
  <1>7. At(FALSE, d, <<s>>, t).fields = Append(<<s>>, t)
    BY DEF At
  <1>8. Append(<<s>>, t) = <<s, t>>
    BY Small, Zenon
  <1> QED
    BY <1>6, <1>7, <1>8, Zenon DEF s, t, line

LEMMA ExportSafe == R!ExportReadsBack
  <1>1. ASSUME NEW t \in R!Texts PROVE t \in Seq(TextPieces)
    <2>1. PICK m \in 0..2 : t \in [1..m -> TextPieces]
      BY DEF R!Texts, R!SeqOf
    <2> QED
      BY <2>1
  <1> QED
    BY <1>1, LinesReadBack DEF R!ExportReadsBack

-----------------------------------------------------------------------------
(* The calculator: the page sends one technique, no length without its own *)
(* and no more than a limit; who fills the table first fills it whole.     *)

\* The codes of the first options of the list.
FirstCodes(m) == {C!Seeds[k].code : k \in 1..m}

OptionRow(c, row) == row.kind = C!SeedOf(c).kind /\ row.parent = C!SeedOf(c).parent /\ row.max \in 1..2

OptionsTyped ==
    /\ DOMAIN options \subseteq C!Codes /\ saves \in 0..MaxSaves
    /\ \A c \in DOMAIN options : options[c] \in {C!Fresh(c)} \union C!Edits(c)

BootTyped ==
    /\ boot \in [Instances -> [stage : {"down", "seeding", "up"}, made : 0..4]]
    /\ \A i \in Instances : boot[i].stage = "seeding" => boot[i].made < 4

\* One technique at most, and every length with its own.
ShapeOf(chosen) ==
    /\ \A c, d \in chosen : C!SeedOf(c).kind = "TECHNIQUE" /\ C!SeedOf(d).kind = "TECHNIQUE" => c = d
    /\ \A c \in chosen : C!SeedOf(c).kind = "LENGTH" =>
          C!SeedOf(c).parent \in chosen /\ C!SeedOf(C!SeedOf(c).parent).kind = "TECHNIQUE"

HasTechnique(chosen) == \E c \in chosen : C!SeedOf(c).kind = "TECHNIQUE"

PageTyped(p) ==
    /\ {"stage", "shown", "quantities", "noDesign"} \subseteq DOMAIN p
    /\ p.stage \in {"loading", "editing", "posting", "uploading", "sent"}
    /\ DOMAIN p.shown \subseteq C!Codes /\ \A c \in DOMAIN p.shown : OptionRow(c, p.shown[c])
    /\ p.quantities \in [C!Codes -> 0..2] /\ p.noDesign \in BOOLEAN
    /\ \A c \in C!Codes : p.quantities[c] > 0 =>
          c \in DOMAIN p.shown /\ p.stage # "loading" /\ p.quantities[c] <= p.shown[c].max
    /\ ShapeOf({c \in C!Codes : p.quantities[c] > 0})

QuoteTyped ==
    /\ quotes \in 0..MaxQuotes
    /\ IF quotes = 0 THEN quote = None
       ELSE /\ DOMAIN quote.selection \subseteq C!Codes /\ ShapeOf(DOMAIN quote.selection)
            /\ DOMAIN quote.selection = {} \/ HasTechnique(DOMAIN quote.selection)

\* Only one of the instances that fill the table gets past its first option.
Seeding ==
    ~cut =>
       \/ /\ DOMAIN options = {}
          /\ \A i \in Instances : boot[i].stage # "up" /\ (boot[i].stage = "seeding" => boot[i].made = 0)
       \/ \E i \in Instances :
             /\ boot[i].stage = "seeding" /\ boot[i].made > 0 /\ DOMAIN options = FirstCodes(boot[i].made)
             /\ \A j \in Instances \ {i} : boot[j].stage = "seeding" => boot[j].made = 0
       \/ /\ DOMAIN options = C!Codes
          /\ \A i \in Instances : boot[i].stage = "seeding" => boot[i].made = 0

\* What the button lets through.
Sendable(p) == p.noDesign \/ HasTechnique({c \in C!Codes : p.quantities[c] > 0})

\* A page that is to send again after it sent has lost an answer.
Sending ==
    /\ page.stage = "posting" => quotes < MaxQuotes /\ Sendable(page)
    /\ ~repeated => quotes <= 1
    /\ ~repeated /\ page.stage \in {"loading", "editing", "posting"} => quotes = 0

CalculatorIInv ==
    /\ OptionsTyped /\ BootTyped /\ PageTyped(page) /\ QuoteTyped
    /\ cut \in BOOLEAN /\ repeated \in BOOLEAN
    /\ Seeding /\ Sending

LEMMA CalculatorConstants == MaxSaves \in Nat /\ MaxQuotes \in Nat
  BY StudioAssumption

LEMMA SeedList ==
  /\ Len(C!Seeds) = 4 /\ C!Codes = FirstCodes(4)
  /\ C!Seeds[1].code = "gel" /\ C!Seeds[2].code = "acrylic"
  /\ C!Seeds[3].code = "stones" /\ C!Seeds[4].code = "long"
  <1>1. Len(C!Seeds) = 4
    BY DEF C!Seeds
  <1>2. C!Codes = FirstCodes(4)
    BY <1>1 DEF C!Codes, FirstCodes
  <1>3. /\ C!Seeds[1].code = "gel" /\ C!Seeds[2].code = "acrylic"
        /\ C!Seeds[3].code = "stones" /\ C!Seeds[4].code = "long"
    BY DEF C!Seeds
  <1> QED
    BY <1>1, <1>2, <1>3

LEMMA SeedNext ==
  ASSUME NEW m \in 0..3
  PROVE  /\ C!Seeds[m + 1].code \in C!Codes /\ C!Seeds[m + 1].code \notin FirstCodes(m)
         /\ FirstCodes(m + 1) = FirstCodes(m) \union {C!Seeds[m + 1].code}
         /\ m > 0 => C!Seeds[1].code \in FirstCodes(m)
         /\ FirstCodes(0) = {}
  <1>1. C!Seeds[m + 1].code \in C!Codes
    BY SeedList DEF FirstCodes
  <1>2. C!Seeds[m + 1].code \notin FirstCodes(m)
    <2>1. CASE m = 0
      BY <2>1 DEF FirstCodes
    <2>2. CASE m = 1
      BY <2>2, SeedList DEF FirstCodes
    <2>3. CASE m = 2
      BY <2>3, SeedList DEF FirstCodes
    <2>4. CASE m = 3
      BY <2>4, SeedList DEF FirstCodes
    <2> QED
      BY <2>1, <2>2, <2>3, <2>4
  <1>3. FirstCodes(m + 1) = FirstCodes(m) \union {C!Seeds[m + 1].code}
    <2>1. 1..(m + 1) = 1..m \union {m + 1}
      OBVIOUS
    <2> QED
      BY <2>1 DEF FirstCodes
  <1>4. (m > 0 => C!Seeds[1].code \in FirstCodes(m)) /\ FirstCodes(0) = {}
    BY DEF FirstCodes
  <1> QED
    BY <1>1, <1>2, <1>3, <1>4

LEMMA SeedTyped ==
  ASSUME NEW c \in C!Codes
  PROVE  /\ {"kind", "parent", "price", "max"} \subseteq DOMAIN C!SeedOf(c) /\ C!SeedOf(c).max \in 1..2
         /\ C!SeedOf(c).kind \in {"TECHNIQUE", "DECORATION", "LENGTH"}
  <1>1. PICK k \in 1..4 : C!SeedOf(c) = C!Seeds[k]
    BY SeedList DEF C!Codes, C!SeedOf
  <1>2. C!SeedOf(c) \in {C!Seeds[1], C!Seeds[2], C!Seeds[3], C!Seeds[4]}
    BY <1>1
  <1>3. \A s \in {C!Seeds[1], C!Seeds[2], C!Seeds[3], C!Seeds[4]} :
           /\ {"kind", "parent", "price", "max"} \subseteq DOMAIN s /\ s.max \in 1..2
           /\ s.kind \in {"TECHNIQUE", "DECORATION", "LENGTH"}
    BY DEF C!Seeds
  <1> QED
    BY <1>2, <1>3

LEMMA RowTyped ==
  ASSUME NEW c \in C!Codes, NEW o \in {C!Fresh(c)} \union C!Edits(c)
  PROVE  OptionRow(c, o.row)
  BY SeedTyped DEF C!Fresh, C!Edits, OptionRow

LEMMA CalculatorInit == C!Init => CalculatorIInv
  <1> SUFFICES ASSUME C!Init PROVE CalculatorIInv
    OBVIOUS
  <1>1. /\ DOMAIN options = {} /\ boot = [i \in Instances |-> [stage |-> "down", made |-> 0]]
        /\ saves = 0 /\ quote = None /\ quotes = 0 /\ cut = FALSE /\ repeated = FALSE
        /\ page = [stage |-> "loading", shown |-> <<>>, quantities |-> C!Nothing, noDesign |-> FALSE]
    BY DEF C!Init
  <1>2. OptionsTyped /\ QuoteTyped
    BY <1>1, CalculatorConstants DEF OptionsTyped, QuoteTyped
  <1>3. BootTyped
    BY <1>1 DEF BootTyped
  <1>4. PageTyped(page)
    BY <1>1 DEF PageTyped, C!Nothing, ShapeOf
  <1>5. Seeding /\ Sending
    BY <1>1 DEF Seeding, Sending
  <1> QED
    BY <1>1, <1>2, <1>3, <1>4, <1>5 DEF CalculatorIInv

-----------------------------------------------------------------------------

LEMMA CountStep ==
  ASSUME CalculatorIInv, NEW i \in Instances, C!Count(i) PROVE CalculatorIInv'
  <1> DEFINE st == IF C!Counted THEN "up" ELSE "seeding"
  <1>1. /\ boot[i].stage = "down" /\ boot' = [boot EXCEPT ![i] = [stage |-> st, made |-> 0]]
        /\ UNCHANGED <<options, saves, page, quote, quotes, cut, repeated>>
    BY DEF C!Count, C!Boots
  <1>2. BootTyped' /\ boot'[i] = [stage |-> st, made |-> 0]
        /\ \A j \in Instances \ {i} : boot'[j] = boot[j]
    BY <1>1 DEF CalculatorIInv, BootTyped
  <1>3. Seeding'
    BY <1>1, <1>2 DEF CalculatorIInv, Seeding, C!Counted
  <1>4. OptionsTyped' /\ PageTyped(page)' /\ QuoteTyped' /\ Sending'
    BY <1>1 DEF CalculatorIInv, OptionsTyped, PageTyped, QuoteTyped, Sending, OptionRow, Sendable, HasTechnique
  <1> QED
    BY <1>1, <1>2, <1>3, <1>4 DEF CalculatorIInv

LEMMA CreateSeedStep ==
  ASSUME CalculatorIInv, NEW i \in Instances, C!CreateSeed(i) PROVE CalculatorIInv'
  <1> DEFINE m == boot[i].made
             c == C!Seeds[m + 1].code
  <1>1. /\ boot[i].stage = "seeding" /\ UNCHANGED <<saves, page, quote, quotes, cut, repeated>>
        /\ \/ /\ c \in DOMAIN options
              /\ boot' = [boot EXCEPT ![i] = [stage |-> "down", made |-> 0]] /\ UNCHANGED options
           \/ /\ c \notin DOMAIN options
              /\ options' = [x \in DOMAIN options \union {c} |-> IF x = c THEN C!Fresh(c) ELSE options[x]]
              /\ boot' = [boot EXCEPT ![i] = [stage |-> IF m + 1 = 4 THEN "up" ELSE "seeding",
                                              made |-> m + 1]]
    BY SeedList DEF C!CreateSeed, C!Boots
  <1>2. m \in 0..3 /\ cut \in BOOLEAN /\ cut' = cut
    BY <1>1 DEF CalculatorIInv, BootTyped
  <1>3. /\ c \in C!Codes /\ c \notin FirstCodes(m) /\ FirstCodes(m + 1) = FirstCodes(m) \union {c}
        /\ m > 0 => C!Seeds[1].code \in FirstCodes(m)
        /\ FirstCodes(0) = {}
    BY <1>2, SeedNext
  <1>4. PageTyped(page)' /\ QuoteTyped' /\ Sending'
    BY <1>1 DEF CalculatorIInv, PageTyped, QuoteTyped, Sending, OptionRow, Sendable, HasTechnique
  <1>5. CASE /\ c \in DOMAIN options
             /\ boot' = [boot EXCEPT ![i] = [stage |-> "down", made |-> 0]] /\ UNCHANGED options
    <2>1. BootTyped' /\ boot'[i].stage = "down" /\ \A j \in Instances \ {i} : boot'[j] = boot[j]
      BY <1>5 DEF CalculatorIInv, BootTyped
    <2>2. OptionsTyped'
      BY <1>1, <1>5 DEF CalculatorIInv, OptionsTyped
    <2>3. Seeding'
      BY <1>1, <1>2, <1>3, <1>5, <2>1 DEF CalculatorIInv, Seeding
    <2> QED
      BY <1>1, <1>2, <1>4, <2>1, <2>2, <2>3 DEF CalculatorIInv
  <1>6. CASE /\ c \notin DOMAIN options
             /\ options' = [x \in DOMAIN options \union {c} |-> IF x = c THEN C!Fresh(c) ELSE options[x]]
             /\ boot' = [boot EXCEPT ![i] = [stage |-> IF m + 1 = 4 THEN "up" ELSE "seeding", made |-> m + 1]]
    <2>1. /\ BootTyped' /\ \A j \in Instances \ {i} : boot'[j] = boot[j]
          /\ boot'[i].made = m + 1 /\ boot'[i].stage = IF m + 1 = 4 THEN "up" ELSE "seeding"
      BY <1>2, <1>6 DEF CalculatorIInv, BootTyped
    <2>2. OptionsTyped' /\ DOMAIN options' = DOMAIN options \union {c}
      BY <1>1, <1>3, <1>6 DEF CalculatorIInv, OptionsTyped
    <2>3. ASSUME ~cut
          PROVE  /\ DOMAIN options' = FirstCodes(m + 1)
                 /\ \A j \in Instances \ {i} : boot[j].stage = "seeding" => boot[j].made = 0
      <3>1. CASE DOMAIN options = {} /\ \A j \in Instances : boot[j].stage = "seeding" => boot[j].made = 0
        <4>1. m = 0
          BY <1>1, <3>1
        <4> QED
          BY <1>3, <2>2, <3>1, <4>1
      <3>2. ASSUME NEW k \in Instances, boot[k].stage = "seeding", boot[k].made > 0,
                   DOMAIN options = FirstCodes(boot[k].made),
                   \A j \in Instances \ {k} : boot[j].stage = "seeding" => boot[j].made = 0
            PROVE  /\ DOMAIN options' = FirstCodes(m + 1)
                   /\ \A j \in Instances \ {i} : boot[j].stage = "seeding" => boot[j].made = 0
        <4>1. CASE k = i
          BY <1>3, <2>2, <3>2, <4>1
        <4>2. CASE k # i
          <5>1. m = 0 /\ c = C!Seeds[1].code
            BY <1>1, <3>2, <4>2
          <5>2. boot[k].made \in 0..3
            BY <3>2 DEF CalculatorIInv, BootTyped
          <5>3. C!Seeds[1].code \in FirstCodes(boot[k].made)
            BY <3>2, <5>2, SeedNext
          <5> QED
            BY <1>6, <3>2, <5>1, <5>3
        <4> QED
          BY <4>1, <4>2
      <3>3. CASE DOMAIN options = C!Codes
        BY <1>3, <1>6, <3>3
      <3> QED
        BY <2>3, <3>1, <3>2, <3>3 DEF CalculatorIInv, Seeding
    <2>4. Seeding'
      <3> SUFFICES ASSUME ~cut PROVE Seeding'
        BY <1>2 DEF Seeding
      <3>1. CASE m + 1 = 4
        BY <2>1, <2>2, <2>3, <3>1, SeedList DEF Seeding
      <3>2. CASE m + 1 # 4
        <4>1. boot'[i].stage = "seeding" /\ boot'[i].made > 0 /\ DOMAIN options' = FirstCodes(boot'[i].made)
          BY <1>2, <2>1, <2>3, <3>2
        <4> QED
          BY <2>1, <2>3, <4>1 DEF Seeding, FirstCodes
      <3> QED
        BY <3>1, <3>2
    <2> QED
      BY <1>1, <1>2, <1>4, <2>1, <2>2, <2>4 DEF CalculatorIInv
  <1> QED
    BY <1>1, <1>5, <1>6

LEMMA CrashSeedingStep ==
  ASSUME CalculatorIInv, NEW i \in Instances, C!CrashSeeding(i) PROVE CalculatorIInv'
  <1>1. /\ boot[i].stage = "seeding" /\ boot' = [boot EXCEPT ![i] = [stage |-> "down", made |-> 0]]
        /\ cut' = (cut \/ boot[i].made > 0) /\ UNCHANGED <<options, saves, page, quote, quotes, repeated>>
    BY DEF C!CrashSeeding, C!Boots
  <1>2. BootTyped' /\ boot'[i].stage = "down" /\ \A j \in Instances \ {i} : boot'[j] = boot[j]
    BY <1>1 DEF CalculatorIInv, BootTyped
  <1>3. cut' \in BOOLEAN
    BY <1>1
  <1>4. Seeding'
    <2> SUFFICES ASSUME ~cut' PROVE Seeding'
      BY DEF Seeding
    <2>1. ~cut /\ ~(boot[i].made > 0) /\ options' = options
      BY <1>1
    <2>2. CASE DOMAIN options = {} \/ DOMAIN options = C!Codes
      BY <1>2, <2>1, <2>2 DEF CalculatorIInv, Seeding
    <2>3. ASSUME NEW k \in Instances, boot[k].stage = "seeding", boot[k].made > 0,
                 DOMAIN options = FirstCodes(boot[k].made),
                 \A j \in Instances \ {k} : boot[j].stage = "seeding" => boot[j].made = 0
          PROVE  Seeding'
      <3>1. k # i /\ boot'[k] = boot[k]
        BY <1>2, <2>1, <2>3
      <3>2. DOMAIN options' = FirstCodes(boot'[k].made)
        BY <2>1, <2>3, <3>1
      <3>3. \A j \in Instances \ {k} : boot'[j].stage = "seeding" => boot'[j].made = 0
        BY <1>2, <2>3
      <3> QED
        BY <2>3, <3>1, <3>2, <3>3 DEF Seeding, FirstCodes
    <2> QED
      BY <2>1, <2>2, <2>3 DEF CalculatorIInv, Seeding
  <1>5. OptionsTyped' /\ PageTyped(page)' /\ QuoteTyped' /\ Sending'
    BY <1>1 DEF CalculatorIInv, OptionsTyped, PageTyped, QuoteTyped, Sending, OptionRow, Sendable, HasTechnique
  <1> QED
    BY <1>1, <1>2, <1>3, <1>4, <1>5 DEF CalculatorIInv

LEMMA SaveOptionStep ==
  ASSUME CalculatorIInv, NEW c \in C!Codes, NEW saved \in C!Edits(c), C!SaveOption(c, saved)
  PROVE  CalculatorIInv'
  <1>1. /\ saves < MaxSaves /\ saves' = saves + 1 /\ cut' = (cut \/ c \notin DOMAIN options)
        /\ options' = [x \in DOMAIN options \union {c} |-> IF x = c THEN saved ELSE options[x]]
        /\ UNCHANGED <<boot, page, quote, quotes, repeated>>
    BY DEF C!SaveOption
  <1>2. DOMAIN options' = DOMAIN options \union {c} /\ cut' \in BOOLEAN
    BY <1>1
  <1>3. OptionsTyped'
    <2>1. saves' \in 0..MaxSaves
      BY <1>1, CalculatorConstants DEF CalculatorIInv, OptionsTyped
    <2> QED
      BY <1>1, <1>2, <2>1 DEF CalculatorIInv, OptionsTyped
  <1>4. Seeding'
    <2> SUFFICES ASSUME ~cut' PROVE Seeding'
      BY DEF Seeding
    <2>1. ~cut /\ c \in DOMAIN options /\ DOMAIN options' = DOMAIN options /\ boot' = boot
      BY <1>1, <1>2
    <2> QED
      BY <2>1 DEF CalculatorIInv, Seeding, FirstCodes
  <1>5. BootTyped' /\ PageTyped(page)' /\ QuoteTyped' /\ Sending'
    BY <1>1 DEF CalculatorIInv, BootTyped, PageTyped, QuoteTyped, Sending, OptionRow, Sendable, HasTechnique
  <1> QED
    BY <1>1, <1>2, <1>3, <1>4, <1>5 DEF CalculatorIInv

\* The page becomes p, and nothing else moves but a history.
LEMMA PageMoves ==
  ASSUME CalculatorIInv, NEW p, PageTyped(p), page' = p,
         UNCHANGED <<options, boot, saves, quote, quotes, cut>>, repeated' \in BOOLEAN, repeated => repeated',
         p.stage = "posting" => quotes < MaxQuotes /\ Sendable(p),
         ~repeated' /\ p.stage \in {"loading", "editing", "posting"} => quotes = 0
  PROVE  CalculatorIInv'
  <1>1. OptionsTyped' /\ BootTyped' /\ QuoteTyped' /\ Seeding'
    BY DEF CalculatorIInv, OptionsTyped, BootTyped, QuoteTyped, Seeding, FirstCodes, ShapeOf, HasTechnique
  <1>2. Sending'
    BY DEF CalculatorIInv, Sending, Sendable, HasTechnique
  <1>3. PageTyped(page)'
    BY DEF PageTyped, OptionRow, ShapeOf
  <1> QED
    BY <1>1, <1>2, <1>3 DEF CalculatorIInv

\* A page that only goes on to another stage.
LEMMA PageStages ==
  ASSUME NEW p, PageTyped(p), NEW st \in {"editing", "posting", "uploading", "sent"}
  PROVE  PageTyped([p EXCEPT !.stage = st]) /\ [p EXCEPT !.stage = st].stage = st
  BY DEF PageTyped

LEMMA ChosenTyped ==
  ASSUME PageTyped(page)
  PROVE  /\ C!Chosen = {c \in C!Codes : page.quantities[c] > 0} /\ C!Chosen \subseteq C!Codes
         /\ ShapeOf(C!Chosen)
  <1>1. C!Chosen = {c \in C!Codes : page.quantities[c] > 0}
    BY DEF PageTyped, C!Chosen
  <1> QED
    BY <1>1 DEF PageTyped

LEMMA LoadCalculatorStep ==
  ASSUME CalculatorIInv, C!LoadCalculator PROVE CalculatorIInv'
  <1> DEFINE shown == [c \in C!ActiveOptions |-> options[c].row]
             p == [page EXCEPT !.stage = "editing", !.shown = shown]
  <1>1. /\ page.stage = "loading" /\ page' = p
        /\ UNCHANGED <<options, boot, saves, quote, quotes, cut, repeated>>
    BY DEF C!LoadCalculator
  <1>2. DOMAIN shown \subseteq C!Codes /\ \A c \in DOMAIN shown : OptionRow(c, shown[c])
    BY RowTyped DEF CalculatorIInv, OptionsTyped, C!ActiveOptions
  <1> HIDE DEF shown
  <1>3. PageTyped(p) /\ p.stage = "editing"
    <2>1. PageTyped(page) /\ \A c \in C!Codes : ~(page.quantities[c] > 0)
      BY <1>1 DEF CalculatorIInv, PageTyped
    <2> QED
      BY <1>2, <2>1 DEF PageTyped, ShapeOf
  <1> HIDE DEF p
  <1> QED
    BY <1>1, <1>3, PageMoves DEF CalculatorIInv, Sending

LEMMA StageStep ==
  ASSUME CalculatorIInv, NEW st \in {"editing", "posting", "uploading", "sent"},
         page' = [page EXCEPT !.stage = st],
         UNCHANGED <<options, boot, saves, quote, quotes, cut>>, repeated' \in BOOLEAN, repeated => repeated',
         st = "posting" => quotes < MaxQuotes /\ Sendable(page),
         ~repeated' /\ st \in {"editing", "posting"} => quotes = 0
  PROVE  CalculatorIInv'
  <1> DEFINE p == [page EXCEPT !.stage = st]
  <1>1. PageTyped(p) /\ p.stage = st
    BY PageStages DEF CalculatorIInv
  <1>2. Sendable(page) => Sendable(p)
    BY DEF CalculatorIInv, PageTyped, Sendable
  <1> HIDE DEF p
  <1> QED
    BY <1>1, <1>2, PageMoves DEF p

LEMMA SubmitStep ==
  ASSUME CalculatorIInv, C!Submit PROVE CalculatorIInv'
  <1>1. /\ page.stage = "editing" /\ quotes < MaxQuotes /\ page' = [page EXCEPT !.stage = "posting"]
        /\ UNCHANGED <<options, boot, saves, quote, quotes, cut, repeated>>
    BY DEF C!Submit
  <1>2. Sendable(page)
    <2>1. C!SendEnabled /\ PageTyped(page)
      BY DEF C!Submit, CalculatorIInv
    <2>2. ASSUME NEW c \in C!Technique
          PROVE  c \in C!Codes /\ page.quantities[c] > 0 /\ C!SeedOf(c).kind = "TECHNIQUE"
      BY <2>1 DEF C!Technique, C!Chosen, C!OfKind, PageTyped, OptionRow
    <2> QED
      BY <2>1, <2>2 DEF C!SendEnabled, Sendable, HasTechnique
  <1> QED
    BY <1>1, <1>2, StageStep DEF CalculatorIInv, Sending

LEMMA ShowSentStep ==
  ASSUME CalculatorIInv, C!ShowSent PROVE CalculatorIInv'
  BY StageStep DEF C!ShowSent, CalculatorIInv

LEMMA ShowErrorStep ==
  ASSUME CalculatorIInv, C!ShowError PROVE CalculatorIInv'
  <1>1. /\ page.stage \in {"posting", "uploading"} /\ page' = [page EXCEPT !.stage = "editing"]
        /\ repeated' = (repeated \/ page.stage = "uploading")
        /\ UNCHANGED <<options, boot, saves, quote, quotes, cut>>
    BY DEF C!ShowError
  <1>2. ~repeated' => quotes = 0
    BY <1>1 DEF CalculatorIInv, Sending
  <1> QED
    BY <1>1, <1>2, StageStep DEF CalculatorIInv

LEMMA NoDesignStep ==
  ASSUME CalculatorIInv, C!NoDesign PROVE CalculatorIInv'
  <1> DEFINE p == [page EXCEPT !.noDesign = TRUE, !.quantities = C!Nothing]
  <1>1. /\ page.stage = "editing" /\ page' = p
        /\ UNCHANGED <<options, boot, saves, quote, quotes, cut, repeated>>
    BY DEF C!NoDesign
  <1>2. PageTyped(p) /\ p.stage = "editing"
    BY <1>1 DEF CalculatorIInv, PageTyped, C!Nothing, ShapeOf
  <1> HIDE DEF p
  <1> QED
    BY <1>1, <1>2, PageMoves DEF CalculatorIInv, Sending

LEMMA CreateQuoteStep ==
  ASSUME CalculatorIInv, C!CreateQuote PROVE CalculatorIInv'
  <1>1. page.stage = "posting" /\ UNCHANGED <<options, boot, saves, cut, repeated>>
    BY DEF C!CreateQuote
  <1>2. CASE page' = [page EXCEPT !.stage = "editing"] /\ UNCHANGED <<quote, quotes>>
    BY <1>1, <1>2, StageStep DEF CalculatorIInv, Sending
  <1>3. CASE /\ quote' = C!Quote(C!Selection) /\ quotes' = quotes + 1
             /\ page' = [page EXCEPT !.stage = "uploading"]
    <2>1. /\ DOMAIN C!Selection \subseteq C!Codes /\ ShapeOf(DOMAIN C!Selection)
          /\ DOMAIN C!Selection = {} \/ HasTechnique(DOMAIN C!Selection)
      <3>1. IF page.noDesign THEN DOMAIN C!Selection = {} ELSE DOMAIN C!Selection = C!Chosen
        BY DEF C!Selection
      <3>2. PageTyped(page) /\ Sendable(page)
        BY <1>1 DEF CalculatorIInv, Sending
      <3>3. ~page.noDesign => HasTechnique(C!Chosen)
        BY <3>2, ChosenTyped DEF Sendable
      <3> QED
        BY <3>1, <3>2, <3>3, ChosenTyped DEF ShapeOf
    <2>2. quote'.selection = C!Selection
      BY <1>3 DEF C!Quote
    <2>3. quotes \in 0..MaxQuotes /\ quotes < MaxQuotes
      BY <1>1 DEF CalculatorIInv, QuoteTyped, Sending
    <2>4. quotes' \in 0..MaxQuotes /\ quotes' > 0 /\ quotes' # 0
      BY <1>3, <2>3, CalculatorConstants
    <2>5. DOMAIN quote'.selection = DOMAIN C!Selection
      BY <2>2
    <2>6. QuoteTyped'
      BY <2>1, <2>4, <2>5 DEF QuoteTyped, ShapeOf, HasTechnique
    <2>7. PageTyped(page)' /\ page'.stage = "uploading"
      <3>1. PageTyped([page EXCEPT !.stage = "uploading"]) /\ [page EXCEPT !.stage = "uploading"].stage = "uploading"
        BY PageStages DEF CalculatorIInv
      <3> QED
        BY <1>3, <3>1 DEF PageTyped, OptionRow, ShapeOf
    <2>8. Sending'
      <3>1. ~repeated => quotes = 0
        BY <1>1 DEF CalculatorIInv, Sending
      <3> QED
        BY <1>1, <1>3, <2>3, <2>7, <3>1 DEF Sending
    <2>9. OptionsTyped' /\ BootTyped' /\ Seeding' /\ cut' \in BOOLEAN /\ repeated' \in BOOLEAN
      BY <1>1 DEF CalculatorIInv, OptionsTyped, BootTyped, Seeding, FirstCodes
    <2> QED
      BY <2>6, <2>7, <2>8, <2>9 DEF CalculatorIInv
  <1> QED
    BY <1>2, <1>3 DEF C!CreateQuote

\* What a tile chooses replaces: never two techniques, nor a length alone.
LEMMA SetQuantityStep ==
  ASSUME CalculatorIInv, NEW c \in C!Codes, NEW n \in -1..3, C!SetQuantity(c, n) PROVE CalculatorIInv'
  <1> DEFINE cleared == C!OfKind(C!Replaced(page.shown[c].kind))
             qs == [x \in C!Codes |-> IF x = c THEN C!Clamped(c, n)
                                     ELSE IF x \in cleared THEN 0 ELSE page.quantities[x]]
             p == [page EXCEPT !.noDesign = FALSE, !.quantities = qs]
  <1>1. /\ page.stage = "editing" /\ c \in C!VisibleOptions /\ page' = p
        /\ UNCHANGED <<options, boot, saves, quote, quotes, cut, repeated>>
    BY DEF C!SetQuantity
  <1>2. PageTyped(page)
    BY DEF CalculatorIInv
  <1>3. \A x \in DOMAIN page.shown : page.shown[x].kind = C!SeedOf(x).kind /\ page.shown[x].parent = C!SeedOf(x).parent
    BY <1>2 DEF PageTyped, OptionRow
  <1>4. c \in DOMAIN page.shown /\ C!Clamped(c, n) \in 0..2
    <2>1. c \in DOMAIN page.shown
      BY <1>1 DEF C!VisibleOptions
    <2>2. page.shown[c].max \in 1..2
      BY <1>2, <2>1 DEF PageTyped, OptionRow
    <2>3. n \in Int
      OBVIOUS
    <2> QED
      BY <2>1, <2>2, <2>3 DEF C!Clamped
  <1>5. qs \in [C!Codes -> 0..2]
    BY <1>2, <1>4 DEF PageTyped
  <1>6. \A x \in C!Codes : qs[x] > 0 => x \in DOMAIN page.shown /\ qs[x] <= page.shown[x].max
    <2>1. C!Clamped(c, n) <= page.shown[c].max
      BY <1>2, <1>4 DEF C!Clamped, PageTyped, OptionRow
    <2> QED
      BY <1>2, <1>4, <2>1 DEF PageTyped
  <1>7. ShapeOf({x \in C!Codes : qs[x] > 0})
    <2>1. ASSUME NEW x \in C!Codes, qs[x] > 0
          PROVE  x = c \/ (x # c /\ page.quantities[x] > 0 /\ x \notin cleared)
      BY <2>1
    <2> HIDE DEF qs
    <2>2. \A x \in DOMAIN page.shown :
             x \in cleared <=> C!SeedOf(x).kind \in C!Replaced(C!SeedOf(c).kind)
      BY <1>3, <1>4 DEF C!OfKind
    <2>3. ASSUME NEW x \in C!Codes, NEW y \in C!Codes, qs[x] > 0, qs[y] > 0,
                 C!SeedOf(x).kind = "TECHNIQUE", C!SeedOf(y).kind = "TECHNIQUE"
          PROVE  x = y
      <3>1. x \in DOMAIN page.shown /\ y \in DOMAIN page.shown
        BY <1>6, <2>3
      <3>2. CASE C!SeedOf(c).kind = "TECHNIQUE"
        BY <2>1, <2>2, <2>3, <3>1, <3>2 DEF C!Replaced
      <3>3. CASE C!SeedOf(c).kind # "TECHNIQUE"
        BY <1>2, <2>1, <2>3, <3>3 DEF PageTyped, ShapeOf
      <3> QED
        BY <3>2, <3>3
    <2>4. ASSUME NEW x \in C!Codes, qs[x] > 0, C!SeedOf(x).kind = "LENGTH"
          PROVE  /\ C!SeedOf(x).parent \in C!Codes /\ qs[C!SeedOf(x).parent] > 0
                 /\ C!SeedOf(C!SeedOf(x).parent).kind = "TECHNIQUE"
      <3> DEFINE u == C!SeedOf(x).parent
      <3>1. x \in DOMAIN page.shown
        BY <1>6, <2>4
      <3>2. CASE x = c
        <4>1. /\ u \in DOMAIN page.shown /\ page.quantities[u] > 0 /\ C!SeedOf(u).kind = "TECHNIQUE"
              /\ u \in C!Codes
          BY <1>1, <1>2, <1>3, <1>4, <2>4, <3>2
             DEF C!VisibleOptions, C!Technique, C!Chosen, C!OfKind, PageTyped
        <4>2. u # c /\ u \notin cleared
          BY <2>2, <2>4, <3>2, <4>1 DEF C!Replaced
        <4> QED
          BY <4>1, <4>2 DEF qs
      <3>3. CASE x # c
        <4>1. page.quantities[x] > 0 /\ x \notin cleared
          BY <2>1, <2>4, <3>3
        <4>2. u \in C!Codes /\ page.quantities[u] > 0 /\ C!SeedOf(u).kind = "TECHNIQUE"
          BY <1>2, <2>4, <4>1 DEF PageTyped, ShapeOf
        <4>3. C!SeedOf(c).kind \notin {"TECHNIQUE", "LENGTH"}
          BY <2>2, <2>4, <3>1, <4>1 DEF C!Replaced
        <4>4. cleared = {}
          BY <1>3, <1>4, <4>3, SeedTyped DEF C!OfKind, C!Replaced
        <4> QED
          BY <4>2, <4>3, <4>4 DEF qs
      <3> QED
        BY <3>2, <3>3
    <2> QED
      BY <2>3, <2>4 DEF ShapeOf
  <1> HIDE DEF qs
  <1>8. PageTyped(p) /\ p.stage = "editing"
    BY <1>1, <1>2, <1>5, <1>6, <1>7 DEF PageTyped
  <1> HIDE DEF p
  <1> QED
    BY <1>1, <1>8, PageMoves DEF CalculatorIInv, Sending

LEMMA CalculatorNextStep ==
  ASSUME CalculatorIInv, [C!Next]_calculatorVars PROVE CalculatorIInv'
  <1>1. CASE UNCHANGED calculatorVars
    <2>1. UNCHANGED <<options, boot, saves, page, quote, quotes, cut, repeated>>
      BY <1>1 DEF calculatorVars
    <2> QED
      BY <2>1 DEF CalculatorIInv, OptionsTyped, BootTyped, PageTyped, QuoteTyped, Seeding, Sending,
                  FirstCodes, ShapeOf, OptionRow, Sendable, HasTechnique
  <1>2. ASSUME NEW i \in Instances, C!Count(i) \/ C!CreateSeed(i) \/ C!CrashSeeding(i)
        PROVE  CalculatorIInv'
    BY <1>2, CountStep, CreateSeedStep, CrashSeedingStep
  <1>3. ASSUME NEW c \in C!Codes, NEW saved \in C!Edits(c), C!SaveOption(c, saved)
        PROVE  CalculatorIInv'
    BY <1>3, SaveOptionStep
  <1>4. CASE \/ C!LoadCalculator \/ C!NoDesign \/ C!Submit
             \/ C!CreateQuote \/ C!ShowSent \/ C!ShowError
    BY <1>4, LoadCalculatorStep, NoDesignStep, SubmitStep, CreateQuoteStep, ShowSentStep, ShowErrorStep
  <1>5. ASSUME NEW c \in C!Codes, NEW n \in -1..3, C!SetQuantity(c, n) PROVE CalculatorIInv'
    BY <1>5, SetQuantityStep
  <1> QED
    BY <1>1, <1>2, <1>3, <1>4, <1>5 DEF C!Next

\* Cardinality, under the name the instance gives it.
LEMMA CalculatorCardinality == ASSUME NEW S PROVE C!Cardinality(S) = Cardinality(S)
  BY DEF C!Cardinality, Cardinality

\* Of rows that are still those the page shows the API takes what it sends:
\* a technique or no design, and no more than the limit of each.
LEMMA RowsTaken ==
  ASSUME CalculatorIInv, page.stage = "posting",
         \A c \in DOMAIN C!Selection : c \in C!ActiveOptions /\ options[c].row = page.shown[c]
  PROVE  ~C!Rejected(C!Selection)
  <1> DEFINE sel == C!Selection
  <1>1. PageTyped(page) /\ Sendable(page)
    BY DEF CalculatorIInv, Sending
  <1>2. ~page.noDesign => DOMAIN sel = C!Chosen /\ \A c \in C!Chosen : sel[c] = page.quantities[c]
    BY DEF C!Selection
  <1>3. page.noDesign => DOMAIN sel = {}
    BY DEF C!Selection
  <1>4. ~page.noDesign => DOMAIN sel # {}
    BY <1>1, <1>2, ChosenTyped DEF Sendable, HasTechnique
  <1>5. ASSUME NEW c \in DOMAIN sel PROVE ~(sel[c] > options[c].row.max)
    <2>1. /\ c \in C!Codes /\ page.quantities[c] \in 0..2 /\ page.quantities[c] > 0
          /\ sel[c] = page.quantities[c] /\ options[c].row = page.shown[c]
      BY <1>1, <1>2, <1>3, <1>5, ChosenTyped DEF PageTyped
    <2>2. page.quantities[c] <= page.shown[c].max /\ page.shown[c].max \in 1..2
      BY <1>1, <2>1 DEF PageTyped, OptionRow
    <2> QED
      BY <2>1, <2>2
  <1>6. DOMAIN sel \subseteq C!ActiveOptions
    OBVIOUS
  <1> HIDE DEF sel
  <1>7. ~C!Rejected(sel)
    BY <1>4, <1>5, <1>6 DEF C!Rejected
  <1> QED
    BY <1>7 DEF sel

LEMMA CalculatorSafe ==
  CalculatorIInv => C!TypeOK /\ C!OneShape /\ C!SentIsTaken /\ C!RepeatsExplained /\ C!SeededWhole
  <1> SUFFICES ASSUME CalculatorIInv
               PROVE  C!TypeOK /\ C!OneShape /\ C!SentIsTaken /\ C!RepeatsExplained /\ C!SeededWhole
    OBVIOUS
  <1>1. C!TypeOK
    BY SeedList DEF CalculatorIInv, OptionsTyped, BootTyped, PageTyped, QuoteTyped, C!TypeOK
  <1>2. C!OneShape
    <2> SUFFICES ASSUME quotes > 0
                 PROVE  /\ \/ DOMAIN quote.selection = {}
                           \/ C!Cardinality({c \in DOMAIN quote.selection : C!SeedOf(c).kind = "TECHNIQUE"}) = 1
                        /\ \A c \in DOMAIN quote.selection :
                              C!SeedOf(c).kind = "LENGTH" => C!SeedOf(c).parent \in DOMAIN quote.selection
      BY DEF C!OneShape
    <2> DEFINE chosen == DOMAIN quote.selection
               technique == {c \in chosen : C!SeedOf(c).kind = "TECHNIQUE"}
    <2>1. ShapeOf(chosen) /\ (chosen = {} \/ HasTechnique(chosen))
      BY DEF CalculatorIInv, QuoteTyped
    <2>2. chosen = {} \/ \E c \in chosen : technique = {c}
      BY <2>1 DEF ShapeOf, HasTechnique
    <2> HIDE DEF technique
    <2>3. ASSUME NEW c, technique = {c} PROVE C!Cardinality(technique) = 1
      <3>1. Cardinality({c}) = 1
        BY FS_Singleton
      <3> QED
        BY <2>3, <3>1, CalculatorCardinality
    <2>4. chosen = {} \/ C!Cardinality(technique) = 1
      BY <2>2, <2>3
    <2> QED
      BY <2>1, <2>4 DEF ShapeOf, technique
  <1>3. C!RepeatsExplained
    BY DEF CalculatorIInv, Sending, C!RepeatsExplained, QuoteTyped
  <1>4. C!SeededWhole
    BY DEF CalculatorIInv, Seeding, C!SeededWhole, C!Served
  <1>5. C!SentIsTaken
    BY RowsTaken DEF C!SentIsTaken
  <1> QED
    BY <1>1, <1>2, <1>3, <1>4, <1>5

-----------------------------------------------------------------------------
(* The estimate: what the page adds up and what the API stores are the     *)
(* same sums, unless an option changed in between.                         *)

\* What the page and the API add up, as sums of functions.
LEMMA PriceShown ==
  ASSUME IsFiniteSet(C!Chosen), NEW w, \A c \in C!Chosen : w[c] = page.shown[c].price * C!Times(page.shown[c], page.quantities[c]),
         NEW F, Summed(C!Chosen, w, F)
  PROVE  C!EstimatedPrice = F[C!Chosen]
  <1> DEFINE S == C!Chosen
             e(c) == page.shown[c].price * C!Times(page.shown[c], page.quantities[c])
             Sums(G) == [s \in SUBSET S |-> IF s = {} THEN 0 ELSE e(Picked(s)) + G[s \ {Picked(s)}]]
             iter == CHOOSE G : G = Sums(G)
  <1>1. C!EstimatedPrice = iter[S]
    BY DEF C!EstimatedPrice, C!MapThenSumSet, C!MapThenFoldSet, Picked
  <1>2. \A s \in SUBSET S : s # {} => w[Picked(s)] = e(Picked(s))
    BY DEF Picked
  <1>3. \A G : Summed(S, w, G) <=> G = Sums(G)
    <2> HIDE DEF e, S
    <2> QED
      BY <1>2 DEF Summed
  <1>4. Summed(S, w, iter)
    <2> HIDE DEF Sums
    <2>1. F = Sums(F)
      BY <1>3
    <2>2. iter = Sums(iter)
      BY <2>1, Zenon
    <2> HIDE DEF iter
    <2> QED
      BY <1>3, <2>2
  <1> HIDE DEF iter
  <1> QED
    BY <1>1, <1>4, SumIsOne

TimeOf(total) == IF total > 60 THEN total ELSE 60

LEMMA TimeShown ==
  ASSUME IsFiniteSet(C!Chosen), NEW w, \A c \in C!Chosen : w[c] = page.shown[c].minutes * C!Times(page.shown[c], page.quantities[c]),
         NEW F, Summed(C!Chosen, w, F)
  PROVE  C!EstimatedTime = IF F[C!Chosen] < 60 THEN 60 ELSE F[C!Chosen]
  <1> DEFINE S == C!Chosen
             e(c) == page.shown[c].minutes * C!Times(page.shown[c], page.quantities[c])
             Sums(G) == [s \in SUBSET S |-> IF s = {} THEN 0 ELSE e(Picked(s)) + G[s \ {Picked(s)}]]
             iter == CHOOSE G : G = Sums(G)
  <1>1. C!EstimatedTime = IF iter[S] < 60 THEN 60 ELSE iter[S]
    BY DEF C!EstimatedTime, C!MapThenSumSet, C!MapThenFoldSet, Picked
  <1>2. \A s \in SUBSET S : s # {} => w[Picked(s)] = e(Picked(s))
    BY DEF Picked
  <1>3. \A G : Summed(S, w, G) <=> G = Sums(G)
    <2> HIDE DEF e, S
    <2> QED
      BY <1>2 DEF Summed
  <1>4. Summed(S, w, iter)
    <2> HIDE DEF Sums
    <2>1. F = Sums(F)
      BY <1>3
    <2>2. iter = Sums(iter)
      BY <2>1, Zenon
    <2> HIDE DEF iter
    <2> QED
      BY <1>3, <2>2
  <1> HIDE DEF iter
  <1> QED
    BY <1>1, <1>4, SumIsOne

LEMMA PriceQuoted ==
  ASSUME NEW sel,
         IsFiniteSet(DOMAIN sel), NEW w, \A c \in DOMAIN sel : w[c] = C!Amount(c, sel[c]),
         NEW F, Summed(DOMAIN sel, w, F)
  PROVE  C!Quote(sel).price = F[DOMAIN sel]
  <1> DEFINE S == DOMAIN sel
             e(c) == C!Amount(c, sel[c])
             Sums(G) == [s \in SUBSET S |-> IF s = {} THEN 0 ELSE e(Picked(s)) + G[s \ {Picked(s)}]]
             iter == CHOOSE G : G = Sums(G)
  <1>1. C!Quote(sel).price = iter[S]
    BY DEF C!Quote, C!MapThenSumSet, C!MapThenFoldSet, Picked
  <1>2. \A s \in SUBSET S : s # {} => w[Picked(s)] = e(Picked(s))
    BY DEF Picked
  <1>3. \A G : Summed(S, w, G) <=> G = Sums(G)
    <2> HIDE DEF e, S
    <2> QED
      BY <1>2 DEF Summed
  <1>4. Summed(S, w, iter)
    <2> HIDE DEF Sums
    <2>1. F = Sums(F)
      BY <1>3
    <2>2. iter = Sums(iter)
      BY <2>1, Zenon
    <2> HIDE DEF iter
    <2> QED
      BY <1>3, <2>2
  <1> HIDE DEF iter
  <1> QED
    BY <1>1, <1>4, SumIsOne

LEMMA TimeQuoted ==
  ASSUME NEW sel,
         IsFiniteSet(DOMAIN sel), NEW w, \A c \in DOMAIN sel : w[c] = options[c].row.minutes * (IF options[c].row.unit THEN sel[c] ELSE 1),
         NEW F, Summed(DOMAIN sel, w, F)
  PROVE  C!Duration(sel) = TimeOf(F[DOMAIN sel])
  <1> DEFINE S == DOMAIN sel
             e(c) == options[c].row.minutes * (IF options[c].row.unit THEN sel[c] ELSE 1)
             Sums(G) == [s \in SUBSET S |-> IF s = {} THEN 0 ELSE e(Picked(s)) + G[s \ {Picked(s)}]]
             iter == CHOOSE G : G = Sums(G)
  <1>1. C!Duration(sel) = TimeOf(iter[S])
    BY DEF C!Duration, C!MapThenSumSet, C!MapThenFoldSet, Picked, TimeOf
  <1>2. \A s \in SUBSET S : s # {} => w[Picked(s)] = e(Picked(s))
    BY DEF Picked
  <1>3. \A G : Summed(S, w, G) <=> G = Sums(G)
    <2> HIDE DEF e, S
    <2> QED
      BY <1>2 DEF Summed
  <1>4. Summed(S, w, iter)
    <2> HIDE DEF Sums
    <2>1. F = Sums(F)
      BY <1>3
    <2>2. iter = Sums(iter)
      BY <2>1, Zenon
    <2> HIDE DEF iter
    <2> QED
      BY <1>3, <2>2
  <1> HIDE DEF iter
  <1> QED
    BY <1>1, <1>4, SumIsOne

Priced(row) == row.price \in Nat /\ row.minutes \in Nat /\ {"price", "minutes", "unit"} \subseteq DOMAIN row

\* Every row has a price and a time, and nothing is chosen beside "no design".
PagePriced ==
    /\ \A c \in DOMAIN page.shown : Priced(page.shown[c])
    /\ page.noDesign => \A c \in C!Codes : page.quantities[c] = 0

EstimateIInv == CalculatorIInv /\ PagePriced /\ C!EstimateAgrees

LEMMA SeedPriced == ASSUME NEW c \in C!Codes PROVE Priced(C!SeedOf(c))
  <1>1. PICK k \in 1..4 : C!SeedOf(c) = C!Seeds[k]
    BY SeedList DEF C!Codes, C!SeedOf
  <1>2. C!SeedOf(c) \in {C!Seeds[1], C!Seeds[2], C!Seeds[3], C!Seeds[4]}
    BY <1>1
  <1>3. \A s \in {C!Seeds[1], C!Seeds[2], C!Seeds[3], C!Seeds[4]} : Priced(s)
    BY DEF C!Seeds, Priced
  <1> QED
    BY <1>2, <1>3

LEMMA OptionPriced ==
  ASSUME NEW c \in C!Codes, NEW o \in {C!Fresh(c)} \union C!Edits(c)
  PROVE  Priced(o.row)
  BY SeedPriced DEF C!Fresh, C!Edits, Priced

LEMMA CodesFinite == IsFiniteSet(C!Codes)
  <1>1. C!Codes = {C!Seeds[1].code, C!Seeds[2].code, C!Seeds[3].code, C!Seeds[4].code}
    BY SeedList DEF FirstCodes
  <1>2. IsFiniteSet({}) /\ IsFiniteSet({C!Seeds[1].code})
    BY FS_EmptySet, FS_Singleton
  <1>3. IsFiniteSet({C!Seeds[1].code} \union {C!Seeds[2].code})
    BY <1>2, FS_AddElement
  <1>4. IsFiniteSet({C!Seeds[1].code} \union {C!Seeds[2].code} \union {C!Seeds[3].code})
    BY <1>3, FS_AddElement
  <1>5. IsFiniteSet({C!Seeds[1].code} \union {C!Seeds[2].code} \union {C!Seeds[3].code} \union {C!Seeds[4].code})
    BY <1>4, FS_AddElement
  <1>6. {C!Seeds[1].code} \union {C!Seeds[2].code} \union {C!Seeds[3].code} \union {C!Seeds[4].code} = C!Codes
    BY <1>1
  <1> QED
    BY <1>5, <1>6

\* On rows that did not change in between both add up the same numbers.
LEMMA QuoteAgrees ==
  ASSUME CalculatorIInv, PagePriced, NEW q, q = C!Quote(C!Selection), q.fresh
  PROVE  q.estimated = <<q.price, q.minutes>>
  <1> DEFINE S == C!Chosen
             sel == C!Selection
             price == [c \in S |-> page.shown[c].price * C!Times(page.shown[c], page.quantities[c])]
             time == [c \in S |-> page.shown[c].minutes * C!Times(page.shown[c], page.quantities[c])]
  <1>1. /\ DOMAIN page.shown \subseteq C!Codes /\ page.quantities \in [C!Codes -> 0..2]
        /\ \A c \in DOMAIN page.shown : Priced(page.shown[c])
    BY DEF CalculatorIInv, PageTyped, PagePriced
  <1>2. S \subseteq DOMAIN page.shown /\ \A c \in S : page.quantities[c] \in 0..2 /\ page.quantities[c] > 0
    BY <1>1 DEF C!Chosen
  <1>3. IsFiniteSet(S)
    BY <1>1, <1>2, CodesFinite, FS_Subset
  <1>4. DOMAIN sel = S /\ \A c \in S : sel[c] = page.quantities[c]
    <2>1. CASE page.noDesign
      <3>1. S = {}
        BY <2>1, <1>1, <1>2 DEF PagePriced
      <3>2. DOMAIN sel = {}
        BY <2>1 DEF C!Selection
      <3> QED
        BY <3>1, <3>2
    <2>2. CASE ~page.noDesign
      BY <2>2 DEF C!Selection
    <2> QED
      BY <2>1, <2>2
  <1>5. \A c \in S : options[c].row = page.shown[c]
    BY <1>4 DEF C!Quote
  <1>6. \A c \in S : price[c] = C!Amount(c, sel[c])
    BY <1>1, <1>2, <1>4, <1>5 DEF C!Amount, C!Times, Priced
  <1>7. \A c \in S : time[c] = options[c].row.minutes * (IF options[c].row.unit THEN sel[c] ELSE 1)
    BY <1>4, <1>5 DEF C!Times
  <1>8. time \in [S -> Int]
    <2>1. \A c \in S : page.shown[c].minutes * C!Times(page.shown[c], page.quantities[c]) \in Int
      BY <1>1, <1>2 DEF C!Times, Priced
    <2> QED
      BY <2>1
  <1> HIDE DEF S, sel
  <1>9. PICK F : Summed(S, price, F)
    BY <1>3, SumIsThere
  <1>10. PICK G : Summed(S, time, G)
    BY <1>3, SumIsThere
  <1>11. C!EstimatedPrice = F[S]
    BY <1>3, <1>9, PriceShown DEF S
  <1>12. C!EstimatedTime = IF G[S] < 60 THEN 60 ELSE G[S]
    BY <1>3, <1>10, TimeShown DEF S
  <1>13. q.price = F[S]
    <2> HIDE DEF price
    <2>1. C!Quote(sel).price = F[DOMAIN sel]
      BY <1>3, <1>4, <1>6, <1>9, PriceQuoted
    <2> QED
      BY <2>1, <1>4 DEF sel
  <1>14. q.minutes = TimeOf(G[S])
    <2> HIDE DEF time
    <2>1. C!Duration(sel) = TimeOf(G[DOMAIN sel])
      BY <1>3, <1>4, <1>7, <1>10, TimeQuoted
    <2>2. q.minutes = C!Duration(C!Selection)
      BY DEF C!Quote
    <2> QED
      BY <2>1, <2>2, <1>4 DEF sel
  <1>15. G[S] \in Int
    <2> HIDE DEF time
    <2> QED
      BY <1>3, <1>8, <1>10, SumType
  <1>16. C!EstimatedTime = q.minutes
    BY <1>12, <1>14, <1>15 DEF TimeOf
  <1>17. q.estimated = <<C!EstimatedPrice, C!EstimatedTime>>
    BY DEF C!Quote
  <1> QED
    BY <1>11, <1>13, <1>16, <1>17

LEMMA EstimateInit == C!Init => EstimateIInv
  BY CalculatorInit DEF C!Init, C!Nothing, EstimateIInv, PagePriced, C!EstimateAgrees

\* Steps of the page that leave what it shows and chose.
LEMMA PageStays ==
  ASSUME EstimateIInv, CalculatorIInv', UNCHANGED <<quote, quotes>>,
         page'.shown = page.shown, page'.noDesign = page.noDesign, page'.quantities = page.quantities
  PROVE  EstimateIInv'
  BY DEF EstimateIInv, PagePriced, C!EstimateAgrees

LEMMA EstimateNextStep == EstimateIInv /\ [C!Next]_calculatorVars => EstimateIInv'
  <1> SUFFICES ASSUME EstimateIInv, [C!Next]_calculatorVars PROVE EstimateIInv'
    OBVIOUS
  <1>1. CalculatorIInv' /\ CalculatorIInv
    BY CalculatorNextStep DEF EstimateIInv
  <1>2. {"stage", "shown", "quantities", "noDesign"} \subseteq DOMAIN page
    BY <1>1 DEF CalculatorIInv, PageTyped
  <1>3. ASSUME UNCHANGED <<page, quote, quotes>> PROVE EstimateIInv'
    BY <1>1, <1>3, PageStays
  <1>4. ASSUME NEW st, page' = [page EXCEPT !.stage = st], UNCHANGED <<quote, quotes>> PROVE EstimateIInv'
    <2>1. page'.shown = page.shown /\ page'.noDesign = page.noDesign /\ page'.quantities = page.quantities
      BY <1>2, <1>4
    <2> QED
      BY <1>1, <1>4, <2>1, PageStays
  <1>5. CASE UNCHANGED calculatorVars
    BY <1>3, <1>5 DEF calculatorVars
  <1>6. ASSUME NEW i \in Instances, C!Count(i) \/ C!CreateSeed(i) \/ C!CrashSeeding(i) PROVE EstimateIInv'
    BY <1>3, <1>6 DEF C!Count, C!CreateSeed, C!CrashSeeding
  <1>7. ASSUME NEW c \in C!Codes, NEW saved \in C!Edits(c), C!SaveOption(c, saved) PROVE EstimateIInv'
    BY <1>3, <1>7 DEF C!SaveOption
  <1>8. CASE C!LoadCalculator
    <2>1. /\ page' = [page EXCEPT !.stage = "editing", !.shown = [c \in C!ActiveOptions |-> options[c].row]]
          /\ UNCHANGED <<quote, quotes>>
      BY <1>8 DEF C!LoadCalculator
    <2>2. \A c \in C!ActiveOptions : Priced(options[c].row)
      BY <1>1, OptionPriced DEF CalculatorIInv, OptionsTyped, C!ActiveOptions
    <2>3. /\ page'.shown = [c \in C!ActiveOptions |-> options[c].row]
          /\ page'.noDesign = page.noDesign /\ page'.quantities = page.quantities
      BY <1>2, <2>1
    <2>4. \A c \in DOMAIN page'.shown : Priced(page'.shown[c])
      BY <2>2, <2>3
    <2> QED
      BY <1>1, <2>1, <2>3, <2>4 DEF EstimateIInv, PagePriced, C!EstimateAgrees, Priced
  <1>9. CASE C!NoDesign
    <2>1. /\ page'.shown = page.shown /\ page'.quantities = C!Nothing /\ UNCHANGED <<quote, quotes>>
      BY <1>2, <1>9 DEF C!NoDesign
    <2> QED
      BY <1>1, <2>1 DEF EstimateIInv, PagePriced, C!EstimateAgrees, C!Nothing
  <1>10. CASE C!Submit
    BY <1>4, <1>10 DEF C!Submit
  <1>11. CASE C!ShowSent
    BY <1>4, <1>11 DEF C!ShowSent
  <1>12. CASE C!ShowError
    BY <1>4, <1>12 DEF C!ShowError
  <1>13. CASE C!CreateQuote
    <2>1. CASE page' = [page EXCEPT !.stage = "editing"] /\ UNCHANGED <<quote, quotes>>
      BY <1>4, <2>1
    <2>2. CASE quote' = C!Quote(C!Selection) /\ page' = [page EXCEPT !.stage = "uploading"]
      <3>1. page'.shown = page.shown /\ page'.noDesign = page.noDesign /\ page'.quantities = page.quantities
        BY <1>2, <2>2
      <3>2. quote'.fresh => quote'.estimated = <<quote'.price, quote'.minutes>>
        BY <1>1, <2>2, QuoteAgrees DEF EstimateIInv
      <3> QED
        BY <1>1, <3>1, <3>2 DEF EstimateIInv, PagePriced, C!EstimateAgrees
    <2> QED
      BY <1>13, <2>1, <2>2 DEF C!CreateQuote
  <1>14. ASSUME NEW c \in C!Codes, NEW n \in -1..3, C!SetQuantity(c, n) PROVE EstimateIInv'
    <2>1. page'.shown = page.shown /\ page'.noDesign = FALSE /\ UNCHANGED <<quote, quotes>>
      BY <1>2, <1>14 DEF C!SetQuantity
    <2> QED
      BY <1>1, <2>1 DEF EstimateIInv, PagePriced, C!EstimateAgrees
  <1> QED
    BY <1>5, <1>6, <1>7, <1>8, <1>9, <1>10, <1>11, <1>12, <1>13, <1>14 DEF C!Next

-----------------------------------------------------------------------------
(* The parts side by side.                                                 *)

StudioIInv ==
    /\ IInv
    /\ part = "hours" => HoursIInv
    /\ part = "reminders" => RemindersIInv
    /\ part \in {"log", "dashboard"} => ReportsIInv
    /\ part = "log" => LogIInv
    /\ part = "dashboard" => DashboardIInv
    /\ part = "calculator" => EstimateIInv

LEMMA StudioInitIInv == StudioInit => StudioIInv
  <1> SUFFICES ASSUME StudioInit PROVE StudioIInv
    OBVIOUS
  <1>1. IInv
    BY InitIInv DEF StudioInit
  <1>2. part = "hours" => HoursIInv
    BY HoursInit DEF StudioInit
  <1>3. part = "reminders" => RemindersIInv
    BY RemindersInit DEF StudioInit
  <1>4. part \in {"log", "dashboard"} => ReportsIInv
    BY ReportsInit DEF StudioInit
  <1>5. part = "log" => LogIInv
    BY LogInit DEF StudioInit
  <1>6. part = "dashboard" => DashboardIInv
    BY DashboardInit DEF StudioInit
  <1>7. part = "calculator" => EstimateIInv
    BY EstimateInit DEF StudioInit
  <1> QED
    BY <1>1, <1>2, <1>3, <1>4, <1>5, <1>6, <1>7 DEF StudioIInv

\* A step is one of the chosen part, or nothing.
LEMMA StudioStep ==
  ASSUME [StudioNext]_<<part, vars, hoursVars, reminderVars, reportVars, calculatorVars>>
  PROVE  /\ part' = part /\ [Next]_vars
         /\ part = "hours" => [H!Next]_hoursVars
         /\ part = "reminders" => [N!Next]_reminderVars
         /\ part \in {"log", "dashboard"} => [R!LogNext \/ R!DashboardNext]_reportVars
         /\ part = "log" => [R!LogNext]_reportVars
         /\ part = "dashboard" => [R!DashboardNext]_reportVars
         /\ part = "calculator" => [C!Next]_calculatorVars
  <1>1. CASE UNCHANGED <<part, vars, hoursVars, reminderVars, reportVars, calculatorVars>>
    BY <1>1
  <1>2. CASE StudioNext
    <2>1. CASE LoyaltyNext
      BY <2>1 DEF LoyaltyNext, Others
    <2>2. CASE HoursNext
      BY <2>2 DEF HoursNext, Others
    <2>3. CASE RemindersNext
      BY <2>3 DEF RemindersNext, Others
    <2>4. CASE LogNext
      BY <2>4 DEF LogNext, Others
    <2>5. CASE DashboardNext
      BY <2>5 DEF DashboardNext, Others
    <2>6. CASE CalculatorNext
      BY <2>6 DEF CalculatorNext, Others
    <2> QED
      BY <1>2, <2>1, <2>2, <2>3, <2>4, <2>5, <2>6 DEF StudioNext
  <1> QED
    BY <1>1, <1>2

LEMMA StudioNextIInv ==
  StudioIInv /\ [StudioNext]_<<part, vars, hoursVars, reminderVars, reportVars, calculatorVars>>
    => StudioIInv'
  <1> SUFFICES ASSUME StudioIInv,
                      [StudioNext]_<<part, vars, hoursVars, reminderVars, reportVars, calculatorVars>>
               PROVE  StudioIInv'
    OBVIOUS
  <1>1. /\ part' = part /\ [Next]_vars
        /\ part = "hours" => [H!Next]_hoursVars
        /\ part = "reminders" => [N!Next]_reminderVars
        /\ part \in {"log", "dashboard"} => [R!LogNext \/ R!DashboardNext]_reportVars
        /\ part = "log" => [R!LogNext]_reportVars
        /\ part = "dashboard" => [R!DashboardNext]_reportVars
        /\ part = "calculator" => [C!Next]_calculatorVars
    BY StudioStep
  <1>2. IInv'
    BY <1>1, NextIInv DEF StudioIInv
  <1>3. part' = "hours" => HoursIInv'
    BY <1>1, HoursNextStep DEF StudioIInv
  <1>4. part' = "reminders" => RemindersIInv'
    BY <1>1, RemindersNextStep DEF StudioIInv
  <1>5. part' \in {"log", "dashboard"} => ReportsIInv'
    BY <1>1, ReportsNextStep DEF StudioIInv
  <1>6. part' = "log" => LogIInv'
    BY <1>1, LogStep DEF StudioIInv
  <1>7. part' = "dashboard" => DashboardIInv'
    BY <1>1, DashboardStep DEF StudioIInv
  <1>8. part' = "calculator" => EstimateIInv'
    BY <1>1, EstimateNextStep DEF StudioIInv
  <1> QED
    BY <1>2, <1>3, <1>4, <1>5, <1>6, <1>7, <1>8 DEF StudioIInv

LEMMA StudioInvariant == StudioSpec => []StudioIInv
  BY StudioInitIInv, StudioNextIInv, PTL DEF StudioSpec

\* The tables, requests and histories of working hours, reminders, reports,
\* calculator and loyalty keep their types, whatever interleaves.
THEOREM StudioTypeCorrect == StudioSpec => []StudioTypeOK
  <1>1. StudioIInv => StudioTypeOK
    BY HoursSafe, RemindersSafe, ReportsSafe, CalculatorSafe DEF StudioIInv, EstimateIInv, StudioTypeOK, IInv
  <1> QED
    BY <1>1, StudioInvariant, PTL

\* For any lists of periods and any changes of hours and bookings at once: an
\* appointment outside its manicurist's hours was warned of, unless it took its
\* place on a check older than the change or the change died; periods of a day
\* overlap only if two changes of the global hours crossed; the slots offered
\* are those a hold takes; and however runs of the reminders overlap or fail
\* half way, when a confirmed appointment begins its client, and a manicurist,
\* was told of its hour in each window that closed after it last changed.
THEOREM AgendaIsKept == StudioSpec => []AgendaKept
  <1>1. StudioIInv => AgendaKept
    BY HoursSafe, RemindersSafe DEF StudioIInv, AgendaKept
  <1> QED
    BY <1>1, StudioInvariant, PTL

\* What is computed from several rows is right for them, for any appointments,
\* entries, texts and options.  The dashboard's counts and daily figures add up to
\* its total, and its other questions agree with it unless something changed
\* between them; whoever reads the audit log page after page has read every entry
\* that was there at the start, unless it shares its instant with another one;
\* exported lines read back as the texts they were made of; a quote from the
\* page holds one technique, or no design, and no length without its own, is
\* rejected only for an option that changed since the page loaded, and stores the
\* price and the time the page showed unless an option changed, whether its options
\* are counted by unit or FIXED with a limit above one; the page sends a second one
\* only after an answer or an image was lost; and API instances that start together
\* fill the whole list of options, unless one died half way or a code of the list
\* was made by hand.
THEOREM ComputationsAreRight == StudioSpec => []ComputationsAgree
  <1>1. ASSUME StudioIInv PROVE ComputationsAgree
    <2>1. part = "dashboard" => R!DashboardAgrees
      BY <1>1, DashboardSafe DEF StudioIInv
    <2>2. part = "log" => R!PagesCoverLog
      BY <1>1, LogSafe DEF StudioIInv
    <2>3. part = "calculator" => C!CalculatorOK
      BY <1>1, CalculatorSafe DEF StudioIInv, EstimateIInv, C!CalculatorOK
    <2> QED
      BY <2>1, <2>2, <2>3, ExportSafe DEF ComputationsAgree
  <1>2. StudioIInv => ComputationsAgree
    BY <1>1
  <1> QED
    BY <1>2, StudioInvariant, PTL

=============================================================================
