------------------------ MODULE CustomQuotesProofs ------------------------
(***************************************************************************)
(* What CustomQuotes keeps, for any quotes, users, requests and images.    *)
(***************************************************************************)
EXTENDS CustomQuotes, FiniteSetTheorems, TLAPS

\* A handler that still compares updatedAt remembers quote and images as they are.
Fresh ==
    \A r \in Requests :
        proc[r].stage \in Comparing =>
            /\ proc[r].id \in Quotes /\ quote[proc[r].id].status # "ABSENT"
            /\ r \notin stale => /\ proc[r].seen = quote[proc[r].id]
                                 /\ proc[r].found = images[proc[r].id]

\* What a handler carries was right for the row it remembers.
Carries ==
    \A r \in Requests :
        /\ proc[r].stage = "claiming" => proc[r].actor \in Techs
        /\ proc[r].stage = "assigning" => proc[r].tech \in Techs
        /\ proc[r].stage = "reviewing" =>
               /\ proc[r].decision \in Decisions
               /\ proc[r].actor \in Techs \union {Admin}
               /\ proc[r].actor \in Techs => proc[r].seen.assigned = proc[r].actor
        /\ proc[r].stage \in {"putting", "stored"} => proc[r].key \in Images

\* Whoever is past the claim has a responsible technician, and before it nobody
\* has claimed.
Responsible ==
    \A q \in Quotes :
        /\ quote[q].status \in {"IN_REVIEW"} \union Decisions => quote[q].assigned \in Techs
        /\ quote[q].status \in {"ABSENT", "PENDING_REVIEW"} => claims[q] = {}
        /\ \E t : claims[q] \subseteq {t}

\* The images of a quote are as many as their positions.
Positions ==
    \A q \in Quotes :
        /\ IsFiniteSet(images[q])
        /\ Cardinality(images[q]) <= ImageLimit
        /\ {i.order : i \in images[q]} = 0 .. Cardinality(images[q]) - 1

IInv == /\ TypeOK /\ Fresh /\ Carries /\ Responsible /\ Positions
        /\ DecidedByResponsible /\ DecidedOnWhatWasRead

-----------------------------------------------------------------------------

LEMMA InitIInv == Init => IInv
  <1> SUFFICES ASSUME Init PROVE IInv
    OBVIOUS
  <1> USE CustomQuotesAssumption DEF Init
  <1>1. TypeOK
    BY DEF TypeOK, NoRow, Row, Open, Final, Decisions, Idle, Proc, Stages, Comparing
  <1>2. Fresh /\ Carries
    BY DEF Fresh, Carries, Idle, Comparing
  <1>3. Responsible /\ DecidedByResponsible /\ DecidedOnWhatWasRead
    BY DEF Responsible, DecidedByResponsible, DecidedOnWhatWasRead, NoRow, Decisions
  <1>4. Positions
    <2>1. IsFiniteSet({}) /\ Cardinality({}) = 0
      BY FS_EmptySet
    <2> QED
      BY <2>1 DEF Positions
  <1> QED
    BY <1>1, <1>2, <1>3, <1>4 DEF IInv

-----------------------------------------------------------------------------
(* Steps that write neither a quote nor its images.                        *)

LEMMA QuietStep ==
    ASSUME IInv, NEW r \in Requests, NEW p \in Proc,
           proc' = [proc EXCEPT ![r] = p],
           UNCHANGED <<quote, images, claims, judged>>,
           bucket' \subseteq Images, used' \subseteq Images,
           stale' \in {stale, stale \ {r}},
           p.stage \in Comparing =>
               /\ p.id \in Quotes /\ quote[p.id].status # "ABSENT"
               /\ r \notin stale' => p.seen = quote[p.id] /\ p.found = images[p.id],
           p.stage = "claiming" => p.actor \in Techs,
           p.stage = "assigning" => p.tech \in Techs,
           p.stage = "reviewing" => /\ p.decision \in Decisions
                                    /\ p.actor \in Techs \union {Admin}
                                    /\ p.actor \in Techs => p.seen.assigned = p.actor,
           p.stage \in {"putting", "stored"} => p.key \in Images
    PROVE  IInv'
  <1> USE CustomQuotesAssumption
  <1>1. /\ \A s \in Requests : s # r => proc'[s] = proc[s]
        /\ proc'[r] = p
    BY DEF IInv, TypeOK
  <1>2. TypeOK'
    BY DEF IInv, TypeOK
  <1>3. Fresh'
    BY <1>1 DEF IInv, Fresh
  <1>4. Carries'
    BY <1>1 DEF IInv, Carries
  <1>5. Responsible' /\ Positions' /\ DecidedByResponsible' /\ DecidedOnWhatWasRead'
    BY DEF IInv, Responsible, Positions, DecidedByResponsible, DecidedOnWhatWasRead
  <1> QED
    BY <1>2, <1>3, <1>4, <1>5 DEF IInv

LEMMA RememberType ==
    ASSUME IInv, NEW r \in Requests, NEW actor \in Actors, NEW q \in Quotes,
           NEW stage \in Comparing
    PROVE  /\ Remember(r, actor, q, stage) \in Proc
           /\ Remember(r, actor, q, stage).stage = stage
           /\ Remember(r, actor, q, stage).actor = actor
           /\ Remember(r, actor, q, stage).id = q
           /\ Remember(r, actor, q, stage).seen = quote[q]
           /\ Remember(r, actor, q, stage).found = images[q]
  <1>1. quote[q] \in Row /\ images[q] \in SUBSET Image
    BY DEF IInv, TypeOK
  <1>2. NoRow \in Row
    BY DEF NoRow, Row, Open, Final
  <1> QED
    BY <1>1, <1>2 DEF Remember, Idle, Proc, Stages

LEMMA IdleType == Idle \in Proc /\ Idle.stage = "idle"
  <1>1. NoRow \in Row
    BY DEF NoRow, Row, Open, Final
  <1> QED
    BY <1>1 DEF Idle, Proc, Stages

LEMMA CheckSteps ==
    ASSUME IInv, NEW r \in Requests, NEW q \in Quotes,
           \/ \E t \in Techs : ClaimCheck(r, t, q) \/ AssignCheck(r, t, q)
           \/ \E actor \in Techs \union {Admin}, decision \in Decisions :
                  ReviewCheck(r, actor, q, decision)
           \/ \E c \in Clients : CancelCheck(r, c, q)
           \/ \E actor \in Actors, key \in Images : ImageCheck(r, actor, q, key)
    PROVE  IInv'
  <1> USE CustomQuotesAssumption
  <1>0. stale' = stale /\ UNCHANGED <<quote, images, claims, judged>> /\ bucket' = bucket
    BY DEF ClaimCheck, AssignCheck, ReviewCheck, CancelCheck, ImageCheck
  <1>1. bucket \subseteq Images /\ used \subseteq Images
    BY DEF IInv, TypeOK
  <1>2. ASSUME NEW t \in Techs, ClaimCheck(r, t, q) PROVE IInv'
    <2> DEFINE p == Remember(r, t, q, "claiming")
    <2>1. proc' = [proc EXCEPT ![r] = p] /\ used' = used /\ quote[q].status # "ABSENT"
      BY <1>2 DEF ClaimCheck, Claimable
    <2>2. /\ p \in Proc /\ p.stage = "claiming" /\ p.actor = t
          /\ p.id = q /\ p.seen = quote[q] /\ p.found = images[q]
      BY RememberType DEF Actors, Comparing
    <2> HIDE DEF p
    <2> QED
      BY <1>0, <1>1, <2>1, <2>2, QuietStep
  <1>3. ASSUME NEW t \in Techs, AssignCheck(r, t, q) PROVE IInv'
    <2> DEFINE o == Remember(r, Admin, q, "assigning")
               p == [o EXCEPT !.tech = t]
    <2>1. proc' = [proc EXCEPT ![r] = p] /\ used' = used /\ quote[q].status # "ABSENT"
      BY <1>3 DEF AssignCheck, Open
    <2>2. /\ o \in Proc /\ o.stage = "assigning"
          /\ o.id = q /\ o.seen = quote[q] /\ o.found = images[q]
      BY RememberType DEF Actors, Comparing
    <2> HIDE DEF o
    <2>3. /\ p \in Proc /\ p.stage = "assigning" /\ p.tech = t
          /\ p.id = q /\ p.seen = quote[q] /\ p.found = images[q]
      BY <2>2 DEF Proc
    <2> HIDE DEF p
    <2> QED
      BY <1>0, <1>1, <2>1, <2>3, QuietStep
  <1>4. ASSUME NEW actor \in Techs \union {Admin}, NEW decision \in Decisions,
               ReviewCheck(r, actor, q, decision)
        PROVE  IInv'
    <2> DEFINE o == Remember(r, actor, q, "reviewing")
               p == [o EXCEPT !.decision = decision]
    <2>1. /\ proc' = [proc EXCEPT ![r] = p] /\ used' = used
          /\ quote[q].status # "ABSENT"
          /\ actor \in Techs => quote[q].assigned = actor
      BY <1>4 DEF ReviewCheck
    <2>2. /\ o \in Proc /\ o.stage = "reviewing" /\ o.actor = actor
          /\ o.id = q /\ o.seen = quote[q] /\ o.found = images[q]
      BY RememberType DEF Actors, Comparing
    <2> HIDE DEF o
    <2>3. /\ p \in Proc /\ p.stage = "reviewing" /\ p.actor = actor /\ p.decision = decision
          /\ p.id = q /\ p.seen = quote[q] /\ p.found = images[q]
      BY <2>2 DEF Proc
    <2> HIDE DEF p
    <2> QED
      BY <1>0, <1>1, <2>1, <2>3, QuietStep
  <1>5. ASSUME NEW c \in Clients, CancelCheck(r, c, q) PROVE IInv'
    <2> DEFINE p == Remember(r, c, q, "cancelling")
    <2>1. proc' = [proc EXCEPT ![r] = p] /\ used' = used /\ quote[q].status # "ABSENT"
      BY <1>5 DEF CancelCheck, Open
    <2>2. /\ p \in Proc /\ p.stage = "cancelling"
          /\ p.id = q /\ p.seen = quote[q] /\ p.found = images[q]
      BY RememberType DEF Actors, Comparing
    <2> HIDE DEF p
    <2> QED
      BY <1>0, <1>1, <2>1, <2>2, QuietStep
  <1>6. ASSUME NEW actor \in Actors, NEW key \in Images, ImageCheck(r, actor, q, key)
        PROVE  IInv'
    <2> DEFINE o == Remember(r, actor, q, "putting")
               p == [o EXCEPT !.key = key]
    <2>1. /\ proc' = [proc EXCEPT ![r] = p] /\ used' \subseteq Images
          /\ quote[q].status # "ABSENT"
      BY <1>1, <1>6 DEF ImageCheck, Open
    <2>2. /\ o \in Proc /\ o.stage = "putting"
          /\ o.id = q /\ o.seen = quote[q] /\ o.found = images[q]
      BY RememberType DEF Comparing
    <2> HIDE DEF o
    <2>3. /\ p \in Proc /\ p.stage = "putting" /\ p.key = key
          /\ p.id = q /\ p.seen = quote[q] /\ p.found = images[q]
      BY <2>2 DEF Proc
    <2> HIDE DEF p
    <2> QED
      BY <1>0, <1>1, <2>1, <2>3, QuietStep
  <1> QED
    BY <1>2, <1>3, <1>4, <1>5, <1>6

LEMMA RestSteps ==
    ASSUME IInv, NEW r \in Requests,
           PutObject(r) \/ ImageFails(r) \/ CleanUp(r) \/ Leave(r)
    PROVE  IInv'
  <1> USE CustomQuotesAssumption
  <1>0. UNCHANGED <<quote, images, claims, judged, used>>
    BY DEF PutObject, ImageFails, CleanUp, Leave
  <1>1. bucket \subseteq Images /\ used \subseteq Images /\ proc[r] \in Proc
    BY DEF IInv, TypeOK
  <1>2. CASE PutObject(r)
    <2> DEFINE p == [proc[r] EXCEPT !.stage = "stored"]
    <2>1. /\ proc[r].stage = "putting" /\ stale' = stale
          /\ proc' = [proc EXCEPT ![r] = p] /\ bucket' = bucket \union {proc[r].key}
      BY <1>2 DEF PutObject
    <2>2. /\ proc[r].key \in Images /\ proc[r].id \in Quotes
          /\ quote[proc[r].id].status # "ABSENT"
          /\ r \notin stale => /\ proc[r].seen = quote[proc[r].id]
                               /\ proc[r].found = images[proc[r].id]
      BY <2>1 DEF IInv, Fresh, Carries, Comparing
    <2>3. /\ p \in Proc /\ p.stage = "stored" /\ p.key = proc[r].key
          /\ p.id = proc[r].id /\ p.seen = proc[r].seen /\ p.found = proc[r].found
      BY <1>1 DEF Proc, Stages, Comparing
    <2> HIDE DEF p
    <2> QED
      BY <1>0, <1>1, <2>1, <2>2, <2>3, QuietStep
  <1>3. CASE ImageFails(r)
    <2> DEFINE p == [proc[r] EXCEPT !.stage = "failing"]
    <2>1. stale' = stale /\ proc' = [proc EXCEPT ![r] = p] /\ bucket' = bucket
      BY <1>3 DEF ImageFails
    <2>2. p \in Proc /\ p.stage = "failing"
      BY <1>1 DEF Proc, Stages
    <2>3. p.stage \notin Comparing
      BY <2>2 DEF Comparing
    <2> HIDE DEF p
    <2> QED
      BY <1>0, <1>1, <2>1, <2>2, <2>3, QuietStep
  <1>4. CASE CleanUp(r) \/ Leave(r)
    <2>1. stale' = stale \ {r} /\ proc' = [proc EXCEPT ![r] = Idle] /\ bucket' \subseteq Images
      BY <1>1, <1>4 DEF CleanUp, Leave
    <2>2. Idle.stage \notin Comparing
      BY IdleType DEF Comparing
    <2> QED
      BY <1>0, <1>1, <2>1, <2>2, IdleType, QuietStep
  <1> QED
    BY <1>2, <1>3, <1>4

-----------------------------------------------------------------------------
(* Steps that write a quote.                                               *)

(* Every conditional write makes the other readers of the row stale, so what *)
(* the rest remember is still true.                                          *)
LEMMA WriteStep ==
    ASSUME IInv, NEW r \in Requests, proc[r].stage \in Comparing, NEW row \in Row,
           row.status # "ABSENT", Write(r, row), UNCHANGED <<images, bucket, used>>
    PROVE  /\ quote' \in [Quotes -> Row] /\ proc' \in [Requests -> Proc]
           /\ stale' \subseteq Requests
           /\ proc[r].id \in Quotes
           /\ \A q \in Quotes : quote'[q] = IF q = proc[r].id THEN row ELSE quote[q]
           /\ Fresh' /\ Carries' /\ Positions'
  <1> USE CustomQuotesAssumption
  <1> DEFINE id == proc[r].id
  <1>1. /\ quote' = [quote EXCEPT ![id] = row]
        /\ proc' = [proc EXCEPT ![r] = Idle]
        /\ stale' = (stale \union ReadersOf(id)) \ {r}
    BY DEF Write
  <1>2. id \in Quotes
    BY DEF IInv, Fresh
  <1>3. quote \in [Quotes -> Row] /\ proc \in [Requests -> Proc] /\ stale \subseteq Requests
    BY DEF IInv, TypeOK
  <1>4. \A q \in Quotes : quote'[q] = IF q = id THEN row ELSE quote[q]
    BY <1>1, <1>3
  <1>5. /\ \A s \in Requests : s # r => proc'[s] = proc[s]
        /\ proc'[r].stage = "idle"
    BY <1>1, <1>3, IdleType
  <1>6. Fresh'
    <2> SUFFICES ASSUME NEW s \in Requests, proc'[s].stage \in Comparing
                 PROVE  /\ proc'[s].id \in Quotes
                        /\ quote'[proc'[s].id].status # "ABSENT"
                        /\ s \notin stale' => /\ proc'[s].seen = quote'[proc'[s].id]
                                              /\ proc'[s].found = images'[proc'[s].id]
      BY DEF Fresh
    <2>1. s # r /\ proc'[s] = proc[s] /\ proc[s].stage \in Comparing
      BY <1>5 DEF Comparing
    <2>2. proc[s].id = id => s \in stale'
      BY <1>1, <2>1 DEF ReadersOf
    <2>3. s \notin stale' => s \notin stale
      BY <1>1, <2>1
    <2> QED
      BY <1>4, <2>1, <2>2, <2>3 DEF IInv, Fresh
  <1>7. Carries'
    BY <1>5 DEF IInv, Carries
  <1>8. Positions'
    BY DEF IInv, Positions
  <1> QED
    BY <1>1, <1>2, <1>3, <1>4, <1>6, <1>7, <1>8, IdleType DEF ReadersOf

\* A row with other columns is a row.
LEMMA RowType ==
    ASSUME NEW row \in Row
    PROVE  /\ \A t \in Techs : [row EXCEPT !.assigned = t, !.status = "IN_REVIEW"] \in Row
           /\ \A d \in Decisions, a \in Techs \union {Admin} :
                  [row EXCEPT !.status = d, !.reviewer = a] \in Row
           /\ [row EXCEPT !.status = "CANCELLED"] \in Row
  BY DEF Row, Open, Final, Decisions

LEMMA ClaimStep == ASSUME IInv, NEW r \in Requests, ClaimCommit(r) PROVE IInv'
  <1> USE CustomQuotesAssumption
  <1> DEFINE q == proc[r].id
             t == proc[r].actor
             row == [quote[q] EXCEPT !.assigned = t, !.status = "IN_REVIEW"]
  <1>1. /\ proc[r].stage = "claiming" /\ quote[q].status = "PENDING_REVIEW"
        /\ Write(r, row) /\ claims' = [claims EXCEPT ![q] = claims[q] \union {t}]
        /\ UNCHANGED <<images, bucket, used, judged>>
    BY DEF ClaimCommit, ClaimMatches, Claimable
  <1>2. t \in Techs /\ q \in Quotes
    BY <1>1 DEF IInv, Fresh, Carries, Comparing
  <1>3. quote[q] \in Row
    BY <1>2 DEF IInv, TypeOK
  <1>4. row \in Row /\ row.status = "IN_REVIEW" /\ row.assigned = t
    <2>1. row \in Row
      BY <1>2, <1>3, RowType
    <2> QED
      BY <1>3, <2>1 DEF Row
  <1> HIDE DEF row
  <1>5. /\ quote' \in [Quotes -> Row] /\ proc' \in [Requests -> Proc]
        /\ stale' \subseteq Requests
        /\ \A p \in Quotes : quote'[p] = IF p = q THEN row ELSE quote[p]
        /\ Fresh' /\ Carries' /\ Positions'
    BY <1>1, <1>4, WriteStep DEF Comparing
  <1>6. \A p \in Quotes : claims'[p] = IF p = q THEN claims[q] \union {t} ELSE claims[p]
    BY <1>1, <1>2 DEF IInv, TypeOK
  <1>7. TypeOK'
    BY <1>1, <1>2, <1>5 DEF IInv, TypeOK
  <1>8. Responsible'
    BY <1>1, <1>2, <1>4, <1>5, <1>6 DEF IInv, Responsible, Decisions
  <1>9. DecidedByResponsible' /\ DecidedOnWhatWasRead'
    BY <1>1, <1>4, <1>5 DEF IInv, DecidedByResponsible, DecidedOnWhatWasRead, Decisions
  <1> QED
    BY <1>5, <1>7, <1>8, <1>9 DEF IInv

LEMMA AssignStep == ASSUME IInv, NEW r \in Requests, AssignCommit(r) PROVE IInv'
  <1> USE CustomQuotesAssumption
  <1> DEFINE q == proc[r].id
             t == proc[r].tech
             row == [quote[q] EXCEPT !.assigned = t, !.status = "IN_REVIEW"]
  <1>1. /\ proc[r].stage = "assigning" /\ quote[q].status \in Open /\ Write(r, row)
        /\ UNCHANGED <<images, bucket, used, claims, judged>>
    BY DEF AssignCommit
  <1>2. t \in Techs /\ q \in Quotes
    BY <1>1 DEF IInv, Fresh, Carries, Comparing
  <1>3. quote[q] \in Row
    BY <1>2 DEF IInv, TypeOK
  <1>4. row \in Row /\ row.status = "IN_REVIEW" /\ row.assigned = t
    <2>1. row \in Row
      BY <1>2, <1>3, RowType
    <2> QED
      BY <1>3, <2>1 DEF Row
  <1> HIDE DEF row
  <1>5. /\ quote' \in [Quotes -> Row] /\ proc' \in [Requests -> Proc]
        /\ stale' \subseteq Requests
        /\ \A p \in Quotes : quote'[p] = IF p = q THEN row ELSE quote[p]
        /\ Fresh' /\ Carries' /\ Positions'
    BY <1>1, <1>4, WriteStep DEF Comparing
  <1>6. TypeOK'
    BY <1>1, <1>5 DEF IInv, TypeOK
  <1>7. Responsible'
    BY <1>1, <1>2, <1>4, <1>5 DEF IInv, Responsible, Decisions
  <1>8. DecidedByResponsible' /\ DecidedOnWhatWasRead'
    BY <1>1, <1>4, <1>5 DEF IInv, DecidedByResponsible, DecidedOnWhatWasRead, Decisions
  <1> QED
    BY <1>5, <1>6, <1>7, <1>8 DEF IInv

(* The row is the one the reviewer read, so she is responsible for it still, *)
(* and the images are those it had then.                                     *)
LEMMA ReviewStep == ASSUME IInv, NEW r \in Requests, ReviewCommit(r) PROVE IInv'
  <1> USE CustomQuotesAssumption
  <1> DEFINE q == proc[r].id
             row == [quote[q] EXCEPT !.status = proc[r].decision, !.reviewer = proc[r].actor]
  <1>1. /\ proc[r].stage = "reviewing" /\ quote[q].status = "IN_REVIEW"
        /\ r \notin stale /\ Write(r, row)
        /\ judged' = [judged EXCEPT ![q] = proc[r].found]
        /\ UNCHANGED <<images, bucket, used, claims>>
    BY DEF ReviewCommit, ReviewMatches, InReview, SameUpdatedAt
  <1>2. /\ q \in Quotes /\ proc[r].seen = quote[q] /\ proc[r].found = images[q]
        /\ proc[r].decision \in Decisions
        /\ proc[r].actor \in Techs \union {Admin}
        /\ proc[r].actor \in Techs => quote[q].assigned = proc[r].actor
    BY <1>1 DEF IInv, Fresh, Carries, Comparing
  <1>3. quote[q] \in Row /\ quote[q].assigned \in Techs /\ images[q] \in SUBSET Image
    BY <1>1, <1>2 DEF IInv, TypeOK, Responsible
  <1>4. /\ row \in Row /\ row.status \in Decisions /\ row.status # "ABSENT"
        /\ row.assigned = quote[q].assigned /\ row.reviewer = proc[r].actor
    <2>1. row \in Row
      BY <1>2, <1>3, RowType
    <2> QED
      BY <1>2, <1>3, <2>1 DEF Row, Decisions
  <1> HIDE DEF row
  <1>5. /\ quote' \in [Quotes -> Row] /\ proc' \in [Requests -> Proc]
        /\ stale' \subseteq Requests
        /\ \A p \in Quotes : quote'[p] = IF p = q THEN row ELSE quote[p]
        /\ Fresh' /\ Carries' /\ Positions'
    BY <1>1, <1>4, WriteStep DEF Comparing
  <1>6. \A p \in Quotes : judged'[p] = IF p = q THEN images[q] ELSE judged[p]
    BY <1>1, <1>2 DEF IInv, TypeOK
  <1>7. TypeOK'
    BY <1>1, <1>2, <1>3, <1>5 DEF IInv, TypeOK
  <1>8. Responsible'
    BY <1>1, <1>3, <1>4, <1>5 DEF IInv, Responsible, Decisions
  <1>9. DecidedByResponsible'
    <2>1. row.assigned # None /\ row.reviewer \in {Admin, row.assigned}
      BY <1>2, <1>3, <1>4 DEF Actors
    <2> QED
      BY <1>5, <2>1 DEF IInv, DecidedByResponsible
  <1>10. DecidedOnWhatWasRead'
    BY <1>1, <1>5, <1>6 DEF IInv, DecidedOnWhatWasRead
  <1> QED
    BY <1>5, <1>7, <1>8, <1>9, <1>10 DEF IInv

LEMMA CancelStep == ASSUME IInv, NEW r \in Requests, CancelCommit(r) PROVE IInv'
  <1> USE CustomQuotesAssumption
  <1> DEFINE q == proc[r].id
             row == [quote[q] EXCEPT !.status = "CANCELLED"]
  <1>1. /\ proc[r].stage = "cancelling" /\ Write(r, row)
        /\ UNCHANGED <<images, bucket, used, claims, judged>>
    BY DEF CancelCommit
  <1>2. q \in Quotes
    BY <1>1 DEF IInv, Fresh, Comparing
  <1>3. quote[q] \in Row
    BY <1>2 DEF IInv, TypeOK
  <1>4. row \in Row /\ row.status = "CANCELLED"
    <2>1. row \in Row
      BY <1>3, RowType
    <2> QED
      BY <1>3, <2>1 DEF Row
  <1> HIDE DEF row
  <1>5. /\ quote' \in [Quotes -> Row] /\ proc' \in [Requests -> Proc]
        /\ stale' \subseteq Requests
        /\ \A p \in Quotes : quote'[p] = IF p = q THEN row ELSE quote[p]
        /\ Fresh' /\ Carries' /\ Positions'
    BY <1>1, <1>4, WriteStep DEF Comparing
  <1>6. TypeOK'
    BY <1>1, <1>5 DEF IInv, TypeOK
  <1>7. Responsible' /\ DecidedByResponsible' /\ DecidedOnWhatWasRead'
    BY <1>1, <1>4, <1>5
       DEF IInv, Responsible, DecidedByResponsible, DecidedOnWhatWasRead, Decisions
  <1> QED
    BY <1>5, <1>6, <1>7 DEF IInv

LEMMA CreateStep ==
    ASSUME IInv, NEW r \in Requests, NEW c \in Clients, NEW q \in Quotes,
           NEW preferred \in Techs \union {None}, CreateQuote(r, c, q, preferred)
    PROVE  IInv'
  <1> USE CustomQuotesAssumption
  <1> DEFINE row == [NoRow EXCEPT !.status = "PENDING_REVIEW", !.client = c,
                                  !.preferred = preferred]
  <1>1. /\ quote[q].status = "ABSENT" /\ quote' = [quote EXCEPT ![q] = row]
        /\ UNCHANGED <<images, bucket, used, proc, stale, claims, judged>>
    BY DEF CreateQuote
  <1>2. row \in Row /\ row.status = "PENDING_REVIEW"
    BY DEF NoRow, Row, Open, Final
  <1> HIDE DEF row
  <1>3. \A p \in Quotes : quote'[p] = IF p = q THEN row ELSE quote[p]
    BY <1>1 DEF IInv, TypeOK
  <1>4. TypeOK'
    BY <1>1, <1>2 DEF IInv, TypeOK
  <1>5. Fresh'
    BY <1>1, <1>3 DEF IInv, Fresh
  <1>6. Carries' /\ Positions'
    BY <1>1 DEF IInv, Carries, Positions
  <1>7. Responsible' /\ DecidedByResponsible' /\ DecidedOnWhatWasRead'
    BY <1>1, <1>2, <1>3
       DEF IInv, Responsible, DecidedByResponsible, DecidedOnWhatWasRead, Decisions
  <1> QED
    BY <1>4, <1>5, <1>6, <1>7 DEF IInv

LEMMA OrdersOfUnion ==
    ASSUME NEW S, NEW x
    PROVE  {i.order : i \in S \union {x}} = {i.order : i \in S} \union {x.order}
  OBVIOUS

(* The new image takes the position after the last, so it is a new element,  *)
(* and the quote's readers no longer match.                                  *)
LEMMA ImageStep == ASSUME IInv, NEW r \in Requests, ImageCommit(r) PROVE IInv'
  <1> USE CustomQuotesAssumption
  <1> DEFINE q == proc[r].id
             n == Cardinality(images[q])
             image == [key |-> proc[r].key, order |-> n]
             p == [proc[r] EXCEPT !.stage = "recording"]
  <1>1. /\ proc[r].stage = "stored" /\ quote[q].status \in Open /\ n < ImageLimit
        /\ images' = [images EXCEPT ![q] = images[q] \union {image}]
        /\ proc' = [proc EXCEPT ![r] = p]
        /\ stale' = (stale \union ReadersOf(q)) \ {r}
        /\ UNCHANGED <<quote, bucket, used, claims, judged>>
    BY DEF ImageCommit, ImageMatches, SortOrder, Touched
  <1>2. q \in Quotes /\ proc[r].key \in Images /\ proc[r] \in Proc
    BY <1>1 DEF IInv, TypeOK, Fresh, Carries, Comparing
  <1>3. /\ IsFiniteSet(images[q]) /\ n \in Nat
        /\ {i.order : i \in images[q]} = 0 .. n - 1
    BY <1>2, FS_CardinalityType DEF IInv, Positions
  <1>4. image \notin images[q]
    BY <1>3
  <1>5. /\ IsFiniteSet(images[q] \union {image})
        /\ Cardinality(images[q] \union {image}) = n + 1
    BY <1>3, <1>4, FS_AddElement
  <1>6. {i.order : i \in images[q] \union {image}} = 0 .. n
    <2>1. {i.order : i \in images[q] \union {image}} = {i.order : i \in images[q]} \union {n}
      <3>1. image.order = n
        OBVIOUS
      <3> HIDE DEF image
      <3> QED
        BY <3>1, OrdersOfUnion
    <2>2. 0 .. n = (0 .. n - 1) \union {n}
      BY <1>3
    <2> QED
      BY <1>3, <2>1, <2>2
  <1>7. \A o \in Quotes : images'[o] = IF o = q THEN images[q] \union {image} ELSE images[o]
    BY <1>1 DEF IInv, TypeOK
  <1>8. image \in Image
    BY <1>2, <1>3 DEF Image
  <1>9. p \in Proc /\ p.stage = "recording"
    BY <1>2 DEF Proc, Stages
  <1> HIDE DEF p, image
  <1>10. /\ \A s \in Requests : s # r => proc'[s] = proc[s]
         /\ proc'[r].stage = "recording"
    BY <1>1, <1>9 DEF IInv, TypeOK
  <1>11. TypeOK'
    <2>1. images' \in [Quotes -> SUBSET Image]
      BY <1>1, <1>2, <1>8 DEF IInv, TypeOK
    <2> QED
      BY <1>1, <1>9, <2>1 DEF IInv, TypeOK, ReadersOf
  <1>12. Fresh'
    <2> SUFFICES ASSUME NEW s \in Requests, proc'[s].stage \in Comparing
                 PROVE  /\ proc'[s].id \in Quotes
                        /\ quote'[proc'[s].id].status # "ABSENT"
                        /\ s \notin stale' => /\ proc'[s].seen = quote'[proc'[s].id]
                                              /\ proc'[s].found = images'[proc'[s].id]
      BY DEF Fresh
    <2>1. s # r /\ proc'[s] = proc[s] /\ proc[s].stage \in Comparing
      BY <1>10 DEF Comparing
    <2>2. proc[s].id = q => s \in stale'
      BY <1>1, <2>1 DEF ReadersOf
    <2>3. s \notin stale' => s \notin stale
      BY <1>1, <2>1
    <2> QED
      BY <1>1, <1>7, <2>1, <2>2, <2>3 DEF IInv, Fresh
  <1>13. Carries'
    BY <1>10 DEF IInv, Carries
  <1>14. Positions'
    <2>1. n + 1 - 1 = n /\ n + 1 <= ImageLimit
      BY <1>1, <1>3
    <2>2. ASSUME NEW o \in Quotes
          PROVE  /\ IsFiniteSet(images'[o])
                 /\ Cardinality(images'[o]) <= ImageLimit
                 /\ {i.order : i \in images'[o]} = 0 .. Cardinality(images'[o]) - 1
      <3>1. CASE o = q
        <4>1. images'[o] = images[q] \union {image}
          BY <1>7, <3>1
        <4>2. Cardinality(images'[o]) = n + 1 /\ IsFiniteSet(images'[o])
          BY <1>5, <4>1
        <4>3. {i.order : i \in images'[o]} = 0 .. n
          BY <1>6, <4>1
        <4>4. Cardinality(images'[o]) <= ImageLimit /\ Cardinality(images'[o]) - 1 = n
          BY <1>3, <2>1, <4>2
        <4> QED
          BY <4>2, <4>3, <4>4
      <3>2. CASE o # q
        BY <1>7, <3>2 DEF IInv, Positions
      <3> QED
        BY <3>1, <3>2
    <2> QED
      BY <2>2 DEF Positions
  <1>15. Responsible' /\ DecidedByResponsible'
    BY <1>1 DEF IInv, Responsible, DecidedByResponsible
  <1>16. DecidedOnWhatWasRead'
    BY <1>1, <1>7 DEF IInv, DecidedOnWhatWasRead, Open, Decisions
  <1> QED
    BY <1>11, <1>12, <1>13, <1>14, <1>15, <1>16 DEF IInv

-----------------------------------------------------------------------------

LEMMA StepIInv == IInv /\ [Next]_vars => IInv'
  <1>1. ASSUME IInv, UNCHANGED vars PROVE IInv'
    BY <1>1 DEF vars, IInv, TypeOK, Fresh, Carries, Responsible, Positions,
                DecidedByResponsible, DecidedOnWhatWasRead
  <1> QED
    BY <1>1, CreateStep, CheckSteps, ClaimStep, AssignStep, ReviewStep, CancelStep,
       ImageStep, RestSteps DEF Next

LEMMA AlwaysIInv == Spec => []IInv
  BY InitIInv, StepIInv, PTL DEF Spec

\* The tables, the bucket and the requests keep their types.
THEOREM QuotesTypeCorrect == Spec => []TypeOK
  <1>1. IInv => TypeOK
    BY DEF IInv
  <1> QED
    BY <1>1, AlwaysIInv, PTL

\* A decided quote was decided by its responsible technician or the administrator.
THEOREM ResponsibleDecides == Spec => []DecidedByResponsible
  <1>1. IInv => DecidedByResponsible
    BY DEF IInv
  <1> QED
    BY <1>1, AlwaysIInv, PTL

\* Of any number of technicians who race for a request, one gets it.
THEOREM ClaimExclusive == Spec => []ClaimedOnce
  <1>1. IInv => ClaimedOnce
    <2> SUFFICES ASSUME IInv, NEW q \in Quotes PROVE Cardinality(claims[q]) <= 1
      BY DEF ClaimedOnce
    <2>1. PICK t : claims[q] \subseteq {t}
      BY DEF IInv, Responsible
    <2>2. Cardinality({}) = 0 /\ Cardinality({t}) = 1
      BY FS_EmptySet, FS_Singleton
    <2>3. claims[q] = {} \/ claims[q] = {t}
      BY <2>1
    <2> QED
      BY <2>2, <2>3
  <1> QED
    BY <1>1, AlwaysIInv, PTL

\* However many uploads race, a quote's images stay within the limit and their
\* positions consecutive.
THEOREM ImagesStayOrdered == Spec => []ImagesOrdered
  <1>1. IInv => ImagesOrdered
    BY DEF IInv, Positions, ImagesOrdered
  <1> QED
    BY <1>1, AlwaysIInv, PTL

\* No image slips in between a reviewer's reading and her decision.
THEOREM DecisionsOnWhatWasRead == Spec => []DecidedOnWhatWasRead
  <1>1. IInv => DecidedOnWhatWasRead
    BY DEF IInv
  <1> QED
    BY <1>1, AlwaysIInv, PTL

\* A quote in a final status and its images never change.
THEOREM FinalQuotesStayFinal == Spec => FinalIsFinal
  <1>1. ASSUME IInv, [Next]_vars
        PROVE  [\A q \in Quotes : quote[q].status \in Final
                    => quote'[q] = quote[q] /\ images'[q] = images[q]]_vars
    <2> SUFFICES ASSUME Next, NEW q \in Quotes, quote[q].status \in Final
                 PROVE  quote'[q] = quote[q] /\ images'[q] = images[q]
      BY <1>1
    <2>1. PICK r \in Requests :
              \/ \E c \in Clients, p \in Quotes, preferred \in Techs \union {None} :
                    CreateQuote(r, c, p, preferred)
              \/ ClaimCommit(r) \/ AssignCommit(r) \/ ReviewCommit(r) \/ CancelCommit(r)
              \/ ImageCommit(r)
              \/ UNCHANGED <<quote, images>>
      BY DEF Next, ClaimCheck, AssignCheck, ReviewCheck, CancelCheck, ImageCheck, PutObject,
             ImageFails, CleanUp, Leave
    <2>2. /\ quote \in [Quotes -> Row] /\ images \in [Quotes -> SUBSET Image]
      BY <1>1 DEF IInv, TypeOK
    <2>3. quote[q].status \notin Open /\ quote[q].status # "ABSENT"
      BY DEF Open, Final, Decisions
    <2>4. ASSUME NEW c \in Clients, NEW p \in Quotes, NEW preferred \in Techs \union {None},
                 CreateQuote(r, c, p, preferred)
          PROVE  quote'[q] = quote[q] /\ images'[q] = images[q]
      BY <2>2, <2>3, <2>4 DEF CreateQuote
    <2>5. CASE ClaimCommit(r) \/ AssignCommit(r) \/ ReviewCommit(r) \/ CancelCommit(r)
      <3>1. quote[proc[r].id].status \in Open
        BY <2>5 DEF ClaimCommit, ClaimMatches, Claimable, AssignCommit, ReviewCommit,
                    ReviewMatches, InReview, CancelCommit, CancelMatches, Open
      <3>2. /\ UNCHANGED images
            /\ \E row : quote' = [quote EXCEPT ![proc[r].id] = row]
        BY <2>5 DEF ClaimCommit, AssignCommit, ReviewCommit, CancelCommit, Write
      <3> QED
        BY <2>2, <2>3, <3>1, <3>2
    <2>6. CASE ImageCommit(r)
      BY <2>2, <2>3, <2>6 DEF ImageCommit, ImageMatches
    <2>7. CASE UNCHANGED <<quote, images>>
      BY <2>7
    <2> QED
      BY <2>1, <2>4, <2>5, <2>6, <2>7
  <1> QED
    BY <1>1, AlwaysIInv, PTL DEF Spec, FinalIsFinal
=============================================================================
