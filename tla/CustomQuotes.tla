---------------------------- MODULE CustomQuotes ----------------------------
(***************************************************************************)
(* Custom quotes of CatalogService: the client asks, one technician takes  *)
(* the request or the administrator assigns it, images are attached, and   *)
(* the responsible decides.  Every handler reads the row, awaits, and      *)
(* writes with one conditional statement; the image's handler also awaits  *)
(* MinIO in between and writes two tables under the lock of the quote.     *)
(***************************************************************************)
EXTENDS Integers, FiniteSets

CONSTANTS
    Quotes,      \* identifiers of rows of custom_quotes
    Techs, Clients, Admin,
    None,        \* null
    Requests,    \* HTTP requests in progress
    Images,      \* object keys, each made once
    ImageLimit   \* five

Actors == Techs \union Clients \union {Admin}

ASSUME CustomQuotesAssumption ==
    /\ ImageLimit \in Nat
    /\ Techs \intersect Clients = {}
    /\ Admin \notin Techs \union Clients
    /\ None \notin Actors \union Quotes \union Images

VARIABLES
    quote,    \* table custom_quotes
    images,   \* table quote_images, by quote: object key and sortOrder
    bucket,   \* objects in MinIO
    used,     \* object keys made so far
    proc,     \* what each request is doing and what it read
    stale,    \* requests whose row was written since they read it
    claims,   \* history: technicians whose claim of a quote succeeded
    judged    \* history: the images of a quote when its reviewer read it

vars == <<quote, images, bucket, used, proc, stale, claims, judged>>

Open == {"PENDING_REVIEW", "IN_REVIEW"}
Decisions == {"APPROVED", "REJECTED"}
Final == Decisions \union {"CANCELLED"}

Row == [status : Open \union Final \union {"ABSENT"}, client : Clients \union {None},
        preferred : Techs \union {None}, assigned : Techs \union {None},
        reviewer : Techs \union {Admin, None}]

NoRow == [status |-> "ABSENT", client |-> None, preferred |-> None,
          assigned |-> None, reviewer |-> None]

Image == [key : Images, order : Nat]

\* Stages of a handler that will compare updatedAt with what it read.
Comparing == {"claiming", "assigning", "reviewing", "cancelling", "putting", "stored"}
Stages == Comparing \union {"idle", "recording", "failing"}

Proc == [stage : Stages, actor : Actors \union {None}, id : Quotes \union {None},
         seen : Row, tech : Techs \union {None}, decision : Decisions \union {"ABSENT"},
         found : SUBSET Image, key : Images \union {None}]

Idle == [stage |-> "idle", actor |-> None, id |-> None, seen |-> NoRow, tech |-> None,
         decision |-> "ABSENT", found |-> {}, key |-> None]

TypeOK ==
    /\ quote \in [Quotes -> Row]
    /\ images \in [Quotes -> SUBSET Image]
    /\ bucket \subseteq Images /\ used \subseteq Images
    /\ proc \in [Requests -> Proc]
    /\ stale \subseteq Requests
    /\ claims \in [Quotes -> SUBSET Techs]
    /\ judged \in [Quotes -> SUBSET Image]

Init ==
    /\ quote = [q \in Quotes |-> NoRow]
    /\ images = [q \in Quotes |-> {}]
    /\ bucket = {} /\ used = {}
    /\ proc = [r \in Requests |-> Idle]
    /\ stale = {}
    /\ claims = [q \in Quotes |-> {}]
    /\ judged = [q \in Quotes |-> {}]

-----------------------------------------------------------------------------
(* Reading and writing a row.                                              *)

\* Handlers whose comparison of updatedAt a write of the row defeats.
ReadersOf(q) == {r \in Requests : proc[r].stage \in Comparing /\ proc[r].id = q}

Remember(r, actor, q, stage) ==
    [Idle EXCEPT !.stage = stage, !.actor = actor, !.id = q, !.seen = quote[q],
                 !.found = images[q]]

Write(r, row) ==
    /\ quote' = [quote EXCEPT ![proc[r].id] = row]
    /\ proc' = [proc EXCEPT ![r] = Idle]
    /\ stale' = (stale \union ReadersOf(proc[r].id)) \ {r}

SameUpdatedAt(r) == r \notin stale

SameAssigned(r) == quote[proc[r].id].assigned = proc[r].seen.assigned

-----------------------------------------------------------------------------
(* createQuote, claimQuote, assignQuote, reviewQuote, cancelQuote.         *)

CreateQuote(r, c, q, preferred) ==
    /\ proc[r].stage = "idle"
    /\ quote[q].status = "ABSENT"
    /\ quote' = [quote EXCEPT ![q] = [NoRow EXCEPT !.status = "PENDING_REVIEW",
                                                   !.client = c, !.preferred = preferred]]
    /\ UNCHANGED <<images, bucket, used, proc, stale, claims, judged>>

Claimable(row, t) ==
    /\ row.status = "PENDING_REVIEW"
    /\ row.assigned = None
    /\ row.preferred \in {None, t}

ClaimCheck(r, t, q) ==
    /\ proc[r].stage = "idle"
    /\ Claimable(quote[q], t)
    /\ proc' = [proc EXCEPT ![r] = Remember(r, t, q, "claiming")]
    /\ UNCHANGED <<quote, images, bucket, used, stale, claims, judged>>

ClaimWhileOpen(r) ==
    /\ quote[proc[r].id].status \in Open
    /\ quote[proc[r].id].preferred \in {None, proc[r].actor}

ClaimMatches(r) == Claimable(quote[proc[r].id], proc[r].actor) /\ SameUpdatedAt(r)

ClaimCommit(r) ==
    LET q == proc[r].id
        t == proc[r].actor
    IN  /\ proc[r].stage = "claiming"
        /\ ClaimMatches(r)
        /\ Write(r, [quote[q] EXCEPT !.assigned = t, !.status = "IN_REVIEW"])
        /\ claims' = [claims EXCEPT ![q] = claims[q] \union {t}]
        /\ UNCHANGED <<images, bucket, used, judged>>

AssignCheck(r, t, q) ==
    /\ proc[r].stage = "idle"
    /\ quote[q].status \in Open
    /\ proc' = [proc EXCEPT ![r] = [Remember(r, Admin, q, "assigning") EXCEPT !.tech = t]]
    /\ UNCHANGED <<quote, images, bucket, used, stale, claims, judged>>

AssignCommit(r) ==
    LET q == proc[r].id IN
    /\ proc[r].stage = "assigning"
    /\ quote[q].status \in Open
    /\ SameUpdatedAt(r) /\ SameAssigned(r)
    /\ Write(r, [quote[q] EXCEPT !.assigned = proc[r].tech, !.status = "IN_REVIEW"])
    /\ UNCHANGED <<images, bucket, used, claims, judged>>

ReviewCheck(r, actor, q, decision) ==
    /\ proc[r].stage = "idle"
    /\ quote[q].status = "IN_REVIEW"
    /\ actor \in Techs => quote[q].assigned = actor
    /\ actor = Admin /\ decision = "APPROVED" => quote[q].assigned # None
    /\ proc' = [proc EXCEPT ![r] = [Remember(r, actor, q, "reviewing")
                                       EXCEPT !.decision = decision]]
    /\ UNCHANGED <<quote, images, bucket, used, stale, claims, judged>>

InReview(r) == quote[proc[r].id].status = "IN_REVIEW"

ReviewMatches(r) == InReview(r) /\ SameUpdatedAt(r) /\ SameAssigned(r)

ReviewCommit(r) ==
    LET q == proc[r].id IN
    /\ proc[r].stage = "reviewing"
    /\ ReviewMatches(r)
    /\ Write(r, [quote[q] EXCEPT !.status = proc[r].decision, !.reviewer = proc[r].actor])
    /\ judged' = [judged EXCEPT ![q] = proc[r].found]
    /\ UNCHANGED <<images, bucket, used, claims>>

CancelCheck(r, c, q) ==
    /\ proc[r].stage = "idle"
    /\ quote[q].client = c
    /\ quote[q].status \in Open
    /\ proc' = [proc EXCEPT ![r] = Remember(r, c, q, "cancelling")]
    /\ UNCHANGED <<quote, images, bucket, used, stale, claims, judged>>

CancelByOwner(r) == quote[proc[r].id].client = proc[r].actor

CancelMatches(r) ==
    /\ quote[proc[r].id].client = proc[r].actor
    /\ quote[proc[r].id].status \in Open
    /\ SameUpdatedAt(r) /\ SameAssigned(r)
    /\ quote[proc[r].id].preferred = proc[r].seen.preferred

CancelCommit(r) ==
    /\ proc[r].stage = "cancelling"
    /\ CancelMatches(r)
    /\ Write(r, [quote[proc[r].id] EXCEPT !.status = "CANCELLED"])
    /\ UNCHANGED <<images, bucket, used, claims, judged>>

-----------------------------------------------------------------------------
(* uploadQuoteImage.                                                       *)

MayAttach(actor, row) ==
    /\ actor \in Clients => row.client = actor
    /\ actor \in Techs => row.assigned = actor

ImageCheck(r, actor, q, key) ==
    /\ proc[r].stage = "idle"
    /\ MayAttach(actor, quote[q])
    /\ Cardinality(images[q]) < ImageLimit
    /\ quote[q].status \in Open
    /\ key \notin used
    /\ used' = used \union {key}
    /\ proc' = [proc EXCEPT ![r] = [Remember(r, actor, q, "putting") EXCEPT !.key = key]]
    /\ UNCHANGED <<quote, images, bucket, stale, claims, judged>>

PutObject(r) ==
    /\ proc[r].stage = "putting"
    /\ bucket' = bucket \union {proc[r].key}
    /\ proc' = [proc EXCEPT ![r] = [proc[r] EXCEPT !.stage = "stored"]]
    /\ UNCHANGED <<quote, images, used, stale, claims, judged>>

Untouched(q) == {}

\* data: { updatedAt }: the image counts as a write of its quote.
Touched(q) == ReadersOf(q)

ImageUnlocked(r) ==
    quote[proc[r].id].status \in Open /\ MayAttach(proc[r].actor, quote[proc[r].id])

ImageMatches(r) ==
    /\ quote[proc[r].id].status \in Open
    /\ MayAttach(proc[r].actor, quote[proc[r].id])
    /\ SameUpdatedAt(r)
    /\ Cardinality(images[proc[r].id]) < ImageLimit

LastOrder(q) == Cardinality(images[q]) - 1

SortOrder(q) == Cardinality(images[q])

ImageCommit(r) ==
    LET q == proc[r].id
        image == [key |-> proc[r].key, order |-> SortOrder(q)]
    IN  /\ proc[r].stage = "stored"
        /\ ImageMatches(r)
        /\ images' = [images EXCEPT ![q] = images[q] \union {image}]
        /\ proc' = [proc EXCEPT ![r] = [proc[r] EXCEPT !.stage = "recording"]]
        /\ stale' = (stale \union Touched(q)) \ {r}
        /\ UNCHANGED <<quote, bucket, used, claims, judged>>

\* The transaction, or the audit record after it, fails inside the try.
ImageFails(r) ==
    /\ proc[r].stage \in {"stored", "recording"}
    /\ proc' = [proc EXCEPT ![r] = [proc[r] EXCEPT !.stage = "failing"]]
    /\ UNCHANGED <<quote, images, bucket, used, stale, claims, judged>>

CleanUp(r) ==
    /\ proc[r].stage = "failing"
    /\ bucket' \in {bucket, bucket \ {proc[r].key}}
    /\ proc' = [proc EXCEPT ![r] = Idle]
    /\ stale' = stale \ {r}
    /\ UNCHANGED <<quote, images, used, claims, judged>>

-----------------------------------------------------------------------------
(* A technician is no longer active, a condition matches no row, MinIO or   *)
(* PostgreSQL fails, the process dies; or the image's handler answers.      *)
Leave(r) ==
    /\ proc[r].stage # "idle"
    /\ proc' = [proc EXCEPT ![r] = Idle]
    /\ stale' = stale \ {r}
    /\ UNCHANGED <<quote, images, bucket, used, claims, judged>>

Next ==
    \E r \in Requests :
        \/ \E c \in Clients, q \in Quotes, preferred \in Techs \union {None} :
              CreateQuote(r, c, q, preferred)
        \/ \E t \in Techs, q \in Quotes : ClaimCheck(r, t, q) \/ AssignCheck(r, t, q)
        \/ ClaimCommit(r) \/ AssignCommit(r)
        \/ \E actor \in Techs \union {Admin}, q \in Quotes, decision \in Decisions :
              ReviewCheck(r, actor, q, decision)
        \/ ReviewCommit(r)
        \/ \E c \in Clients, q \in Quotes : CancelCheck(r, c, q)
        \/ CancelCommit(r)
        \/ \E actor \in Actors, q \in Quotes, key \in Images :
              ImageCheck(r, actor, q, key)
        \/ PutObject(r) \/ ImageCommit(r) \/ ImageFails(r) \/ CleanUp(r)
        \/ Leave(r)

Spec == Init /\ [][Next]_vars

-----------------------------------------------------------------------------
(* Properties.                                                             *)

\* A decided quote was decided by the administrator or by the very technician who
\* is responsible for it, and there is one, although the administrator may reassign
\* it while the other reviews (reviewQuote, assignQuote).
DecidedByResponsible ==
    \A q \in Quotes :
        quote[q].status \in Decisions =>
            /\ quote[q].assigned # None
            /\ quote[q].reviewer \in {Admin, quote[q].assigned}

\* Of the technicians who take a request open to all, one succeeds (claimQuote).
ClaimedOnce == \A q \in Quotes : Cardinality(claims[q]) <= 1

\* A quote has at most ImageLimit images, in consecutive positions, although each
\* upload counts them before and after it awaits MinIO (uploadQuoteImage).
ImagesOrdered ==
    \A q \in Quotes :
        /\ Cardinality(images[q]) <= ImageLimit
        /\ {i.order : i \in images[q]} = 0 .. Cardinality(images[q]) - 1

\* The images of a decided quote are those it had when the reviewer's handler read
\* it: none slips in between the reading and the decision (uploadQuoteImage touches
\* updatedAt, reviewQuote compares it).
DecidedOnWhatWasRead ==
    \A q \in Quotes : quote[q].status \in Decisions => images[q] = judged[q]

\* A quote that was approved, rejected or cancelled never changes again, nor do its
\* images, whatever late request still holds its earlier row (all handlers).
FinalIsFinal ==
    [][\A q \in Quotes : quote[q].status \in Final
           => quote'[q] = quote[q] /\ images'[q] = images[q]]_vars
=============================================================================
