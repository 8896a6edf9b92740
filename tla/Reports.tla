------------------------------ MODULE Reports ------------------------------
(***************************************************************************)
(* The administrator's dashboard and reports over a range of days, the     *)
(* pages of the audit log, and the files they are exported to.  The        *)
(* dashboard asks the database several questions, one statement each, with *)
(* no transaction around them, while the studio goes on working.           *)
(***************************************************************************)
EXTENDS Integers, FiniteSetsExt, SequencesExt

CONSTANTS
    Appointments, Clients, Queries,
    FirstDay, LastDay,   \* the range asked for; and there is a day after it
    Instants,            \* createdAt of audit entries
    MaxEntries,          \* bound: audit entries
    PageSize,
    TextPieces,          \* characters of the exported texts
    None

VARIABLES
    appt,    \* table appointments with its deposit
    log,     \* table audit_logs
    query,   \* what each query of the administrator is doing
    fresh    \* history: queries during which nothing they count has changed

vars == <<appt, log, query, fresh>>

Days == FirstDay .. LastDay + 1
Within(day) == day >= FirstDay /\ day <= LastDay
Statuses == {"HELD", "CONFIRMED", "COMPLETED", "CANCELLED"}
Attended(rows) == {row \in rows : row.status = "COMPLETED"}

Row == [id : Appointments, status : Statuses, day : Days, client : Clients \union {None}]

\* The questions of the dashboard; how many clients are new is left out.
Questions == {"appointments", "deposits", "designs", "clients"}

Stages == {"idle", "dashboard", "answered", "paging"}

\* rows: what findMany read.  grouped, completed: what groupBy read, in turn.
\* page, read, first: entries of the audit log read so far, and those of the start.
Idle == [stage |-> "idle", todo |-> {}, rows |-> {}, deposits |-> {}, designs |-> {},
         grouped |-> {}, completed |-> {}, page |-> 0, read |-> {}, first |-> {}]

Absent == [id |-> None, status |-> "ABSENT", day |-> FirstDay, client |-> None]

TypeOK ==
    /\ \A a \in Appointments : appt[a] \in Row \union {Absent}
    /\ log \subseteq (1..MaxEntries) \X Instants
    /\ \A q \in Queries : query[q].stage \in Stages /\ query[q].todo \subseteq Questions
    /\ fresh \subseteq Queries

Init ==
    /\ appt = [a \in Appointments |-> Absent]
    /\ log = {}
    /\ query = [q \in Queries |-> Idle]
    /\ fresh = {}

-----------------------------------------------------------------------------
(* The studio meanwhile.                                                   *)

Table == {appt[a] : a \in {b \in Appointments : appt[b].status # "ABSENT"}}

Changed == fresh' = {}

Book(a, day, client, status) ==
    /\ appt[a] = Absent
    /\ appt' = [appt EXCEPT ![a] = [id |-> a, status |-> status, day |-> day, client |-> client]]
    /\ Changed
    /\ UNCHANGED <<log, query>>

\* A move to a later day (a bound: never back), or a step of the appointment's life.
Follows(from, to) ==
    \/ from = "HELD" /\ to \in {"CONFIRMED", "CANCELLED"}
    \/ from = "CONFIRMED" /\ to \in {"COMPLETED", "CANCELLED"}

Progress(a, day, status) ==
    /\ appt[a] # Absent
    /\ \/ Follows(appt[a].status, status) /\ day = appt[a].day
       \/ appt[a].status \in {"HELD", "CONFIRMED"} /\ status = appt[a].status /\ day > appt[a].day
    /\ appt' = [appt EXCEPT ![a].day = day, ![a].status = status]
    /\ Changed
    /\ UNCHANGED <<log, query>>

\* Entries are only added; the API's clock may give two the same instant.
Record(n, t) ==
    /\ n = Cardinality(log) + 1 /\ n <= MaxEntries
    /\ log' = log \union {<<n, t>>}
    /\ UNCHANGED <<appt, query, fresh>>

-----------------------------------------------------------------------------
(* The dashboard.                                                          *)

Become(q, p) == query' = [query EXCEPT ![q] = p]

InRange == {row \in Table : Within(row.day)}

Dashboard(q) ==
    /\ query[q].stage = "idle"
    /\ Become(q, [Idle EXCEPT !.stage = "dashboard", !.todo = Questions])
    /\ fresh' = fresh \union {q}
    /\ UNCHANGED <<appt, log>>

\* Of each question: the next column of the answer.
Answered(q, p, question) ==
    /\ query[q].stage = "dashboard" /\ question \in query[q].todo
    /\ Become(q, [p EXCEPT !.todo = p.todo \ {question},
                           !.stage = IF p.todo = {question} THEN "answered" ELSE "dashboard"])
    /\ UNCHANGED <<appt, log, fresh>>

AskAppointments(q) == Answered(q, [query[q] EXCEPT !.rows = InRange], "appointments")

\* Every appointment of the range that was booked online has a deposit.
AskDeposits(q) ==
    Answered(q, [query[q] EXCEPT !.deposits = {row \in InRange : row.client # None}], "deposits")

\* Grouping by design leaves out what was cancelled or expired.
AskDesigns(q) ==
    Answered(q, [query[q] EXCEPT !.designs = {row \in InRange : row.status # "CANCELLED"}], "designs")

FrequentRow(row) == row.status \in {"CONFIRMED", "COMPLETED"}

\* clientRows groups first and asks for the completed ones of those clients later.
AskClients(q) ==
    /\ query[q].stage = "dashboard" /\ "clients" \in query[q].todo
    /\ query[q].grouped = {}
    /\ Become(q, [query[q] EXCEPT !.grouped =
                    {row \in InRange : row.client # None /\ FrequentRow(row)}])
    /\ UNCHANGED <<appt, log, fresh>>

AskCompleted(q) ==
    LET of == {row.client : row \in query[q].grouped}
    IN  Answered(q, [query[q] EXCEPT !.completed = {row \in Attended(InRange) : row.client \in of}],
                 "clients")

Number(rows) == Cardinality(rows)
OfStatus(rows, s) == {row \in rows : row.status = s}

\* counts of the appointments, and the daily figures of the range's days.
CountBy(rows) == [s \in Statuses |-> Number(OfStatus(rows, s))]

DaysShown == FirstDay .. LastDay

Daily(rows) ==
    [d \in DaysShown |->
       LET today == {row \in rows : row.day = d}
       IN  [total |-> Number(today), completed |-> Number(Attended(today)),
            cancelled |-> Number(OfStatus(today, "CANCELLED"))]]

AppointmentsInRange(q, c) == Number({row \in query[q].grouped : row.client = c})
CompletedInRange(q, c) == Number({row \in query[q].completed : row.client = c})

Close(q) ==
    /\ query[q].stage = "answered"
    /\ Become(q, Idle)
    /\ fresh' = fresh \ {q}
    /\ UNCHANGED <<appt, log>>

-----------------------------------------------------------------------------
(* The audit log, newest first, one page per request.                      *)

\* Any order of the entries that puts later instants first.
Orders == {s \in SetToSeqs(log) : \A i, j \in DOMAIN s : i < j => s[i][2] >= s[j][2]}

SkippedMore(n) == n * PageSize + 1

Skipped(n) == n * PageSize

Audit(q) ==
    /\ query[q].stage = "idle"
    /\ Become(q, [Idle EXCEPT !.stage = "paging", !.first = log])
    /\ UNCHANGED <<appt, log, fresh>>

NextPage(q) ==
    LET n == query[q].page
    IN  /\ query[q].stage = "paging"
        /\ Skipped(n) < Cardinality(log)
        /\ \E s \in Orders :
             Become(q, [query[q] EXCEPT
                !.page = n + 1,
                !.read = query[q].read \union
                           {s[i] : i \in Skipped(n) + 1 .. Min({Skipped(n) + PageSize, Len(s)})}])
        /\ UNCHANGED <<appt, log, fresh>>

AllPages(q) ==
    /\ query[q].stage = "paging"
    /\ Skipped(query[q].page) >= Cardinality(log)
    /\ Become(q, Idle)
    /\ UNCHANGED <<appt, log, fresh>>

LogNext ==
    \/ \E n \in 1..MaxEntries, t \in Instants : Record(n, t)
    \/ \E q \in Queries : Audit(q) \/ NextPage(q) \/ AllPages(q)

DashboardNext ==
    \/ \E a \in Appointments, d \in Days, s \in Statuses :
         \/ Progress(a, d, s)
         \/ \E c \in Clients : s = "HELD" /\ Book(a, d, c, s)
         \/ s = "CONFIRMED" /\ Book(a, d, None, s)
    \/ \E q \in Queries :
         \/ Dashboard(q) \/ AskAppointments(q) \/ AskDeposits(q) \/ AskDesigns(q)
         \/ AskClients(q) \/ AskCompleted(q) \/ Close(q)

Next == LogNext \/ DashboardNext

Spec == Init /\ [][Next]_vars

-----------------------------------------------------------------------------
(* Exported files.                                                         *)

\* A text is a sequence of characters; two of them stand for those that begin
\* a formula and for those that need quotes.
Formula == "="
Special == {"quote", ","}

Doubled(text) ==
    FlattenSeq([i \in DOMAIN text |-> IF text[i] = "quote" THEN <<"quote", "quote">> ELSE <<text[i]>>])

Kept(text) == IF text # <<>> /\ text[1] = Formula THEN <<"'">> \o text ELSE text

Quoted(text) == <<"quote">> \o Doubled(text) \o <<"quote">>

EscapeCommas(raw) ==
    LET text == Kept(raw)
    IN  IF Contains(text, ",") THEN Quoted(text) ELSE text

Escape(raw) ==
    LET text == Kept(raw)
    IN  IF \E c \in Special : Contains(text, c) THEN Quoted(text) ELSE text

Csv(fields) ==
    FlattenSeq([i \in DOMAIN fields |->
                  IF i = 1 THEN Escape(fields[i]) ELSE <<",">> \o Escape(fields[i])])

-----------------------------------------------------------------------------
(* Properties.                                                             *)

\* The dashboard's total is the sum of its counts and of its daily figures; and,
\* when nothing changed while it was being put together, its deposits and designs
\* are those of the appointments it counts, and no client completed more
\* appointments than she had.
DashboardAgrees ==
    \A q \in Queries : query[q].stage = "answered" =>
       LET rows == query[q].rows
       IN  /\ MapThenSumSet(LAMBDA s : CountBy(rows)[s], Statuses) = Number(rows)
           /\ MapThenSumSet(LAMBDA d : Daily(rows)[d].total, DOMAIN Daily(rows)) = Number(rows)
           /\ q \in fresh =>
                /\ query[q].deposits \union query[q].designs \subseteq rows
                /\ \A c \in Clients : CompletedInRange(q, c) <= AppointmentsInRange(q, c)

\* Whoever reads the audit log page after page sees every entry that was there at
\* the start, whatever is added meanwhile, unless it shares its instant with
\* another one: the order of those is the database's own at each page.
PagesCoverLog ==
    \A q \in Queries :
       query[q].stage = "paging" /\ Skipped(query[q].page) >= Cardinality(log) =>
          \A e \in query[q].first : e \in query[q].read \/ \E f \in log \ {e} : f[2] = e[2]

Texts == SeqOf(TextPieces, 2)

\* A reader of the file: what each character does to the fields so far.
ReadChar(state, c) ==
    IF c = "quote" THEN
         IF state.inside THEN [state EXCEPT !.inside = FALSE, !.closed = TRUE]
         ELSE IF state.closed
              THEN [state EXCEPT !.inside = TRUE, !.closed = FALSE,
                                 !.fields = Append(Front(state.fields), Append(Last(state.fields), c))]
              ELSE [state EXCEPT !.inside = TRUE]
    ELSE IF c = "," /\ ~state.inside
         THEN [inside |-> FALSE, closed |-> FALSE, fields |-> Append(state.fields, <<>>)]
    ELSE [state EXCEPT !.fields = Append(Front(state.fields), Append(Last(state.fields), c))]

ReadFields(line) ==
    FoldLeft(ReadChar, [inside |-> FALSE, closed |-> FALSE, fields |-> <<<<>>>>], line).fields

\* An exported line reads back as the texts it was made of, those that begin a
\* formula behind an apostrophe.
ExportReadsBack ==
    \A f, g \in Texts : ReadFields(Csv(<<f, g>>)) = <<Kept(f), Kept(g)>>

=============================================================================
