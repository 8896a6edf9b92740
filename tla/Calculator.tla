----------------------------- MODULE Calculator -----------------------------
(***************************************************************************)
(* The calculator of designs: the table of options, which the API fills at *)
(* its first start and the administrator edits; the page where a client    *)
(* puts a design together and sees an estimate; and the quote the API      *)
(* prices again when she sends it, followed by the images she attaches.    *)
(* Prices, minutes and the list of options are reduced to a few.           *)
(***************************************************************************)
EXTENDS Integers, Sequences, FiniteSetsExt

CONSTANTS
    Instances,     \* processes of the API that start
    MaxSaves,      \* bound: edits of the administrator
    MaxQuotes,     \* bound: quotes of this page
    None

VARIABLES
    options,   \* table calculator_options: code -> row
    boot,      \* each instance: stage and options created at this start
    saves,
    page,      \* the page of the client
    quote,     \* the last quote the API stored for it
    quotes,    \* and how many
    cut,       \* history: a crash, or a code made by hand, cut the filling short
    repeated   \* history: an answer or an image failed after the quote was stored

vars == <<options, boot, saves, page, quote, quotes, cut, repeated>>

\* Kind, parent, unit and limit of the options, two techniques first.
Seeds == <<
    [code |-> "gel",     kind |-> "TECHNIQUE",  parent |-> None,  unit |-> FALSE, price |-> 3, minutes |-> 60, max |-> 1],
    [code |-> "acrylic", kind |-> "TECHNIQUE",  parent |-> None,  unit |-> FALSE, price |-> 5, minutes |-> 90, max |-> 1],
    [code |-> "stones",  kind |-> "DECORATION", parent |-> None,  unit |-> TRUE,  price |-> 1, minutes |-> 5,  max |-> 2],
    [code |-> "long",    kind |-> "LENGTH",     parent |-> "gel", unit |-> FALSE, price |-> 2, minutes |-> 15, max |-> 1]>>

Codes == {Seeds[k].code : k \in 1..Len(Seeds)}
SeedOf(c) == Seeds[CHOOSE k \in 1..Len(Seeds) : Seeds[k].code = c]

Fresh(c) == [row |-> SeedOf(c), active |-> TRUE]

\* What the administrator may save: dearer, the other limit, withdrawn.
\* The limit and the pricing mode are saved apart: a FIXED option may allow two.
\* Edits of the kind and the parent are left out.
Edits(c) ==
    {[row |-> [SeedOf(c) EXCEPT !.price = 4], active |-> TRUE],
     [row |-> [SeedOf(c) EXCEPT !.max = 3 - @], active |-> TRUE],
     [row |-> SeedOf(c), active |-> FALSE]}

TypeOK ==
    /\ DOMAIN options \subseteq Codes
    /\ \A c \in DOMAIN options : options[c] \in {Fresh(c)} \union Edits(c)
    /\ \A i \in Instances :
         boot[i] \in [stage : {"down", "seeding", "up"}, made : 0..Len(Seeds)]
    /\ saves \in 0..MaxSaves
    /\ page.stage \in {"loading", "editing", "posting", "uploading", "sent"}
    /\ DOMAIN page.shown \subseteq Codes
    /\ page.quantities \in [Codes -> 0..2] /\ page.noDesign \in BOOLEAN
    /\ quotes \in 0..MaxQuotes
    /\ IF quotes = 0 THEN quote = None ELSE DOMAIN quote.selection \subseteq Codes
    /\ cut \in BOOLEAN /\ repeated \in BOOLEAN

Nothing == [c \in Codes |-> 0]

Init ==
    /\ options = <<>>
    /\ boot = [i \in Instances |-> [stage |-> "down", made |-> 0]]
    /\ saves = 0
    /\ page = [stage |-> "loading", shown |-> <<>>, quantities |-> Nothing, noDesign |-> FALSE]
    /\ quote = None /\ quotes = 0
    /\ cut = FALSE /\ repeated = FALSE

-----------------------------------------------------------------------------
(* CatalogBootstrapService.onModuleInit and the administrator.             *)

Boots(i, stage, made) == boot' = [boot EXCEPT ![i] = [stage |-> stage, made |-> made]]

\* count > 0.
Counted == DOMAIN options # {}

Count(i) ==
    /\ boot[i].stage = "down"
    /\ Boots(i, IF Counted THEN "up" ELSE "seeding", 0)
    /\ UNCHANGED <<options, saves, page, quote, quotes, cut, repeated>>

\* One create per option, parents first; the codes are unique, and a
\* collision ends the process, which is started again.
CreateSeed(i) ==
    /\ boot[i].stage = "seeding"
    /\ LET made == boot[i].made + 1
           c == Seeds[made].code
       IN  IF c \in DOMAIN options
           THEN Boots(i, "down", 0) /\ UNCHANGED options
           ELSE /\ options' = [x \in DOMAIN options \union {c} |-> IF x = c THEN Fresh(c) ELSE options[x]]
                /\ Boots(i, IF made = Len(Seeds) THEN "up" ELSE "seeding", made)
    /\ UNCHANGED <<saves, page, quote, quotes, cut, repeated>>

\* The process dies while it fills the table: nothing is rolled back.
CrashSeeding(i) ==
    /\ boot[i].stage = "seeding"
    /\ Boots(i, "down", 0)
    /\ cut' = (cut \/ boot[i].made > 0)
    /\ UNCHANGED <<options, saves, page, quote, quotes, repeated>>

Served == \E i \in Instances : boot[i].stage = "up"

\* createOption and updateOption: the parent must exist.
SaveOption(c, saved) ==
    /\ Served /\ saves < MaxSaves
    /\ saved.row.parent \in DOMAIN options \union {None}
    /\ options' = [x \in DOMAIN options \union {c} |-> IF x = c THEN saved ELSE options[x]]
    /\ saves' = saves + 1 /\ cut' = (cut \/ c \notin DOMAIN options)
    /\ UNCHANGED <<boot, page, quote, quotes, repeated>>

-----------------------------------------------------------------------------
(* The page.                                                               *)

ActiveOptions == {c \in DOMAIN options : options[c].active}

\* GET /catalog/calculator: the active options.
LoadCalculator ==
    /\ Served /\ page.stage = "loading"
    /\ page' = [page EXCEPT !.stage = "editing", !.shown = [c \in ActiveOptions |-> options[c].row]]
    /\ UNCHANGED <<options, boot, saves, quote, quotes, cut, repeated>>

OfKind(kinds) == {c \in DOMAIN page.shown : page.shown[c].kind \in kinds}
Chosen == {c \in DOMAIN page.shown : page.quantities[c] > 0}
Technique == Chosen \intersect OfKind({"TECHNIQUE"})
VisibleOptions == {c \in DOMAIN page.shown : page.shown[c].kind # "LENGTH" \/ page.shown[c].parent \in Technique}

\* A technique replaces the technique and the length, a length the length.
Replaced(kind) ==
    CASE kind = "TECHNIQUE" -> {"TECHNIQUE", "LENGTH"}
      [] kind = "LENGTH" -> {"LENGTH"}
      [] OTHER -> {}

Clamped(c, n) == IF n < 0 THEN 0 ELSE IF n > page.shown[c].max THEN page.shown[c].max ELSE n

\* A tile chooses its option, and clears it at once whatever its quantity.
TileQuantity(c) == IF page.quantities[c] > 0 THEN 0 ELSE 1

\* The counter of a chosen option with a limit above one, FIXED or PER_UNIT.
CounterQuantities(c) ==
    IF page.shown[c].max > 1 /\ page.quantities[c] > 0
    THEN {page.quantities[c] - 1, page.quantities[c] + 1}
    ELSE {}

\* The form stays open while a call is out, but the call sends what was chosen
\* at the click: a change made meanwhile is one made after it comes back.
SetQuantity(c, n) ==
    /\ page.stage = "editing" /\ c \in VisibleOptions
    /\ n \in {TileQuantity(c)} \union CounterQuantities(c)
    /\ LET cleared == OfKind(Replaced(page.shown[c].kind))
       IN  page' = [page EXCEPT !.noDesign = FALSE,
                      !.quantities = [x \in Codes |-> IF x = c THEN Clamped(c, n)
                                        ELSE IF x \in cleared THEN 0 ELSE page.quantities[x]]]
    /\ UNCHANGED <<options, boot, saves, quote, quotes, cut, repeated>>

NoDesign ==
    /\ page.stage = "editing" /\ ~page.noDesign
    /\ page' = [page EXCEPT !.noDesign = TRUE, !.quantities = Nothing]
    /\ UNCHANGED <<options, boot, saves, quote, quotes, cut, repeated>>

Times(row, n) == IF row.unit THEN n ELSE 1

EstimatedPrice == MapThenSumSet(LAMBDA c : page.shown[c].price * Times(page.shown[c], page.quantities[c]), Chosen)
EstimatedTime ==
    LET total == MapThenSumSet(LAMBDA c : page.shown[c].minutes * Times(page.shown[c], page.quantities[c]), Chosen)
    IN  IF total < 60 THEN 60 ELSE total

\* The button is disabled until a technique, or no design, is chosen.
SendEnabled == page.noDesign \/ Technique # {}

\* A client who is signed in presses it.
Submit ==
    /\ page.stage = "editing" /\ SendEnabled /\ quotes < MaxQuotes
    /\ page' = [page EXCEPT !.stage = "posting"]
    /\ UNCHANGED <<options, boot, saves, quote, quotes, cut, repeated>>

-----------------------------------------------------------------------------
(* createQuote, then an upload per image.                                  *)

AmountEach(c, n) == options[c].row.price * n

Amount(c, n) == IF options[c].row.unit THEN options[c].row.price * n ELSE options[c].row.price

Duration(selection) ==
    LET total == MapThenSumSet(LAMBDA c : options[c].row.minutes
                                  * (IF options[c].row.unit THEN selection[c] ELSE 1), DOMAIN selection)
    IN  IF total > 60 THEN total ELSE 60

Rejected(selection) ==
    \/ ~page.noDesign /\ DOMAIN selection = {}
    \/ ~(DOMAIN selection \subseteq ActiveOptions)
    \/ \E c \in DOMAIN selection : selection[c] > options[c].row.max

\* estimated: what the page showed, fresh: it showed the rows the API priced.
Quote(selection) ==
    [selection |-> selection,
     price |-> MapThenSumSet(LAMBDA c : Amount(c, selection[c]), DOMAIN selection),
     minutes |-> Duration(selection),
     estimated |-> <<EstimatedPrice, EstimatedTime>>,
     fresh |-> \A c \in DOMAIN selection : options[c].row = page.shown[c]]

Selection == IF page.noDesign THEN <<>> ELSE [c \in Chosen |-> page.quantities[c]]

CreateQuote ==
    /\ page.stage = "posting"
    /\ IF Rejected(Selection)
       THEN page' = [page EXCEPT !.stage = "editing"] /\ UNCHANGED <<quote, quotes>>
       ELSE /\ quote' = Quote(Selection) /\ quotes' = quotes + 1
            /\ page' = [page EXCEPT !.stage = "uploading"]
    /\ UNCHANGED <<options, boot, saves, cut, repeated>>

\* Every image went up, or there was none.
ShowSent ==
    /\ page.stage = "uploading"
    /\ page' = [page EXCEPT !.stage = "sent"]
    /\ UNCHANGED <<options, boot, saves, quote, quotes, cut, repeated>>

\* The request, its answer or an image is lost: the page shows an error and
\* the same form, whether or not the API stored the quote.
ShowError ==
    /\ page.stage \in {"posting", "uploading"}
    /\ page' = [page EXCEPT !.stage = "editing"]
    /\ repeated' = (repeated \/ page.stage = "uploading")
    /\ UNCHANGED <<options, boot, saves, quote, quotes, cut>>

Next ==
    \/ \E i \in Instances : Count(i) \/ CreateSeed(i) \/ CrashSeeding(i)
    \/ \E c \in Codes : \E saved \in Edits(c) : SaveOption(c, saved)
    \/ LoadCalculator \/ NoDesign \/ Submit \/ CreateQuote \/ ShowSent \/ ShowError
    \/ \E c \in Codes, n \in -1..3 : SetQuantity(c, n)

Spec == Init /\ [][Next]_vars

-----------------------------------------------------------------------------
(* Properties.                                                             *)

\* The page and the API multiply by the quantity where the other does: on rows
\* that did not change in between, PER_UNIT or FIXED, the quote stores the price
\* and the time the page showed.
EstimateAgrees ==
    quotes > 0 /\ quote.fresh => quote.estimated = <<quote.price, quote.minutes>>

\* The API takes any set of options; what the page sends is no design, or one
\* technique, and a length only with the technique it belongs to.
OneShape ==
    quotes > 0 =>
       LET chosen == DOMAIN quote.selection
       IN  /\ chosen = {} \/ Cardinality({c \in chosen : SeedOf(c).kind = "TECHNIQUE"}) = 1
           /\ \A c \in chosen : SeedOf(c).kind = "LENGTH" => SeedOf(c).parent \in chosen

\* The page's button and counters ask for no more than the API takes: what she
\* sends is rejected only for an option that changed since the page loaded.
SentIsTaken ==
    (/\ page.stage = "posting"
     /\ \A c \in DOMAIN Selection : c \in ActiveOptions /\ options[c].row = page.shown[c])
    => ~Rejected(Selection)

\* A second quote from one page follows a lost answer or image, nothing else.
RepeatsExplained == quotes > 1 => repeated

\* Instances that start together leave the whole list, unless a crash cut
\* the filling short or one of its codes was made by hand: then no later start completes it.
SeededWhole ==
    (Served /\ ~cut /\ \A i \in Instances : boot[i].stage # "seeding") => DOMAIN options = Codes

CalculatorOK == EstimateAgrees /\ OneShape /\ SentIsTaken /\ RepeatsExplained /\ SeededWhole

=============================================================================
