--------------------------- MODULE WorkbookSheets ----------------------------
(***************************************************************************)
(* How a supplier's workbook becomes quotation scenarios: the header found *)
(* by what its texts name, the table under it cut into runs of product     *)
(* rows, a scenario per run.  What is parsed is what the review later      *)
(* offers as the layouts of the quotation (module QuotationReview).        *)
(***************************************************************************)
EXTENDS Integers, FiniteSets, Sequences

CONSTANT HeaderWindow    \* the rows among which the header is sought: 50

\* A row is a sequence of cells.
Sheets  == [visible : BOOLEAN, rows : Seq(Seq(STRING))]
Blank   == "blank"
Amounts == [one |-> 1, ten |-> 10]
Numeric == DOMAIN Amounts

------------------------------------------------------------------------------
(* The header *)

Roles == {"sku", "description", "quantity", "unitPrice", "total"}

\* The roles some alias of which is the text or is part of it.
Aliased(text) ==
    CASE text = "style"       -> {"sku"}
      [] text = "item name"   -> {"sku", "description"}
      [] text = "qty"         -> {"quantity"}
      [] text = "unit price"  -> {"unitPrice"}
      [] text = "fob qty 500" -> {"quantity", "unitPrice"}
      [] text = "total"       -> {"total"}
      [] OTHER                -> {}

PriceTexts == {"unit price", "fob qty 500"}

\* The quantity a price is quoted for is not the quantity asked for.
RolesNamed(text) ==
    IF text \in PriceTexts THEN Aliased(text) \ {"quantity"} ELSE Aliased(text)

\* Column 0 stands for a role not found.  The code counts columns from zero
\* and reads that zero as not found: a role named in the first column is
\* found, and scored, again.
Discovered(row) ==
    LET upTo[c \in 0 .. Len(row)] ==
            IF c = 0
            THEN [columns |-> [r \in Roles |-> 0], score |-> 0]
            ELSE LET found == {r \in RolesNamed(row[c]) : upTo[c - 1].columns[r] <= 1}
                 IN [columns |-> [r \in Roles |-> IF r \in found THEN c
                                                  ELSE upTo[c - 1].columns[r]],
                     score |-> upTo[c - 1].score + Cardinality(found)
                               + (IF "sku" \in found THEN 2 ELSE 0)]
    IN upTo[Len(row)]

\* The first of the rows that score best; 0 when none scores.
HeaderRow(rows) ==
    LET score(i) == Discovered(rows[i]).score
        scored   == {i \in DOMAIN rows : i <= HeaderWindow /\ score(i) > 0}
    IN IF scored = {} THEN 0
       ELSE CHOOSE i \in scored : \A j \in scored :
                score(i) > score(j) \/ (score(i) = score(j) /\ i <= j)

\* A table: the rows, the row of its header and the columns of its roles.
Table(rows) ==
    LET header == HeaderRow(rows)
    IN [rows |-> rows, header |-> header,
        columns |-> IF header = 0 THEN [r \in Roles |-> 0]
                    ELSE Discovered(rows[header]).columns]

HasProducts(table) == table.columns["sku"] # 0

\* A cell the row does not reach is blank.
Cell(row, column) == IF column \in DOMAIN row THEN row[column] ELSE Blank
Sku(table, i)     == Cell(table.rows[i], table.columns["sku"])
Footer(row)       == \E c \in DOMAIN row : row[c] = "total"

------------------------------------------------------------------------------
(* Runs of product rows *)

Run(start, end) == [start |-> start, end |-> end]
Within(run)     == run.start .. run.end
NoRun           == 0

Scanning(runs, start, blanks, seen) ==
    [runs |-> runs, start |-> start, blanks |-> blanks, seen |-> seen, footer |-> FALSE]

\* Mutant: a run loses its last row.
ClosedShort(s, end) == Append(s.runs, Run(s.start, end - 1))

Closed(s, end) == Append(s.runs, Run(s.start, end))

\* processQuoteRow: the footer ends the table, two blank rows end a run, and a
\* product named again begins the next run.
ScannedRow(s, row, sku, i) ==
    CASE s.footer -> s
      [] ~s.footer /\ Footer(row) ->
                [s EXCEPT !.runs = IF s.start = NoRun THEN @ ELSE Closed(s, i - 1),
                          !.start = NoRun, !.footer = TRUE]
      [] ~s.footer /\ ~Footer(row) /\ sku = Blank ->
                IF s.start # NoRun /\ s.blanks + 1 >= 2
                THEN Scanning(Closed(s, i - (s.blanks + 1)), NoRun, s.blanks + 1, s.seen)
                ELSE Scanning(s.runs, s.start, s.blanks + 1, s.seen)
      [] OTHER ->
                IF s.start # NoRun /\ sku \in s.seen
                THEN Scanning(Closed(s, i - 1), i, 0, {sku})
                ELSE Scanning(s.runs, IF s.start = NoRun THEN i ELSE s.start, 0,
                              s.seen \cup {sku})

QuoteRuns(table) ==
    LET upTo[i \in table.header .. Len(table.rows)] ==
            IF i = table.header THEN Scanning(<<>>, NoRun, 0, {})
            ELSE ScannedRow(upTo[i - 1], table.rows[i], Sku(table, i), i)
        end == upTo[Len(table.rows)]
    IN IF end.start = NoRun THEN end.runs ELSE Closed(end, Len(table.rows))

------------------------------------------------------------------------------
(* Lines and scenarios *)

Unbounded == 1000     \* the median of no number at all

Median(table, run, column) ==
    LET numbers  == {i \in Within(run) : Cell(table.rows[i], column) \in Numeric}
        value(i) == Amounts[Cell(table.rows[i], column)]
        half     == Cardinality(numbers) \div 2
        middle   == {i \in numbers :
                        /\ Cardinality({j \in numbers : value(j) < value(i)}) <= half
                        /\ Cardinality({j \in numbers : value(j) <= value(i)}) > half}
    IN IF numbers = {} THEN Unbounded ELSE value(CHOOSE i \in middle : TRUE)

\* Fewer asked for than each costs: the two columns may be each other's.
Conflict(table, run) ==
    LET column == table.columns
    IN /\ column["quantity"] # 0 /\ column["unitPrice"] # 0
       /\ Median(table, run, column["quantity"]) < Median(table, run, column["unitPrice"])

\* A field is the set of its candidates.
Field(row, column) == {Cell(row, column)} \ {Blank}

Line(table, i, conflict) ==
    LET row   == table.rows[i]
        named == table.rows[table.header]
    IN [row         |-> i,
        sku         |-> Sku(table, i),
        description |-> Field(row, table.columns["description"]),
        quantities  |-> Field(row, table.columns["quantity"]),
        prices      |-> Field(row, table.columns["unitPrice"]),
        tiers       |-> UNION {Field(row, c) :
                                   c \in {d \in DOMAIN named : named[d] \in PriceTexts}},
        ambiguous   |-> conflict]

Scenario(table, run) ==
    [region |-> run,
     lines  |-> {Line(table, i, Conflict(table, run)) :
                     i \in {j \in Within(run) : Sku(table, j) # Blank}}]

\* No run is empty, so there is none to leave out (see RuntimeProofs).
SheetRuns(table) == IF HasProducts(table) THEN QuoteRuns(table) ELSE <<>>

\* A scenario for each run of each sheet that is not hidden, under the place of
\* the sheet and of the run in it.
ParsedWorkbook(workbook) ==
    LET visible == {k \in DOMAIN workbook : workbook[k].visible}
        table   == [k \in visible |-> Table(workbook[k].rows)]
        runs    == [k \in visible |-> SheetRuns(table[k])]
    IN [at \in UNION {{k} \X DOMAIN runs[k] : k \in visible} |->
            Scenario(table[at[1]], runs[at[1]][at[2]])]

\* Whether a buyer, or a model, must say what the workbook means.
RequiresInterpretation(scenarios) ==
    \/ Cardinality(DOMAIN scenarios) # 1
    \/ \E at \in DOMAIN scenarios : \E line \in scenarios[at].lines :
           \/ line.ambiguous
           \/ Cardinality(line.quantities) # 1
           \/ Cardinality(line.prices) # 1

------------------------------------------------------------------------------
(* What a sheet says, without scanning it *)

\* The rows of the table: under the header, above the first footer, that name
\* a product.
ProductRows(table) ==
    {i \in DOMAIN table.rows :
        /\ HasProducts(table) /\ i > table.header /\ Sku(table, i) # Blank
        /\ \A j \in table.header + 1 .. i : ~Footer(table.rows[j])}

NamedOnce(table, rows) ==
    \A i, j \in rows : Sku(table, i) = Sku(table, j) => i = j
==============================================================================
