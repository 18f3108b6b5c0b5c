----------------------------- MODULE MCServices ------------------------------
(* Services for TLC. *)
EXTENDS Services, TLC

CONSTANTS p1, p2

------------------------------------------------------------------------------
(* Sourcing *)

MCQuantity == (p1 :> 4) @@ (p2 :> 2)
MCBaseline == (p1 :> 10) @@ (p2 :> 7)

\* An answer with its prices at one end of the round's bounds and its terms at
\* one end.
Proposal(s, round, priceEnd, termsEnd) ==
    LET b == Sourcing!RoundPolicy[s][round]
        line(p) == [product |-> p, quantity |-> Quantity[p],
                    price |-> Sourcing!PriceBounds(p, b.price)[priceEnd]]
    IN [supplier |-> s, round |-> round, sameCurrency |-> TRUE, expired |-> FALSE,
        lead |-> b.lead[termsEnd], capacity |-> Sourcing!ExpectedCapacity(s, round),
        order |-> b.order[1], dispatch |-> b.pre[termsEnd] - b.order[1],
        delivery |-> 100 - b.pre[termsEnd],
        lines |-> <<line(p1), line(p2)>>]

Obedient(s, round) == {Proposal(s, round, p, t) : p, t \in {1, 2}}

\* One thing wrong at a time.
Wrong(s, round) ==
    LET x == Proposal(s, round, 2, 2)
        l == x.lines
    IN {[x EXCEPT !.delivery = @ + 1],
        [x EXCEPT !.supplier = IF s = "S1" THEN "S2" ELSE "S1"],
        [x EXCEPT !.round = 3 - @],
        [x EXCEPT !.lead = @ + 1],
        [x EXCEPT !.lead = @ - 20],
        [x EXCEPT !.order = @ + 1, !.dispatch = @ + 9, !.delivery = @ - 10],
        [x EXCEPT !.capacity = 160 - @],
        [x EXCEPT !.expired = TRUE],
        [x EXCEPT !.sameCurrency = FALSE],
        [x EXCEPT !.lines = <<l[1]>>],
        [x EXCEPT !.lines = <<l[1], l[1]>>],
        [x EXCEPT !.lines[1].product = "unknown"],
        [x EXCEPT !.lines[1].quantity = 1],
        [x EXCEPT !.lines[1].price = @ + 2],
        [x EXCEPT !.lines[1].price = 0]}

MCAnswers(s, round) == Obedient(s, round) \cup Wrong(s, round)

------------------------------------------------------------------------------
(* The quote copilot *)

\* A quotation whose lines all read the same, at one stage.
Opening(selected, id, status, blocked, stage) ==
    [selected |-> selected,
     lines |-> [l \in Lines |-> [match |-> [id |-> id, status |-> status],
                                blocked |-> blocked]],
     negotiation |-> stage >= 1, decision |-> stage >= 2, order |-> stage = 3]

MCOpenings == {Opening("none", 0, "PENDING", FALSE, 0),
               Opening("first", 1, "RESOLVED", FALSE, 0),
               Opening("first", 1, "RESOLVED", FALSE, 1)}

Suggested(kind, of, amount) == [kind |-> kind, of |-> of, amount |-> amount]

\* Ids there are, ids there may be one day, and what must be dropped.
MCDrafts == {{Suggested("include_line", <<"l1", 1>>, "candidate"),
              Suggested("exclude_line", <<"l1", 1>>, "none"),
              Suggested("set_quantity", "l1", "positive"),
              Suggested("include_line", <<"l1", 1>>, "unknown"),
              Suggested("exclude_line", <<"l1", 2>>, "none"),
              Suggested("set_quantity", "l1", "zero")}}

------------------------------------------------------------------------------
(* The workbook parser *)

Part(part, named, method, expanded, compressed, text) ==
    [part |-> part, named |-> named, method |-> method, expanded |-> expanded,
     compressed |-> compressed, text |-> text]
Sound(part) == Part(part, "safely", "deflated", 4, 1, "good")

Package ==
    [size |-> 3, zip |-> TRUE,
     entries |-> <<Sound("[content_types].xml"), Sound("xl/workbook.xml"),
                   Sound("xl/_rels/workbook.xml.rels"), Sound("sheet1"), Sound("sheet2")>>,
     targets |-> <<"sheet1", "sheet2">>]

Row(sku) == CASE sku = "blank" -> <<"blank", "blank", "blank">>
              [] sku = "total" -> <<"total", "ten", "blank">>
              [] OTHER         -> <<sku, "ten", "one">>

Worksheet(visible, table) == [visible |-> visible, rows |-> table]
First(header, body) ==
    Worksheet(TRUE, <<header>> \o [i \in DOMAIN body |-> Row(body[i])])

Upload(package, workbook, chunks) ==
    [archive |-> package, workbook |-> workbook, chunks |-> chunks]

Plain == <<"style", "qty", "unit price">>

\* Every table of six rows of two products, blanks and footers.
Tables == {Upload(Package, <<First(Plain, body)>>, 1) :
               body \in [1 .. 6 -> {"a", "b", "blank", "total"}]}

\* Other headers, and a second sheet without a table, or with one whose header
\* is not the first row, out of sight or not.
Layouts == {Upload(Package, <<First(header, <<"a", "b", "blank", "a">>),
                              Worksheet(visible, table)>>, 1) :
               header \in {Plain, <<"item name", "qty", "style">>,
                           <<"qty", "style", "fob qty 500">>,
                           <<"total", "qty", "unit price">>},
               visible \in BOOLEAN,
               table \in {<<>>, <<<<"a", "ten">>>>,
                          <<<<"note">>, <<"style", "unit price", "qty">>,
                            <<"a", "ten", "one">>, <<"b", "one", "blank">>>>}}

\* One thing wrong with the archive at a time; the sheets are read last.
Damaged == {Upload([Package EXCEPT !.entries[4] = entry], <<First(Plain, <<"a">>)>>, 1) :
               entry \in {Part("sheet1", "unsafely", "deflated", 4, 1, "good"),
                          Sound("xl/workbook.xml"),
                          Part("sheet1", "safely", "encrypted", 4, 1, "good"),
                          Part("sheet1", "safely", "stored", 33, 33, "good"),
                          Part("sheet1", "safely", "deflated", 30, 1, "good"),
                          Part("sheet1", "safely", "stored", 4, 4, "malformed"),
                          Part("xl/theme.xml", "safely", "stored", 4, 4, "good")}}
           \cup {Upload(package, <<First(Plain, <<"a">>)>>, 1) :
                    package \in {[Package EXCEPT !.zip = FALSE], [Package EXCEPT !.size = 9],
                                 [Package EXCEPT !.targets = <<>>],
                                 [Package EXCEPT !.targets = <<"unsafe">>]}}
           \cup {Upload(Package, <<First(Plain, [i \in 1 .. 8 |-> "a"])>>, 1)}

\* Envelopes of up to one chunk more than is taken.
Long == {Upload(Package, <<First(Plain, <<"a", "b">>)>>, n) : n \in 1 .. MaxOutput + 1}

MCUploads == Tables \cup Layouts \cup Damaged \cup Long

------------------------------------------------------------------------------
(* The worker process *)

MCQueueOf == [parse |-> "parse-quotation", match |-> "match-candidates",
              talks |-> "negotiation-turn"]

------------------------------------------------------------------------------
(* The review page *)

\* What the parser read of four lines: the first has tiers and no quantity, the
\* second no price, the third is near two products, the fourth cannot be read
\* safely and misreads one.
MCReviewSheet ==
    [tiered   |-> [quantity |-> 0, unitPrice |-> FALSE, tiers |-> {2, 9}, ambiguous |-> FALSE],
     unpriced |-> [quantity |-> 1, unitPrice |-> FALSE, tiers |-> {}, ambiguous |-> FALSE],
     open     |-> [quantity |-> 0, unitPrice |-> TRUE, tiers |-> {}, ambiguous |-> FALSE],
     unclear  |-> [quantity |-> 1, unitPrice |-> TRUE, tiers |-> {2}, ambiguous |-> TRUE]]

MCReading ==
    [tiered   |-> (p1 :> "same") @@ (p2 :> "far"),
     unpriced |-> (p1 :> "other") @@ (p2 :> "near"),
     open     |-> (p1 :> "near") @@ (p2 :> "near"),
     unclear  |-> (p1 :> "misread") @@ (p2 :> "other")]

MCDescribed == [l \in ReviewLines |-> IF l = "unpriced" THEN {p2} ELSE {}]
MCRank      == (p1 :> 1) @@ (p2 :> 2)
==============================================================================
