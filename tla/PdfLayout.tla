------------------------------ MODULE PdfLayout ------------------------------
(* Where render_quote_pdf puts the parts of a quote. A height is in           *)
(* thousandths of a PDF point; a text is the number of lines it takes in its  *)
(* column. What is drawn is a sequence of boxes [part, page, top, bottom],    *)
(* in the order it is drawn.                                                  *)
EXTENDS Values

PAGE_MARGIN == 50000
TOTALS_BLOCK_HEIGHT == 80000

PageHeight == 841890
PageBottom == PageHeight - PAGE_MARGIN

\* heightOfString for Helvetica: a line is 1.156 times the size of its letters.
TextHeight(size, lines) == 1156 * size * lines

\* A pen is [page, y, boxes]; what it draws leaves y alone, as doc.text is
\* given its place.
Pen == [page |-> 1, y |-> PAGE_MARGIN, boxes |-> <<>>]

Draw(pen, part, from, height) ==
    [pen EXCEPT !.boxes = Append(@, [part |-> part, page |-> pen.page, top |-> pen.y + from,
                                     bottom |-> pen.y + from + height])]

Down(pen, distance) == [pen EXCEPT !.y = @ + distance]
NewPage(pen) == [pen EXCEPT !.page = @ + 1, !.y = PAGE_MARGIN]

\* Mutant: only where the part begins is looked at.
EnsureRoomForStart(pen, needed) == IF pen.y <= PageBottom THEN pen ELSE NewPage(pen)

EnsureRoom(pen, needed) == IF pen.y + needed <= PageBottom THEN pen ELSE NewPage(pen)

\* The company's logo or name on the left, number and date on the right, a rule.
RenderHeader(pen) == Down(Draw(pen, <<"header">>, 0, 40000), 60000)

\* sender: [company, contact, email : BOOLEAN, address : lines of it, or 0]
RenderBillTo(pen, sender) ==
    LET height == 14000 + (IF sender.company THEN 15000 ELSE 0)
                        + (IF sender.contact THEN 14000 ELSE 0)
                        + (IF sender.email THEN 14000 ELSE 0)
                        + (IF sender.address > 0 THEN TextHeight(10, sender.address) + 2000 ELSE 0)
    IN  Down(Draw(pen, <<"client">>, 0, height), height + 30000)

RenderColumnHeaders(pen) == Down(Draw(pen, <<"columns">>, 0, 16000), 26000)

\* A row that does not fit starts a page, under column headers of its own.
RenderLine(pen, line) ==
    LET text   == TextHeight(10, line.description) + (IF line.sku THEN 13000 ELSE 0)
        height == text + 22000
        at     == IF pen.y + height > PageBottom THEN RenderColumnHeaders(NewPage(pen)) ELSE pen
    IN  Down(Draw(at, <<"row", line.id>>, 0, text + 8000), height)

RenderLineItems(pen, lines) == FoldLeft(RenderLine, RenderColumnHeaders(pen), lines)

\* Subtotal, a discount if there is one, the first tax line, the total.
Figures(discounted, taxed) ==
    <<"subtotal">> \o (IF discounted THEN <<"discount">> ELSE <<>>)
                   \o (IF taxed THEN <<"tax">> ELSE <<>>) \o <<"total">>

RenderTotals(pen, figures) ==
    LET rows == 18000 * (Len(figures) - 1)
    IN  Down(Draw(pen, <<"totals", figures>>, 0, rows + TextHeight(12, 1)), rows + 30000)

\* Lead time, terms, validity and the company's details, as one text or none.
RenderFooter(pen, lines) ==
    IF lines = 0 THEN pen
    ELSE LET at == EnsureRoom(pen, 12000 + TextHeight(9, lines))
         IN  Draw(at, <<"footer">>, 0, 12000 + TextHeight(9, lines))

\* input: [sender, lines : Seq([id, description, sku, kind]), discounted, footer]
Printed(input) == SelectSeq(input.lines, LAMBDA l : l.kind # "tax")

Render(input) ==
    LET rows   == RenderLineItems(RenderBillTo(RenderHeader(Pen), input.sender), Printed(input))
        taxed  == \E l \in ToSet(input.lines) : l.kind = "tax"
        totals == RenderTotals(EnsureRoom(rows, TOTALS_BLOCK_HEIGHT), Figures(input.discounted, taxed))
    IN  RenderFooter(totals, input.footer).boxes

\* The same quote on the page where it is approved, in one piece that scrolls
\* under its totals.
DocumentPanel(quote) ==
    LET rows == SelectSeq(quote.lines, LAMBDA l : l.kind # "tax")
        tax  == {l \in ToSet(quote.lines) : l.kind = "tax"}
    IN  [rows   |-> [i \in DOMAIN rows |-> rows[i].id],
         totals |-> {"subtotal", "total"} \union (IF quote.discounted THEN {"discount"} ELSE {})
                                          \union {l.kind : l \in tax}]
=============================================================================
