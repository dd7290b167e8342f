---------------------------- MODULE OfficeParse ----------------------------
(***************************************************************************)
(* Parsing an Office upload (src/src/office/mod.rs): the reader of its     *)
(* suffix, and what its document is to keep of it.                         *)
(***************************************************************************)
EXTENDS Xlsx

CONSTANT Uploads   \* the uploads that are tried

vars == <<docVars, events, reader>>

(* An upload that is no Office document: PipelineParser gives it to the    *)
(* VLM parser.                                                             *)
NoUpload == [suffix |-> "pdf"]
NoOffice == upload = NoUpload /\ events = <<>> /\ reader = NoReader /\ pages = <<>> /\ parsed = <<>>

Init == upload \in Uploads /\ events = <<>> /\ reader = NoReader /\ pages = <<>> /\ parsed = <<>>

Rejected == [kind |-> "rejected"]
Reject == reader' = Rejected /\ UNCHANGED <<docVars, events>>

(* The binary formats, packages that cannot be opened and packages without *)
(* their main part; an upload of the VLM parser never comes here.          *)
Refuse ==
    /\ reader = NoReader /\ parsed = <<>>
    /\ upload.suffix \in {"doc", "ppt", "xls"} \cup {"docx", "pptx", "xlsx"}
    /\ Reject

(* XML or a sheet that cannot be read, a slide or notes that are not in the *)
(* package.                                                                *)
Unreadable ==
    /\ \/ reader.kind = "xlsx" /\ reader.pictures = <<>> /\ reader.sheets # <<>>
       \/ events # <<>> /\ Head(events).e = "error"
       \/ /\ reader.kind = "deck" /\ reader.left # <<>>
          /\ Head(reader.left) \notin DOMAIN upload.slides
       \/ /\ reader.kind = "pptx" /\ events = <<>>
          /\ ~(ToSet(NotesPart(reader.part)) \subseteq DOMAIN upload.slides)
    /\ Reject

Next == ReadDocx \/ ReadPptx \/ ReadXlsx \/ Refuse \/ Unreadable

Spec == Init /\ [][Next]_vars

-----------------------------------------------------------------------------
(* Properties.  What an upload says is read off its events, without the    *)
(* state of the loop: what is open at an event is what was started and not *)
(* ended before it.                                                        *)

Indexes(s, Test(_)) == {i \in DOMAIN s : Test(s[i])}
Is(event, e, tag) == event.e = e /\ (e \in {"start", "end", "empty"} => event.tag = tag)
Open(s, tag, i) == Cardinality({k \in 1..i - 1 : Is(s[k], "start", tag)})
                   - Cardinality({k \in 1..i - 1 : Is(s[k], "end", tag)})
Latest(S) == CHOOSE n \in S : \A m \in S : m <= n
Earliest(S) == CHOOSE n \in S : \A m \in S : n <= m

Mark    == InlineTag \cup {"</text>", "</eq>", "</hyperlink>", "<url>", "</url>"}
Visible(s) == SelectSeq(s, LAMBDA c : c \notin Blank \cup Mark)

(* What tagged text says, without the targets of its links. *)
OwnText(s) ==
    LET InUrl(i) == \E k \in 1..i : s[k] = "<url>" /\ "</url>" \notin ToSet(SubSeq(s, k, i))
        own == FlattenSeq([i \in DOMAIN s |-> IF InUrl(i) THEN <<>> ELSE <<s[i]>>])
    IN  Visible(DecodeBasicEntities(own))

Done(suffix) == upload.suffix = suffix /\ parsed # <<>>

(* Text boxes and tables within tables are left out: the code gives up the *)
(* paragraph or table around them.                                         *)
Flat(s) == \A i \in DOMAIN s : s[i].e = "start" => Open(s, "p", i) <= 1 /\ Open(s, "tbl", i) <= 1
                                                   /\ (s[i].tag \in {"p", "tbl"} => Open(s, s[i].tag, i) = 0)

(* The characters of a Word document outside its tables, each with the     *)
(* styles and the link it has.                                             *)
Styled(c, styles, url) == [c |-> c, styles |-> styles, url |-> url]
Source(s) ==
    LET StylesAt(i) ==
            LET run == Latest({k \in 1..i : Is(s[k], "start", "r")}) IN
            {IF s[k].tag = "b" THEN "bold" ELSE "underline" :
                k \in {j \in run..i : s[j].e \in {"start", "empty"} /\ s[j].tag \in {"b", "u"}}}
        UrlAt(i) ==
            IF Open(s, "hyperlink", i) = 0 THEN <<>>
            ELSE LET id == s[Latest({k \in 1..i : Is(s[k], "start", "hyperlink")})].val IN
                 FlattenSeq([k \in DOMAIN upload.package.rels[WordDocument] |->
                    LET rel == upload.package.rels[WordDocument][k]
                    IN  IF rel.id = id /\ rel.type = "hyperlink" THEN rel.target ELSE <<>>])
        Math(i) == Open(s, "oMath", i) > 0
        Of(i) == IF s[i].e # "text" \/ Open(s, "tbl", i) > 0 \/ Open(s, "t", i) = 0 THEN <<>>
                 ELSE LET text == Visible(s[i].text) IN
                      [n \in DOMAIN text |-> Styled(text[n], IF Math(i) THEN {} ELSE StylesAt(i),
                                                    IF Math(i) THEN <<>> ELSE UrlAt(i))]
    IN  FlattenSeq([i \in DOMAIN s |-> Of(i)])

(* The same of the blocks that were made of it. *)
Shown(blocks) ==
    LET Plain(s) == [n \in DOMAIN OwnText(s) |-> Styled(OwnText(s)[n], {}, <<>>)]
        Piece(span) == LET text == Visible(span.content)
                       IN  [n \in DOMAIN text |-> Styled(text[n], span.styles, span.url)]
        Pieces(spans) == FlattenSeq([k \in DOMAIN spans |-> Piece(spans[k])])
        Of(b) == CASE b.type \in {"text", "title"} -> Pieces(b.content)
                   [] b.type = "list"     -> FlattenSeq([k \in DOMAIN b.items |-> Pieces(b.items[k])])
                   [] b.type = "equation" -> Plain(b.latex)
                   [] OTHER               -> <<>>
    IN  FlattenSeq([i \in DOMAIN blocks |-> Of(blocks[i])])

(* A Word document keeps every visible character outside its tables, in    *)
(* order, with the styles of its run and the target of its link; in a      *)
(* paragraph that becomes an equation, the characters.                     *)
WordTextKept ==
    (Done("docx") /\ Flat(upload.document)) =>
        LET blocks == parsed[1].middle[1]
            Letters(pieces) == [i \in DOMAIN pieces |-> pieces[i].c]
        IN  /\ Letters(Shown(blocks)) = Letters(Source(upload.document))
            /\ (\A b \in ToSet(blocks) : b.type # "equation") => Shown(blocks) = Source(upload.document)

(* The rows of a table in HTML, each the texts of its cells. *)
CellTexts(html) ==
    LET Upto(i, tag) == SelectInSubSeq(html, i, Len(html), LAMBDA c : c = tag)
        rows == SetToSortSeq({i \in DOMAIN html : html[i] = "<tr>"}, <)
        Cells(i) == SetToSortSeq({k \in i..Upto(i, "</tr>") : html[k] = "<td>"}, <)
        CellText(k) == SubSeq(html, k + 1, Upto(k, "</td>") - 1)
    IN  [r \in DOMAIN rows |-> [c \in DOMAIN Cells(rows[r]) |-> CellText(Cells(rows[r])[c])]]

(* The tables of events: for every row that has cells, the characters of   *)
(* each of its cells.                                                      *)
EndOf(s, i) == Earliest({k \in i..Len(s) : Is(s[k], "end", s[i].tag)})
WordsIn(s, i) ==
    LET Of(k) == IF s[k].e = "text" /\ Open(s, "t", k) > 0 THEN Visible(s[k].text) ELSE <<>>
    IN  FlattenSeq([n \in 1..EndOf(s, i) - i |-> Of(i + n)])

SourceTables(s) ==
    LET Starting(from, to, tag) == SetToSortSeq({i \in from..to : Is(s[i], "start", tag)}, <)
        Row(i) == LET cells == Starting(i, EndOf(s, i), "tc") IN [n \in DOMAIN cells |-> ToSet(WordsIn(s, cells[n]))]
        RowsOf(i) == LET rows == Starting(i, EndOf(s, i), "tr")
                     IN  SelectSeq([n \in DOMAIN rows |-> Row(rows[n])], LAMBDA row : row # <<>>)
        tables == Starting(1, Len(s), "tbl")
    IN  SelectSeq([n \in DOMAIN tables |-> RowsOf(tables[n])], LAMBDA table : table # <<>>)

(* A table keeps its rows, as many cells as each has, and in every cell    *)
(* exactly the characters the cell has in the document.                    *)
TableCellsKept ==
    LET picture == {"<img", "/>"} \cup ToSet(parsed[1].images)
        Text1(cell) == ToSet(SelectSeq(OwnText(cell), LAMBDA c : c \notin picture))
        Texts(b) == LET rows == CellTexts(b.html)
                    IN  [r \in DOMAIN rows |-> [c \in DOMAIN rows[r] |-> Text1(rows[r][c])]]
        tables == SelectSeq(pages[1].blocks, LAMBDA b : b.type = "table")
    IN  (Done("docx") /\ Flat(upload.document)) =>
            [i \in DOMAIN tables |-> Texts(tables[i])] = SourceTables(upload.document)

(* Every picture that was written is shown in exactly one place, and no    *)
(* two of them share a file.                                               *)
PicturesShown ==
    LET PathsIn(b) ==
            CASE b.type = "image" -> <<b.path>>
              [] b.type \in {"table", "chart"} -> SelectSeq(b.html, LAMBDA c : c \in ToSet(parsed[1].images))
              [] OTHER -> <<>>
        blocks == FlattenSeq([n \in DOMAIN pages |-> pages[n].blocks])
        paths  == FlattenSeq([i \in DOMAIN blocks |-> PathsIn(blocks[i])])
        flat   == upload.suffix = "docx" => Flat(upload.document)
    IN  (parsed # <<>> /\ flat) =>
            /\ ToSet(paths) = ToSet(parsed[1].images)
            /\ Len(paths) = Cardinality(ToSet(paths)) /\ Len(parsed[1].images) = Len(paths)

(* Every picture a Word document refers to, in a paragraph or in a table,  *)
(* was written or is a discarded block that says why not.  Of a picture of *)
(* a presentation or workbook that was not written no more than a line of  *)
(* the log may remain (see README.md).                                     *)
WordPicturesAccounted ==
    LET s == upload.document
        referred == {i \in DOMAIN s : s[i].e \in {"start", "empty"} /\ s[i].tag = "blip" /\ s[i].val # ""}
    IN  Done("docx") =>
            Cardinality(referred) = Len(parsed[1].images) + Len(pages[1].discarded)

OfficeContentKept == WordTextKept /\ TableCellsKept /\ PicturesShown /\ WordPicturesAccounted

(* The shapes and frames of a slide, from top to bottom and from left to   *)
(* right, those without a position at the end, each with all its text;     *)
(* then the notes.  A shape in a group has the position it has there.      *)
SlidesInReadingOrder ==
    LET OffsIn(s, i) == {k \in i..EndOf(s, i) : s[k].e \in {"start", "empty"} /\ s[k].tag = "off"}
        AtOf(s, i) == IF OffsIn(s, i) = {} THEN <<<<>>, <<>>>> ELSE s[Latest(OffsIn(s, i))].at
        Elements(s) == {i \in DOMAIN s : /\ s[i].e = "start" /\ s[i].tag \in ElementTag \ {"pic"}
                                         /\ \A tag \in ElementTag : Open(s, tag, i) = 0}
        Less(m, n) == m # <<>> /\ (n = <<>> \/ m[1] < n[1])
        Above(s, i, k) ==
            LET p == AtOf(s, i) q == AtOf(s, k) IN
            \/ Less(p[2], q[2])
            \/ p[2] = q[2] /\ p[2] # <<>> /\ Less(p[1], q[1])
            \/ p[2] = q[2] /\ (p[2] = <<>> \/ p[1] = q[1]) /\ i < k
        Ordered(s) == SetToSortSeq(Elements(s), LAMBDA i, k : Above(s, i, k))
        Expected(s) == SelectSeq([n \in DOMAIN Ordered(s) |-> WordsIn(s, Ordered(s)[n])], LAMBDA w : w # <<>>)
        Words(b) == Visible(SelectSeq(IF b.type \in {"table", "chart"} THEN DecodeBasicEntities(b.html) ELSE b.content,
                                      LAMBDA c : c \notin {"<table>", "<tr>", "<td>", "</td>", "</tr>", "</table>"}))
        Said(page) == LET bs == SelectSeq(page.blocks, LAMBDA b : b.type # "image")
                      IN  [n \in DOMAIN bs |-> Words(bs[n])]
        Notes(part) == LET p == NotesPart(part)
                           s == IF p = <<>> THEN <<>> ELSE upload.slides[p[1]]
                           w == FlattenSeq([k \in DOMAIN s |-> IF s[k].e = "text" THEN Visible(s[k].text) ELSE <<>>])
                       IN  IF w = <<>> THEN <<>> ELSE <<<<"Notes:">> \o w>>
        parts == SlidePartsInOrder
    IN  Done("pptx") =>
            [n \in DOMAIN pages |-> Said(pages[n])]
                = [n \in DOMAIN parts |-> Expected(upload.slides[parts[n]]) \o Notes(parts[n])]

-----------------------------------------------------------------------------
(* Where the cells of an HTML table are, by the rules of HTML: a cell      *)
(* takes the first place of its row that no cell before it covers.         *)
SpanOf(tag) == CHOOSE span \in (1..3) \X (1..3) : TdTag(span[1], span[2]) = tag
Layout(html) ==
    LET IsTd(c) == \E span \in (1..3) \X (1..3) : TdTag(span[1], span[2]) = c
        Place(acc, i) ==
            IF html[i] = "<tr>" THEN [acc EXCEPT !.row = @ + 1]
            ELSE IF ~IsTd(html[i]) THEN acc
            ELSE LET taken == {at \in (0..9) \X (0..9) : \E cell \in acc.cells :
                                  \A d \in 1..2 : at[d] \in cell.at[d]..cell.at[d] + cell.span[d] - 1}
                     free  == Earliest({c \in 0..9 : <<acc.row, c>> \notin taken})
                     upto  == SelectInSubSeq(html, i, Len(html), LAMBDA x : x = "</td>")
                 IN  [acc EXCEPT !.cells = @ \cup {[at |-> <<acc.row, free>>, span |-> SpanOf(html[i]),
                                                    text |-> SubSeq(html, i + 1, upto - 1)]}]
    IN  FoldLeft(Place, [row |-> -1, cells |-> {}], [i \in DOMAIN html |-> i]).cells

CellCovers(cell, at) == InMerge([start |-> cell.at, end |-> <<cell.at[1] + cell.span[1] - 1,
                                                              cell.at[2] + cell.span[2] - 1>>], at)

(* The sheets that make a table, each with its HTML. *)
SheetTables ==
    LET tables == FlattenSeq([n \in DOMAIN pages |-> SelectSeq(pages[n].blocks, LAMBDA b : b.type \in {"table", "text"})])
        full   == SelectSeq(upload.sheets, LAMBDA sheet : sheet.visible /\ BlocksFromSheet(sheet) # <<>>)
    IN  {[sheet |-> full[n], html |-> tables[n].html] : n \in {k \in DOMAIN tables : tables[k].type = "table"}}

(* A merged cell of the sheet whose first cell is in the table is one cell *)
(* of the table, at the place of its first cell and as large as the part   *)
(* of it that the table has.                                               *)
MergesLaid(sheet, html) ==
    LET range == WorksheetRange(sheet)
        trim  == TrimEmptyEdges(range.rows)
        first == <<range.rowOffset + trim.rowOffset, range.colOffset + trim.colOffset>>
        size  == <<Len(trim.rows), Len(trim.rows[1])>>
        Within(m) == \A d \in 1..2 : m.start[d] - first[d] \in 0..size[d] - 1
        Least(a, b) == IF a < b THEN a ELSE b
        Size(m, d) == Least(m.end[d] - first[d], size[d] - 1) - (m.start[d] - first[d]) + 1
    IN  \A m \in sheet.merges : Within(m) =>
            \E cell \in Layout(html) : /\ cell.at = <<m.start[1] - first[1], m.start[2] - first[2]>>
                                       /\ cell.span = <<Size(m, 1), Size(m, 2)>>

(* The comment of TrimmedSheet::merges_from: merged cells in the           *)
(* coordinates of the sheet become merged cells of the table.              *)
MergesTableRelative == Done("xlsx") => \A t \in SheetTables : MergesLaid(t.sheet, t.html)

(* Of a sheet whose values begin in its first row and column: the cells of *)
(* the table cover each place once and leave none out, a text stands where *)
(* it stands in the sheet, none is lost but below a merged cell, and the   *)
(* merged cells are those of the sheet.                                    *)
SheetCellsCovered ==
    LET Begins(sheet) == WorksheetRange(sheet).rowOffset = 0 /\ WorksheetRange(sheet).colOffset = 0
        Kept(sheet, html) ==
            LET trim  == TrimEmptyEdges(WorksheetRange(sheet).rows)
                cells == Layout(html)
                places == Rows(trim.rows) \X Columns(trim.rows)
                Hidden(at) == \E m \in sheet.merges : InMerge(m, <<at[1] + trim.rowOffset, at[2] + trim.colOffset>>)
                                                       /\ m.start # <<at[1] + trim.rowOffset, at[2] + trim.colOffset>>
            IN  /\ \A at \in (0..9) \X (0..9) :
                       Cardinality({cell \in cells : CellCovers(cell, at)}) = (IF at \in places THEN 1 ELSE 0)
                /\ \A cell \in cells : cell.text = HtmlEscape(CellAt(trim.rows, cell.at[1], cell.at[2]))
                /\ \A at \in places : (~IsBlank(CellAt(trim.rows, at[1], at[2])) /\ ~Hidden(at)) =>
                       \E cell \in cells : cell.at = at
                /\ MergesLaid(sheet, html)
    IN  Done("xlsx") => \A t \in {u \in SheetTables : Begins(u.sheet)} : Kept(t.sheet, t.html)
=============================================================================
