-------------------------------- MODULE Xlsx --------------------------------
(***************************************************************************)
(* Reading a workbook (src/src/office/xlsx.rs): its pictures, its visible  *)
(* sheets, and the HTML table of a sheet with its merged cells.            *)
(*                                                                         *)
(* A sheet is [name, visible, grid, merges]: the texts of its cells, from  *)
(* the first row and column of the sheet, and [start, end] corners of its  *)
(* merged cells.  Rows and columns count from 0, as in the code.           *)
(***************************************************************************)
EXTENDS Pptx

CellAt(rows, r, c) == rows[r + 1][c + 1]
Rows(rows) == 0..Len(rows) - 1
Columns(rows) == IF rows = <<>> THEN {} ELSE 0..Len(rows[1]) - 1

(* The rectangle of the cells for which a test holds, and where it begins; *)
(* no rows when there is none.                                             *)
Cropped(rows, Test(_)) ==
    LET kept == {p \in Rows(rows) \X Columns(rows) : Test(CellAt(rows, p[1], p[2]))}
        rs   == {p[1] : p \in kept}
        cs   == {p[2] : p \in kept}
        Least(S) == CHOOSE n \in S : \A m \in S : n <= m
        Most(S)  == CHOOSE n \in S : \A m \in S : m <= n
        Row(r)   == [c \in 1..Most(cs) - Least(cs) + 1 |-> CellAt(rows, r, Least(cs) + c - 1)]
    IN  IF kept = {} THEN [rows |-> <<>>, rowOffset |-> 0, colOffset |-> 0]
        ELSE [rows |-> [r \in 1..Most(rs) - Least(rs) + 1 |-> Row(Least(rs) + r - 1)],
              rowOffset |-> Least(rs), colOffset |-> Least(cs)]

(* calamine::Xlsx::worksheet_range: from the first to the last cell that   *)
(* has a value, be it a blank text.                                        *)
WorksheetRange(sheet) == Cropped(sheet.grid, LAMBDA cell : cell # <<>>)

TrimEmptyEdges(rows) == Cropped(rows, LAMBDA cell : ~IsBlank(cell))

(* TrimmedSheet::merges_from: only what was trimmed off is subtracted, not *)
(* where the range of the sheet begins.                                    *)
MergesFrom(trimmed, merges) ==
    LET Relative(at) == <<at[1] - trimmed.rowOffset, at[2] - trimmed.colOffset>>
        rows    == Len(trimmed.rows)
        columns == Len(trimmed.rows[1])
        Clip(n, most) == IF n > most - 1 THEN most - 1 ELSE n
        kept == {m \in merges : /\ Relative(m.start)[1] \in 0..rows - 1
                                /\ Relative(m.start)[2] \in 0..columns - 1}
        moved == {[start |-> Relative(m.start),
                   end   |-> <<Clip(Relative(m.end)[1], rows), Clip(Relative(m.end)[2], columns)>>] : m \in kept}
    IN  {m \in moved : m.end[1] > m.start[1] \/ m.end[2] > m.start[2]}

InMerge(m, at) == /\ m.start[1] <= at[1] /\ at[1] <= m.end[1]
                  /\ m.start[2] <= at[2] /\ at[2] <= m.end[2]

TdTag(rows, columns) ==
    IF rows = 1 /\ columns = 1 THEN "<td>" ELSE "<td " \o ToString(rows) \o " " \o ToString(columns) \o ">"

(* A cell that a merged cell covers is left out. *)
CellToHtml(at, cell, merges) ==
    LET own == {m \in merges : m.start = at}
        tag == IF own = {} THEN "<td>"
               ELSE LET m == CHOOSE m \in own : TRUE
                    IN  TdTag(m.end[1] - m.start[1] + 1, m.end[2] - m.start[2] + 1)
    IN  IF \E m \in merges \ own : InMerge(m, at) THEN <<>> ELSE <<tag>> \o HtmlEscape(cell) \o <<"</td>">>

RowsToHtmlTable(name, rows, merges) ==
    LET Cell(r, c) == CellToHtml(<<r - 1, c - 1>>, rows[r][c], merges)
        Row(r) == <<"<tr>">> \o FlattenSeq([c \in DOMAIN rows[r] |-> Cell(r, c)]) \o <<"</tr>">>
    IN  <<"<table>", "<caption>">> \o HtmlEscape(name) \o <<"</caption>">>
        \o FlattenSeq([r \in DOMAIN rows |-> Row(r)]) \o <<"</table>">>

(* blocks_from_sheet: a single text is no table. *)
BlocksFromSheet(sheet) ==
    LET trimmed == TrimEmptyEdges(WorksheetRange(sheet).rows)
        cells   == FlattenSeq(trimmed.rows)
        texts   == SelectSeq(cells, LAMBDA cell : ~IsBlank(cell))
    IN  CASE trimmed.rows = <<>> -> <<>>
          [] Len(texts) = 1      -> <<Text(texts[1])>>
          [] Len(texts) > 1      -> <<Table(RowsToHtmlTable(sheet.name, trimmed.rows, MergesFrom(trimmed, sheet.merges)))>>

-----------------------------------------------------------------------------
OpenXlsx ==
    /\ upload.suffix = "xlsx" /\ reader = NoReader /\ parsed = <<>>
    /\ reader' = [kind |-> "xlsx", pictures |-> upload.pictures, images |-> <<>>, warnings |-> 0,
                  sheets |-> SelectSeq(upload.sheets, LAMBDA sheet : sheet.visible), read |-> <<>>]
    /\ UNCHANGED <<events, docVars>>

WritePicture ==
    /\ reader.kind = "xlsx" /\ reader.pictures # <<>>
    /\ \E outcome \in WriteImage(Head(reader.pictures), "none", reader.images) :
          reader' = [reader EXCEPT !.pictures = Tail(@), !.images = @ \o outcome.image,
                        !.warnings = @ + outcome.warnings
                            + IF outcome.reason = <<"unsupported_image_format">> THEN 1 ELSE 0]
    /\ UNCHANGED <<events, docVars>>

(* A sheet with nothing in it has no page. *)
ReadSheet ==
    /\ reader.kind = "xlsx" /\ reader.pictures = <<>> /\ reader.sheets # <<>>
    /\ LET sheet  == Head(reader.sheets)
           blocks == BlocksFromSheet(sheet)
           page   == [name |-> sheet.name, blocks |-> blocks]
       IN  reader' = [reader EXCEPT !.sheets = Tail(@), !.read = IF blocks = <<>> THEN @ ELSE Append(@, page)]
    /\ UNCHANGED <<events, docVars>>

(* Sheets have titles when there are several; the pictures end the first   *)
(* page, or make one when there is none.                                   *)
EndXlsx ==
    /\ reader.kind = "xlsx" /\ reader.pictures = <<>> /\ reader.sheets = <<>>
    /\ LET read   == reader.read
           shown  == [i \in DOMAIN reader.images |-> Image(reader.images[i])]
           Heading(n) == IF Len(read) > 1 THEN <<Title(read[n].name, 1)>> ELSE <<>>
           Blocks(n)  == Heading(n) \o read[n].blocks \o (IF n = 1 THEN shown ELSE <<>>)
           Page(blocks) == [blocks |-> blocks, discarded |-> <<>>]
       IN  pages' = IF read = <<>> /\ shown # <<>> THEN <<Page(shown)>>
                    ELSE [n \in DOMAIN read |-> Page(Blocks(n))]
    /\ GiveDocument(reader.images)
    /\ reader' = NoReader
    /\ UNCHANGED <<upload, events>>

ReadXlsx == OpenXlsx \/ WritePicture \/ ReadSheet \/ EndXlsx
=============================================================================
