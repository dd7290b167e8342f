---------------------------- MODULE ParsedOutput ----------------------------
(***************************************************************************)
(* What becomes of the content of an upload, whichever parser reads it     *)
(* (src/src/parser.rs): a PDF or an image goes to the VLM and the outputs  *)
(* of DocumentOutput, an Office document to the readers of OfficeParse.    *)
(* Both are sequential, and one upload is parsed at a time.                *)
(***************************************************************************)
EXTENDS DocumentOutput

CONSTANTS LowerName, HeadingNumber, ListNames, Numeral, TitleBytes, MaxI64, Uploads

VARIABLES upload, events, reader, officePages, parsed

officeVars == <<upload, events, reader, officePages, parsed>>

Office == INSTANCE OfficeParse WITH pages <- officePages

(* Nothing for the VLM to read. *)
NoVlmDocument ==
    /\ pages = <<>> /\ page = 1 /\ phase = "idle" /\ raw = <<>> /\ blocks = <<>> /\ preproc = <<>>
    /\ para = <<>> /\ discarded = <<>> /\ at = 0 /\ files = {} /\ pdfInfo = <<>> /\ output = <<>>

ParseInit ==
    \/ Init /\ Office!NoOffice
    \/ NoVlmDocument /\ Office!Init

ParseWithVlm == Next /\ UNCHANGED officeVars

ParseOffice == Office!Next /\ UNCHANGED vars

(* The parser has returned. *)
Returned ==
    /\ phase \in {"failed", "finished"} \/ parsed # <<>> \/ reader = Office!Rejected
    /\ UNCHANGED <<vars, officeVars>>

ParseNext == ParseWithVlm \/ ParseOffice \/ Returned

ParseSpec == ParseInit /\ [][ParseNext]_<<vars, officeVars>>

-----------------------------------------------------------------------------
(* Properties: those of both parsers, for the documents each reads.        *)

(* What MinerU's Python output keeps of a page: all its blocks, and every  *)
(* line of the paragraphs that were merged.                                *)
BlocksAndLinesKept == BlocksKept /\ LinesInOrder

(* What it keeps of text: everything visible, in tables too, and in the    *)
(* Markdown every block with text.                                         *)
VisibleTextKept == TextKept /\ TableTextKept /\ MarkdownShows

(* Boxes are well-formed at every stage.                                   *)
BoxesSound == TypeOK /\ BoxesInPage

(* The text of a Word document with its styles and links, the cells of its *)
(* tables, the shapes of a slide in reading order, each with its text, the *)
(* cells of a sheet, each once in its place, the pictures that were        *)
(* written for an Office document, each shown once, and a reason for every *)
(* picture of a Word document that was not.                                *)
OfficeContentKept == Office!OfficeContentKept /\ Office!SlidesInReadingOrder /\ Office!SheetCellsCovered
=============================================================================
