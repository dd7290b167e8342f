-------------------------------- MODULE Docx --------------------------------
(***************************************************************************)
(* Reading a Word document (src/src/office/docx.rs): one action for each   *)
(* arm of the loop over the XML events of word/document.xml.               *)
(*                                                                         *)
(* An event is [e, tag, val], e one of "start", "empty" and "end" and val  *)
(* the attribute the code asks for, or [e, text] with e = "text".  Other   *)
(* events, references to entities among them, are left alone by the code,  *)
(* and "error" stands for XML it cannot read.                              *)
(***************************************************************************)
EXTENDS OfficePackage, FiniteSets

CONSTANTS LowerName,      \* to_ascii_lowercase of the names of styles
          HeadingNumber,  \* of the names that are a heading's or the title's (ids have no blanks)
          ListNames,      \* the names that have "list" in them
          Numeral         \* the numbers that attributes write

VARIABLES upload,   \* what is parsed: the package and the events of its parts
          events,   \* those to come of the part that is read
          reader,   \* the local variables of the loop
          pages,    \* [blocks, discarded] of the pages that were read
          parsed    \* the documents made of the upload: none or one

docVars == <<upload, pages, parsed>>

Clamped(level) == IF level < 1 THEN 1 ELSE IF level > 6 THEN 6 ELSE level
ParseZeroBasedLevel(val) == IF val \in DOMAIN Numeral THEN <<Clamped(Numeral[val] + 1)>> ELSE <<>>
NameLevel(name) == IF name \in DOMAIN HeadingNumber THEN <<Clamped(HeadingNumber[name])>> ELSE <<>>

First(s) == SubSeq(s, 1, IF s = <<>> THEN 0 ELSE 1)

-----------------------------------------------------------------------------
(* DocxStyleMap: [name, basedOn, level, list] of the lower-case style id.  *)

NoStyle == [name |-> <<>>, basedOn |-> <<>>, level |-> <<>>, list |-> FALSE]

ApplyStyleChild(info, child) ==
    CASE child.tag = "name"       -> [info EXCEPT !.name = <<child.val>>]
      [] child.tag = "basedOn"    -> [info EXCEPT !.basedOn = <<child.val>>]
      [] child.tag = "numPr"      -> [info EXCEPT !.list = TRUE]
      [] child.tag = "outlineLvl" ->
            [info EXCEPT !.level = IF ParseZeroBasedLevel(child.val) = <<>> THEN @ ELSE ParseZeroBasedLevel(child.val)]

InferFromNames(info, id) ==
    LET names  == <<LowerName[id]>> \o [i \in DOMAIN info.name |-> LowerName[info.name[i]]]
        levels == FlattenSeq([i \in DOMAIN names |-> NameLevel(names[i])])
    IN  [info EXCEPT !.level = IF @ # <<>> THEN @ ELSE First(levels),
                     !.list = @ \/ ToSet(names) \cap ListNames # {}]

(* Of two styles with one id the later one counts. *)
StyleMap(styles) ==
    LET Info(style) == InferFromNames(FoldLeft(ApplyStyleChild, NoStyle, style.children), style.id)
        Add(map, style) == IF style.type = "paragraph" THEN LowerName[style.id] :> Info(style) @@ map ELSE map
    IN  FoldLeft(Add, <<>>, styles)

(* The styles from this one up: as far as they are defined, and no further *)
(* than to the first that was there before.                                *)
Ancestry(map, id) ==
    LET chain[n \in 0..Cardinality(DOMAIN map)] ==
            IF n = 0 THEN <<LowerName[id]>>
            ELSE LET below == chain[n - 1] IN
                 IF below = <<>> \/ below[1] \notin DOMAIN map \/ map[below[1]].basedOn = <<>> THEN <<>>
                 ELSE <<LowerName[map[below[1]].basedOn[1]]>>
        Fresh(n) == /\ chain[n] # <<>> /\ chain[n][1] \in DOMAIN map
                    /\ \A k \in 0..n - 1 : chain[k] # chain[n]
        depth == Cardinality({n \in DOMAIN chain : \A k \in 0..n : Fresh(k)})
    IN  [n \in 1..depth |-> map[chain[n - 1][1]]]

Resolve(map, id) ==
    LET infos  == Ancestry(map, id)
        levels == FlattenSeq([n \in DOMAIN infos |-> infos[n].level])
    IN  [level |-> First(levels), list |-> \E n \in DOMAIN infos : infos[n].list]

-----------------------------------------------------------------------------
(* ParagraphState: [content, list, level].                                 *)

NoParagraph == [content |-> <<>>, list |-> FALSE, level |-> <<>>]

ApplyStyle(p, style) ==
    LET info == Resolve(reader.styles, style)
        name == LowerName[style]
        Over(old, new) == IF new = <<>> THEN old ELSE new
    IN  [p EXCEPT !.level = Over(Over(@, info.level), NameLevel(name)),
                  !.list = @ \/ info.list \/ name \in ListNames]

Rendered(s, style, link) ==
    IF link # <<>>
    THEN <<"<hyperlink>", TextTag(style)>> \o HtmlEscape(s) \o <<"</text>", "<url>">> \o HtmlEscape(link[1])
         \o <<"</url>", "</hyperlink>">>
    ELSE IF style = {} THEN HtmlEscape(s) ELSE <<TextTag(style)>> \o HtmlEscape(s) \o <<"</text>">>

PushText(p, s, style, links) ==
    LET link == IF links = <<>> THEN <<>> ELSE Last(links) IN
    [p EXCEPT !.content = @ \o Rendered(s, style, link)]

PushEquation(p, s) ==
    IF IsBlank(s) THEN p ELSE [p EXCEPT !.content = @ \o <<"<eq>">> \o HtmlEscape(Trim(s)) \o <<"</eq>">>]

IsEquationOnly(s) == s[1] = "<eq>" /\ Last(s) = "</eq>"

(* The block of a paragraph; none when there is nothing to read in it. *)
FlushAsBlock(p) ==
    LET s == Trim(p.content) IN
    IF s = <<>> THEN <<>>
    ELSE IF p.level # <<>> THEN <<Title(s, p.level[1])>>
    ELSE IF p.list THEN <<List(<<s>>)>>
    ELSE IF IsEquationOnly(s) THEN <<Equation(DropEndWhile(DropWhile(s, {"<eq>"}), {"</eq>"}))>>
    ELSE <<Text(s)>>

(* Faulty: what stands before a picture is not flushed. *)
HandleImageDroppingText(r, outcome) ==
    LET path == outcome.image[1] IN
    CASE outcome.image = <<>> -> [r EXCEPT !.warnings = @ + 1, !.discarded = @ \o outcome.reason]
      [] outcome.image # <<>> /\ r.inTable ->
            [r EXCEPT !.images = Append(@, path), !.warnings = @ + outcome.warnings,
                      !.table = PushCellText(@, <<"<img", path, "/>">>)]
      [] outcome.image # <<>> /\ ~r.inTable ->
            [r EXCEPT !.images = Append(@, path), !.warnings = @ + outcome.warnings,
                      !.blocks = @ \o <<Image(path)>>, !.paragraph.content = <<>>]

(* DocxImageContext::handle. *)
HandleImage(r, outcome) ==
    LET path == outcome.image[1]
        text == IF r.inParagraph THEN FlushAsBlock(r.paragraph) ELSE <<>>
    IN  CASE outcome.image = <<>> -> [r EXCEPT !.warnings = @ + 1, !.discarded = @ \o outcome.reason]
          [] outcome.image # <<>> /\ r.inTable ->
                [r EXCEPT !.images = Append(@, path), !.warnings = @ + outcome.warnings,
                          !.table = PushCellText(@, <<"<img", path, "/>">>)]
          [] outcome.image # <<>> /\ ~r.inTable ->
                [r EXCEPT !.images = Append(@, path), !.warnings = @ + outcome.warnings,
                          !.blocks = @ \o text \o <<Image(path)>>, !.paragraph.content = <<>>]

MergeAdjacentListBlocks(blocks) ==
    LET Add(merged, b) ==
            IF b.type = "list" /\ merged # <<>> /\ Last(merged).type = "list"
            THEN Append(Front(merged), List(Last(merged).items \o b.items))
            ELSE Append(merged, b)
    IN  FoldLeft(Add, <<>>, blocks)

-----------------------------------------------------------------------------
(* The loop.                                                               *)

WordDocument == <<"word", "document.xml">>

(* What every reader ends with, once all pages are there. *)
GiveDocument(images) ==
    \E middle \in {ToMiddleJson(pages')} : parsed' = <<ToParsedDocument(pages', middle, images)>>

NoReader == [kind |-> "none"]
DocxReader(styles) ==
    [kind |-> "docx", styles |-> StyleMap(styles), blocks |-> <<>>, images |-> <<>>, discarded |-> <<>>,
     warnings |-> 0, paragraph |-> NoParagraph, table |-> NoTable, inParagraph |-> FALSE, inTable |-> FALSE,
     capture |-> "None", links |-> <<>>, style |-> {}]

OpenDocx ==
    /\ upload.suffix = "docx" /\ reader = NoReader /\ parsed = <<>>
    /\ WordDocument \in DOMAIN upload.package.parts
    /\ reader' = DocxReader(upload.styles)
    /\ events' = upload.document
    /\ UNCHANGED docVars

Event(kinds, tags) ==
    /\ reader.kind = "docx" /\ events # <<>>
    /\ Head(events).e \in kinds /\ Head(events).tag \in tags
    /\ events' = Tail(events)
    /\ UNCHANGED docVars

Starts(tag) == Event({"start"}, {tag})
Opens(tags) == Event({"start", "empty"}, tags)
Ends(tag)   == Event({"end"}, {tag})
val         == Head(events).val

(* A paragraph within another one, in a text box, takes its place. *)
StartParagraph ==
    /\ Starts("p")
    /\ reader' = [reader EXCEPT !.inParagraph = TRUE,
            !.paragraph = IF val = "" THEN NoParagraph ELSE ApplyStyle(NoParagraph, val)]

ParagraphProperty ==
    /\ Opens({"pStyle", "numPr", "ilvl", "outlineLvl"})
    /\ LET p == reader.paragraph
           level == ParseZeroBasedLevel(val)
       IN  reader' = [reader EXCEPT !.paragraph =
               CASE ~reader.inParagraph -> p
                 [] reader.inParagraph /\ Head(events).tag = "pStyle" -> ApplyStyle(p, val)
                 [] reader.inParagraph /\ Head(events).tag = "numPr"  -> [p EXCEPT !.list = TRUE]
                 [] reader.inParagraph /\ Head(events).tag = "ilvl"   -> p
                 [] reader.inParagraph /\ Head(events).tag = "outlineLvl" ->
                        [p EXCEPT !.level = IF level = <<>> THEN @ ELSE level]]

StartRun == Starts("r") /\ reader' = [reader EXCEPT !.style = {}]

RunProperty ==
    /\ Opens({"b", "u"})
    /\ reader' = [reader EXCEPT !.style = @ \cup {IF Head(events).tag = "b" THEN "bold" ELSE "underline"}]

StartHyperlink ==
    /\ Starts("hyperlink")
    /\ LET found == SelectSeq(Relationships(upload.package, WordDocument),
                              LAMBDA rel : rel.id = val /\ rel.type = "hyperlink")
           target == IF found = <<>> THEN <<>> ELSE <<Last(found).target>>
       IN  reader' = [reader EXCEPT !.links = Append(@, target)]

(* A table within another one takes its place. *)
StartTable == Starts("tbl") /\ reader' = [reader EXCEPT !.inTable = TRUE, !.table = NoTable]

StartTableRow ==
    /\ Starts("tr")
    /\ reader' = IF reader.inTable THEN [reader EXCEPT !.table = StartRow(@)] ELSE reader

StartTableCell ==
    /\ Starts("tc")
    /\ reader' = IF reader.inTable THEN [reader EXCEPT !.table = StartCell(@)] ELSE reader

StartText ==
    /\ Starts("t")
    /\ reader' = [reader EXCEPT !.capture = IF @ = "Equation" THEN @ ELSE "Text"]

Break ==
    /\ Opens({"tab", "br"})
    /\ LET pushed == PushText(reader.paragraph, <<IF Head(events).tag = "br" THEN "nl" ELSE " ">>,
                              reader.style, reader.links)
       IN  reader' = [reader EXCEPT !.paragraph = IF reader.inParagraph THEN pushed ELSE @]

StartMath == Starts("oMath") /\ reader' = [reader EXCEPT !.capture = "Equation"]

(* A picture without a relationship is none. *)
Picture ==
    /\ Opens({"blip"})
    /\ \/ val = "" /\ UNCHANGED reader
       \/ /\ val # ""
          /\ \E outcome \in ExtractImage(upload.package, WordDocument, val, reader.images) :
                reader' = HandleImage(reader, outcome)

(* Within a table, both the cell and the paragraph get the text. *)
Characters ==
    /\ reader.kind = "docx" /\ events # <<>> /\ Head(events).e = "text"
    /\ LET s == Head(events).text
           r == reader
       IN  reader' =
             CASE r.capture = "None" -> r
               [] r.capture = "Text" -> [r EXCEPT
                    !.table = IF r.inTable THEN PushCellText(@, s) ELSE @,
                    !.paragraph = IF r.inParagraph THEN PushText(@, s, r.style, r.links) ELSE @]
               [] r.capture = "Equation" -> [r EXCEPT
                    !.table = IF r.inTable THEN PushCellText(@, <<"<eq>">> \o s \o <<"</eq>">>) ELSE @,
                    !.paragraph = IF r.inParagraph THEN PushEquation(@, s) ELSE @]
    /\ events' = Tail(events)
    /\ UNCHANGED docVars

EndText ==
    /\ Ends("t")
    /\ reader' = [reader EXCEPT !.capture = IF @ = "Equation" THEN @ ELSE "None"]

EndMath == Ends("oMath") /\ reader' = [reader EXCEPT !.capture = "None"]

EndHyperlink ==
    /\ Ends("hyperlink")
    /\ reader' = [reader EXCEPT !.links = IF @ = <<>> THEN @ ELSE Front(@)]

EndParagraph ==
    /\ Ends("p")
    /\ LET r == reader IN
       reader' = [r EXCEPT
            !.table = IF r.inTable THEN PushCellText(@, r.paragraph.content) ELSE @,
            !.blocks = IF r.inTable THEN @ ELSE @ \o FlushAsBlock(r.paragraph),
            !.paragraph = NoParagraph, !.inParagraph = FALSE]

EndRun == Ends("r") /\ reader' = [reader EXCEPT !.style = {}]

EndTableCell ==
    /\ Ends("tc")
    /\ reader' = IF reader.inTable THEN [reader EXCEPT !.table = FinishCell(@)] ELSE reader

EndTableRow ==
    /\ Ends("tr")
    /\ reader' = IF reader.inTable THEN [reader EXCEPT !.table = FinishRow(@)] ELSE reader

EndTable ==
    /\ Ends("tbl")
    /\ LET html == FinishHtml(reader.table) IN
       reader' = [reader EXCEPT !.blocks = IF html = <<>> THEN @ ELSE Append(@, Table(html[1])),
                                !.table = NoTable, !.inTable = FALSE]

(* Every other event is passed over. *)
OtherEvent ==
    /\ reader.kind = "docx" /\ events # <<>>
    /\ LET e == Head(events).e
           property == {"pStyle", "numPr", "ilvl", "outlineLvl", "b", "u", "tab", "br", "blip"}
       IN  \/ e = "start" /\ Head(events).tag \notin
                    property \cup {"p", "r", "hyperlink", "tbl", "tr", "tc", "t", "oMath"}
           \/ e = "empty" /\ Head(events).tag \notin property
           \/ e = "end" /\ Head(events).tag \notin {"t", "oMath", "hyperlink", "p", "r", "tc", "tr", "tbl"}
    /\ events' = Tail(events)
    /\ UNCHANGED <<docVars, reader>>

EndDocx ==
    /\ reader.kind = "docx" /\ events = <<>>
    /\ pages' = <<[blocks |-> MergeAdjacentListBlocks(reader.blocks), discarded |-> reader.discarded]>>
    /\ GiveDocument(reader.images)
    /\ reader' = NoReader
    /\ UNCHANGED <<upload, events>>

ReadDocx ==
    \/ OpenDocx
    \/ StartParagraph \/ ParagraphProperty \/ StartRun \/ RunProperty \/ StartHyperlink
    \/ StartTable \/ StartTableRow \/ StartTableCell \/ StartText \/ Break \/ StartMath \/ Picture
    \/ Characters \/ OtherEvent
    \/ EndText \/ EndMath \/ EndHyperlink \/ EndParagraph \/ EndRun
    \/ EndTableCell \/ EndTableRow \/ EndTable \/ EndDocx
=============================================================================
