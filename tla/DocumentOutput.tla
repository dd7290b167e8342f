--------------------------- MODULE DocumentOutput ---------------------------
(***************************************************************************)
(* The outputs of a document, in the form MinerU's Python service gives    *)
(* them (src/src/vlm/python_compat.rs: append_fragments, finish): the      *)
(* pages one after another, then Markdown and both content lists.          *)
(***************************************************************************)
EXTENDS PageOutput

VARIABLES
    pdfInfo,    \* the pages that are done [para, discarded, size]
    output      \* PythonDocumentOutput, empty before finish

vars == <<pageVars, pdfInfo, output>>

-----------------------------------------------------------------------------
(* What the outputs take from a block.                                     *)

(* get_body_data: the first span of the body, or of the block itself. *)
GetBodyData(b) ==
    LET all    == Append(b.blocks, b)
        bodies == FlattenSeq([i \in DOMAIN all |->
                      IF all[i].type \in {"image_body", "table_body", "chart_body", "code_body", "interline_equation"}
                      THEN FlattenSeq(all[i].lines) ELSE <<>>])
        spans  == FlattenSeq([k \in DOMAIN bodies |->
                      IF bodies[k].type = "inline_equation" THEN <<>> ELSE <<bodies[k]>>])
    IN  IF spans = <<>> THEN [image |-> None, content |-> <<>>]
        ELSE [image |-> spans[1].image, content |-> spans[1].content]

TextOf(b, escapePrefix) == MergeParaWithText(b.type, b.lines, escapePrefix)
SpansV2(b) == MergeParaWithTextV2(b.type, b.lines)

OfType(b, type) == SelectSeq(b.blocks, LAMBDA c : c.type = type)
ChildTexts(b, type) == LET cs == OfType(b, type) IN [i \in DOMAIN cs |-> TextOf(cs[i], TRUE)]
ChildSpans(b, type) == LET cs == OfType(b, type) IN FlattenSeq([i \in DOMAIN cs |-> SpansV2(cs[i])])

Discarded == {"header", "footer", "page_number", "aside_text", "page_footnote"}

-----------------------------------------------------------------------------
(* make_content_list.                                                      *)

ContentV1(b) ==
    LET body == GetBodyData(b)
        With(type, content) ==
            [type |-> type, image |-> body.image, content |-> content,
             caption |-> ChildTexts(b, CaptionType[type]), footnote |-> ChildTexts(b, FootnoteType[type])]
    IN  CASE b.type \in {"text", "ref_text", "phonetic"} \cup Discarded ->
                [type |-> b.type, text |-> TextOf(b, TRUE)]
          [] b.type = "list" ->
                [type |-> "list", subType |-> b.subType,
                 items |-> SelectSeq([i \in DOMAIN b.blocks |-> TextOf(b.blocks[i], FALSE)],
                                     LAMBDA t : ~IsBlank(t))]
          [] b.type = "title" -> [type |-> "text", text |-> TextOf(b, TRUE), level |-> 1]
          [] b.type = "interline_equation" -> [type |-> "equation", text |-> TextOf(b, TRUE)]
          [] b.type \in {"image", "chart"} -> With(b.type, body.content)
          [] b.type = "table" -> With("table", FormatEmbeddedHtml(body.content))
          [] b.type = "code" ->
                LET bodies == OfType(b, "code_body")
                    code   == IF bodies = <<>> THEN <<>> ELSE TextOf(Last(bodies), TRUE)
                IN  [type |-> "code", subType |-> b.subType, caption |-> ChildTexts(b, "code_caption"),
                     content |-> IF b.subType = "code" THEN <<"fence txt">> \o code \o <<"fence">> ELSE code]

MakeBlockContentV1(b, n) ==
    [entry |-> ContentV1(b), bbox |-> BboxToContentBbox(b.bbox, pdfInfo[n].size), page |-> n]

OutputBlocks(n) == pdfInfo[n].para \o pdfInfo[n].discarded

MakeContentList ==
    FlattenSeq([n \in DOMAIN pdfInfo |->
        [i \in DOMAIN OutputBlocks(n) |-> MakeBlockContentV1(OutputBlocks(n)[i], n)]])

-----------------------------------------------------------------------------
(* make_content_list_v2: a code block has no entry.                        *)

ContentV2(b) ==
    LET body == GetBodyData(b)
        With(type, content) ==
            [type |-> type, image |-> body.image, content |-> content,
             caption |-> ChildSpans(b, CaptionType[type]), footnote |-> ChildSpans(b, FootnoteType[type])]
        Items(list, items) == [type |-> "list", listType |-> list, items |-> items]
    IN  CASE b.type \in Discarded \cup {"title"} -> [type |-> b.type, content |-> SpansV2(b)]
          [] b.type \in {"text", "phonetic"} -> [type |-> "paragraph", content |-> SpansV2(b)]
          [] b.type = "ref_text" -> Items("reference_list", <<SpansV2(b)>>)
          [] b.type = "list" -> Items(IF b.subType = "ref_text" THEN "reference_list" ELSE "text_list",
                                      [i \in DOMAIN b.blocks |-> SpansV2(b.blocks[i])])
          [] b.type = "interline_equation" ->
                [type |-> "equation_interline", content |-> body.content, image |-> body.image]
          [] b.type \in {"image", "chart"} -> With(b.type, body.content)
          [] b.type = "table" -> With("table", FormatEmbeddedHtml(body.content))

MakeBlockContentV2(b, n) ==
    [entry |-> ContentV2(b), bbox |-> BboxToContentBbox(b.bbox, pdfInfo[n].size)]

EntriesV2(bs, n) ==
    FlattenSeq([i \in DOMAIN bs |-> IF bs[i].type = "code" THEN <<>> ELSE <<MakeBlockContentV2(bs[i], n)>>])

(* Faulty: of a page only the paragraphs. *)
MakeContentListV2OfPara == [n \in DOMAIN pdfInfo |-> EntriesV2(pdfInfo[n].para, n)]

MakeContentListV2 == [n \in DOMAIN pdfInfo |-> EntriesV2(OutputBlocks(n), n)]

-----------------------------------------------------------------------------
(* make_markdown: the paragraphs that an empty line separates.             *)

Link(image) == <<"![](", image, ")">>

(* merge_visual_to_markdown: what a child of a visual block gives. *)
VisualSegments(c) ==
    LET body == GetBodyData(c)
        Line(text) == [kind |-> "markdown_line", text |-> text]
        Html(text) == [kind |-> "html_block", text |-> text]
        If(cond, segment) == IF cond THEN <<segment>> ELSE <<>>
    IN  CASE c.type \in {"image_body", "chart_body"} ->
                If(body.image # None, Line(Link(body.image)))
                \o If(~IsBlank(body.content), Html(<<"<details>">> \o body.content \o <<"</details>">>))
          [] c.type = "table_body" ->
                IF body.content # <<>> THEN <<Html(FormatEmbeddedHtml(body.content))>>
                ELSE If(body.image # None, Line(Link(body.image)))
          [] OTHER -> If(~IsBlank(TextOf(c, TRUE)), Line(TextOf(c, TRUE)))

(* Two segments are parted by an empty line next to HTML, by a line break  *)
(* otherwise.                                                              *)
AddSegment(merged, segment) ==
    LET break == CASE merged.kind = "none" -> <<>>
                   [] merged.kind # "none" /\ "html_block" \in {merged.kind, segment.kind} -> <<"nl", "nl">>
                   [] OTHER -> <<" ", " ", "nl">>
    IN  [kind |-> segment.kind, text |-> merged.text \o break \o segment.text]

MergeVisualToMarkdown(b) ==
    FoldLeft(AddSegment, [kind |-> "none", text |-> <<>>],
             FlattenSeq([i \in DOMAIN b.blocks |-> VisualSegments(b.blocks[i])])).text

MarkdownOf(b) ==
    CASE b.type \in {"text", "interline_equation", "phonetic", "ref_text"} -> TextOf(b, TRUE)
      [] b.type = "title" -> <<"#", " ">> \o TextOf(b, TRUE)
      [] b.type = "list" ->
            FlattenSeq([i \in DOMAIN b.blocks |-> TextOf(b.blocks[i], FALSE) \o <<" ", " ", "nl">>])
      [] OTHER -> MergeVisualToMarkdown(b)

MarkdownBlocks == FlattenSeq([n \in DOMAIN pdfInfo |-> pdfInfo[n].para])

MakeMarkdown ==
    LET Add(texts, b) == texts \o SelectSeq(<<Trim(MarkdownOf(b))>>, LAMBDA t : t # <<>>)
    IN  FoldLeft(Add, <<>>, MarkdownBlocks)

-----------------------------------------------------------------------------
Init == PageInit /\ pdfInfo = <<>> /\ output = <<>>

BuildPageFragment == BuildPage /\ UNCHANGED <<pdfInfo, output>>

(* append_fragments. *)
AppendFragment ==
    /\ phase = "merge" /\ at = 0
    /\ pdfInfo' = Append(pdfInfo, [para |-> para, preproc |-> preproc, discarded |-> discarded,
                                   size |-> <<pages[page].width, pages[page].height>>])
    /\ page' = page + 1
    /\ phase' = "layout"
    /\ raw' = <<>> /\ blocks' = <<>> /\ preproc' = <<>> /\ para' = <<>> /\ discarded' = <<>>
    /\ UNCHANGED <<pages, at, files, output>>

Finish ==
    /\ phase = "layout" /\ page > Len(pages)
    /\ output' = [markdown |-> MakeMarkdown, contentList |-> MakeContentList,
                  contentListV2 |-> MakeContentListV2]
    /\ phase' = "finished"
    /\ UNCHANGED <<pages, page, raw, blocks, preproc, para, discarded, at, files, pdfInfo>>

Next == BuildPageFragment \/ AppendFragment \/ Finish

Spec == Init /\ [][Next]_vars

-----------------------------------------------------------------------------
(* Properties.                                                             *)

(* Every page gets a place in pdf_info, boxes of blocks are ordered and    *)
(* within 0..1000, and the outputs exist exactly when the work is done.    *)
TypeOK ==
    /\ page \in 1..Len(pages) + 1
    /\ phase \in {"idle", "layout", "convert", "crop", "merge", "failed", "finished"}
    /\ Len(pdfInfo) = page - 1
    /\ at \in 0..Len(para)
    /\ \A i \in DOMAIN raw :
          LET b == raw[i].bbox IN 0 <= b[1] /\ b[1] < b[3] /\ b[3] <= 1000
                                  /\ 0 <= b[2] /\ b[2] < b[4] /\ b[4] <= 1000
    /\ (output # <<>>) <=> (phase = "finished")

(* Whatever corners the VLM answers, the box of a block lies in its page,  *)
(* its crop has pixels, and the content lists place it within 0..1000.     *)
BoxesInPage ==
    LET p == pages[page]
        Inside(b, most) == /\ 0 <= b[1] /\ b[1] <= b[3] /\ b[3] <= most[1]
                           /\ 0 <= b[2] /\ b[2] <= b[4] /\ b[4] <= most[2]
        HasPixels(side, pixels) == side.first < side.last /\ side.last <= pixels
    IN  /\ page <= Len(pages) => \A i \in DOMAIN blocks :
              LET b == blocks[i].bbox IN
              /\ Inside(b, <<p.width, p.height>>)
              /\ HasPixels(PythonCropSide(b[1], b[3], p.width, p.pixels[1]), p.pixels[1])
              /\ HasPixels(PythonCropSide(b[2], b[4], p.height, p.pixels[2]), p.pixels[2])
        /\ output # <<>> => \A i \in DOMAIN output.contentList :
              Inside(output.contentList[i].bbox, <<1000, 1000>>)

(* A block of the page is found once in the outputs: as a paragraph, a     *)
(* part of a visual block, an item of a list, or discarded.                *)
BlocksKept ==
    LET Places(b) == IF b.blocks = <<>> THEN <<b.index>>
                     ELSE [i \in DOMAIN b.blocks |-> b.blocks[i].index]
        all == preproc \o discarded
        placed == FlattenSeq([i \in DOMAIN all |-> Places(all[i])])
    IN  phase = "merge" =>
            /\ ToSet(placed) = {b.index : b \in {c \in ToSet(blocks) : c.type # "list"}}
            /\ Len(placed) = Cardinality(ToSet(placed))

(* Between a figure and its caption or footnote there is nothing but other *)
(* captions and footnotes, a footnote follows its figure, and the captions *)
(* of two figures do not cross.                                            *)
CaptionsAtTheirBody ==
    LET visuals == {i \in DOMAIN para : para[i].type \in DOMAIN BodyType}
        Parts(v) == {b.index : b \in ToSet(para[v].blocks)}
        TypeAt(k) == (CHOOSE b \in ToSet(blocks) : b.index = k).type
        BodyAt(v) == para[v].index
        BlocksBetween(c, v) == {k \in Between(c, BodyAt(v)) : \E b \in ToSet(blocks) : b.index = k}
    IN  phase = "merge" => \A v \in visuals :
            /\ \A c \in Parts(v) \ {BodyAt(v)} :
                  /\ \A k \in BlocksBetween(c, v) : TypeAt(k) \in GenericChild
                  /\ TypeAt(c) = "footnote" => c > BodyAt(v)
            /\ \A w \in visuals : v < w => \A c \in Parts(v), d \in Parts(w) : c < d

(* Merging paragraphs that go on keeps every line, in reading order.       *)
LinesInOrder ==
    LET LinesIn(bs) == FlattenSeq([i \in DOMAIN bs |-> IF bs[i].type = "text" THEN bs[i].lines ELSE <<>>])
    IN  phase = "merge" => LinesIn(para) = LinesIn(preproc)

(* The figures, tables and equations of the outputs name images that were  *)
(* written; a page with a crop that fails gives no outputs.                *)
ImagesWritten ==
    LET Written(e) == e.type \in {"image", "table", "chart", "equation_interline"} => e.image \in files
    IN  output # <<>> =>
            /\ \A i \in DOMAIN output.contentList : Written(output.contentList[i].entry)
            /\ \A n \in DOMAIN output.contentListV2 : \A i \in DOMAIN output.contentListV2[n] :
                  Written(output.contentListV2[n][i].entry)

(* Spans of a text have all that is visible in it, in order.               *)
TextKept ==
    LET hidden == Blank \cup {"\\(", "\\)", "\\[", "\\]", "[", "]"}
        Visible(s) == SelectSeq(s, LAMBDA c : c \notin hidden)
        Content(spans) == FlattenSeq([i \in DOMAIN spans |-> spans[i].content])
    IN  phase = "crop" => \A i \in DOMAIN blocks :
            Visible(Content(blocks[i].lines[1])) = Visible(raw[blocks[i].index].content)

(* A table in the table language becomes HTML with rows of one length and  *)
(* every text of its cells, in order.                                      *)
TableTextKept ==
    LET tables == IF phase # "convert" THEN {}
                  ELSE {s.content : s \in {t \in ToSet(pages[page].segments) : t.ref = "table"}}
        Text(s) == SelectSeq(s, LAMBDA c : c \notin Blank \cup Otsl \cup Tag \cup {"<tr>", "</tr>", "<td>", "</td>"})
        Row(html, i) == SelectSeq(SubSeq(html, i, SelectInSubSeq(html, i, Len(html), LAMBDA c : c = "</tr>")),
                                  LAMBDA c : c = "<td>")
    IN  \A content \in tables :
            LET html == ConvertOtslToHtml(content)
                rows == {i \in DOMAIN html : html[i] = "<tr>"}
            IN  /\ Text(HtmlUnescape(html)) = Text(content)
                /\ \A i, j \in rows : Row(html, i) = Row(html, j)

(* The backslashes right before the character at i. *)
Slashes(s, i) == Max({n \in 0..i - 1 : \A k \in i - n..i - 1 : s[k] = "\\"})

Escaped(s) == \A i \in DOMAIN s : s[i] \in Special => Slashes(s, i) % 2 = 1

(* In the Markdown of a text, a special character is escaped, whatever     *)
(* backslashes precede it, text is escaped once however often it passes,   *)
(* and no text becomes a heading or a list.                                *)
EscapesSafe ==
    LET Plain(b) == b.type = "text" /\ \A s \in ToSet(Spans(b.lines)) : s.type = "text"
        OneLine(b) == Len(b.lines) = 1
    IN  phase = "merge" => \A i \in {j \in DOMAIN para : Plain(para[j]) /\ OneLine(para[j])} :
            LET t == TextOf(para[i], TRUE) IN Escaped(t) /\ EscapeText(t) = t /\ EscapePrefix(t) = t

(* Markdown shows every block but headers, footers and what is empty.      *)
MarkdownShows ==
    LET Shows(e) ==
            CASE "level" \in DOMAIN e -> TRUE
              [] "items" \in DOMAIN e -> e.items # <<>>
              [] "image" \in DOMAIN e -> e.image # None \/ ~IsBlank(e.content)
              [] "text" \in DOMAIN e  -> ~IsBlank(e.text)
              [] OTHER                -> ~IsBlank(e.content)
        InMarkdown(e) == e.type \notin Discarded /\ Shows(e)
    IN  output # <<>> =>
            Len(output.markdown) = Len(SelectSeq(output.contentList, LAMBDA e : InMarkdown(e.entry)))

(* What an entry of a content list tells of its block: its place, its kind *)
(* and, of a figure, its image.                                            *)
Kind(type) ==
    CASE type \in {"image", "table", "chart"} \cup Discarded -> type
      [] type \in {"equation", "equation_interline"}         -> "equation"
      [] OTHER                                               -> "text"

Told(e) == [bbox |-> e.bbox, kind |-> Kind(e.entry.type),
            image |-> IF e.entry.type \in {"image", "table", "chart"} THEN e.entry.image ELSE None]

(* What the first list tells of page n, but code. *)
OfPage(v1, n) ==
    FlattenSeq([i \in DOMAIN v1 |-> IF v1[i].page = n /\ v1[i].entry.type # "code" THEN <<Told(v1[i])>> ELSE <<>>])

ListsAgree(v1, v2) ==
    /\ \A n \in DOMAIN v2 : [i \in DOMAIN v2[n] |-> Told(v2[n][i])] = OfPage(v1, n)
    /\ \A i \in DOMAIN v1 : v1[i].page \in DOMAIN v2
    /\ \A i, j \in DOMAIN v1 : i < j => v1[i].page <= v1[j].page

(* The content lists tell of the same blocks: of every page the second one *)
(* tells what the first one tells but of code, in its order, and the first *)
(* one goes through the pages in order.                                    *)
OutputsAgree == output # <<>> => ListsAgree(output.contentList, output.contentListV2)
=============================================================================
