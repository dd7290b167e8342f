---------------------------- MODULE OfficeText ----------------------------
(***************************************************************************)
(* The text of Office documents (src/src/office/inline.rs, markdown.rs and *)
(* model.rs): the inline tags the parsers write, the spans they are read   *)
(* back as, and the outputs made of the blocks.                            *)
(*                                                                         *)
(* A text is a sequence of characters as in TextRendering; a tag is one    *)
(* character, and the opening tag of a text says its styles.  Of the four  *)
(* styles there are two, bold and underline.  An optional value is a       *)
(* sequence of at most one value.                                          *)
(***************************************************************************)
EXTENDS TextRendering

Style == {"bold", "underline"}

TextTag(styles) ==
    CASE styles = {}            -> "<text>"
      [] styles = {"bold"}      -> "<text b>"
      [] styles = {"underline"} -> "<text u>"
      [] styles = Style         -> "<text b,u>"

TextTags == {TextTag(styles) : styles \in SUBSET Style}
ParseStyleAttr(tag) == CHOOSE styles \in SUBSET Style : TextTag(styles) = tag
InlineTag == TextTags \cup {"<eq>", "<hyperlink>"}

DecodeBasicEntities(s) ==
    ReplaceEach(s, <<<<<<"&", "quot;">>, <<"\"">>>>, <<<<"&", "gt;">>, <<">">>>>,
                     <<<<"&", "lt;">>, <<"<">>>>, <<<<"&", "amp;">>, <<"&">>>>>>)

-----------------------------------------------------------------------------
(* parse_inline_spans.                                                     *)

Span(type, content, styles, url) == [type |-> type, content |-> content, styles |-> styles, url |-> url]

PlainText(s) == IF s = <<>> THEN <<>> ELSE <<Span("text", DecodeBasicEntities(s), {}, <<>>)>>

(* Where c is next, from i on; 0 when it is not. *)
Next1(s, i, c) == SelectInSubSeq(s, i, Len(s), LAMBDA x : x = c)

(* The span of the tag at i and what follows it; no span when the tag is   *)
(* not closed or not made as it should be.                                 *)
Unparsed == [span |-> <<>>, next |-> 0]
Parsed(span, next) == [span |-> <<span>>, next |-> next]

ParseEquation(s, i) ==
    LET j == Next1(s, i, "</eq>") IN
    IF j = 0 THEN Unparsed
    ELSE Parsed(Span("inline_equation", DecodeBasicEntities(Trim(SubSeq(s, i + 1, j - 1))), {}, <<>>), j + 1)

ParseTextTag(s, i) ==
    LET j == Next1(s, i, "</text>") IN
    IF j = 0 THEN Unparsed
    ELSE Parsed(Span("text", DecodeBasicEntities(SubSeq(s, i + 1, j - 1)), ParseStyleAttr(s[i]), <<>>), j + 1)

ParseHyperlinkTag(s, i) ==
    LET j     == Next1(s, i, "</hyperlink>")
        inner == SubSeq(s, i + 1, j - 1)
        text  == ParseTextTag(inner, 1)
        from  == Next1(inner, 1, "<url>")
        to    == Next1(inner, from, "</url>")
        url   == DecodeBasicEntities(SubSeq(inner, from + 1, to - 1))
    IN  IF j = 0 \/ inner = <<>> \/ inner[1] \notin TextTags \/ text = Unparsed \/ from = 0 \/ to = 0 THEN Unparsed
        ELSE Parsed([text.span[1] EXCEPT !.type = "hyperlink", !.url = url], j + 1)

ParseTag(s, i) ==
    CASE s[i] = "<eq>"        -> ParseEquation(s, i)
      [] s[i] = "<hyperlink>" -> ParseHyperlinkTag(s, i)
      [] OTHER                -> ParseTextTag(s, i)

MergeAdjacentTextSpans(spans) ==
    LET Alike(a, b) == a.type = "text" /\ b.type = "text" /\ a.styles = b.styles
        Add(merged, b) ==
            IF merged # <<>> /\ Alike(Last(merged), b)
            THEN Append(Front(merged), [Last(merged) EXCEPT !.content = @ \o b.content])
            ELSE Append(merged, b)
    IN  FoldLeft(Add, <<>>, spans)

ParseInlineSpans(s) ==
    LET NextTag(i) == SelectInSubSeq(s, i, Len(s), LAMBDA c : c \in InlineTag)
        Rest(i) == PlainText(SubSeq(s, i, Len(s)))
        from[i \in 1..Len(s) + 1] ==
            LET t == NextTag(i) IN
            CASE i > Len(s) -> <<>>
              [] i <= Len(s) /\ t = 0 -> Rest(i)
              [] t > i -> PlainText(SubSeq(s, i, t - 1)) \o from[t]
              [] i <= Len(s) /\ t = i ->
                    LET tag == ParseTag(s, i) IN IF tag = Unparsed THEN Rest(i) ELSE tag.span \o from[tag.next]
    IN  MergeAdjacentTextSpans(from[1])

-----------------------------------------------------------------------------
(* Blocks, and what each output has of them.                               *)

Text(content)         == [type |-> "text", content |-> content]
Title(content, level) == [type |-> "title", content |-> content, level |-> level]
Table(html)           == [type |-> "table", html |-> html]
Chart(html)           == [type |-> "chart", html |-> html]
Equation(latex)       == [type |-> "equation", latex |-> latex]
List(items)           == [type |-> "list", items |-> items]
Image(path)           == [type |-> "image", path |-> path]

LineWithInlineSpans(s) == ParseInlineSpans(s)

(* OfficeBlock::to_middle_json. *)
OfficeMiddle(b) ==
    CASE b.type \in {"text", "title"} -> [b EXCEPT !.content = LineWithInlineSpans(@)]
      [] b.type = "list" -> [b EXCEPT !.items = [i \in DOMAIN @ |-> LineWithInlineSpans(@[i])]]
      [] OTHER -> b

EscapeMarkdownText(s) ==
    ReplaceEach(s, <<<<<<"\\">>, <<"\\", "\\">>>>, <<<<"[">>, <<"\\", "[">>>>,
                     <<<<"]">>, <<"\\", "]">>>>, <<<<"_">>, <<"\\", "_">>>>>>)

ApplyMarkdownStyles(s, styles) ==
    LET text == EscapeMarkdownText(s)
        bold == IF "bold" \in styles THEN <<"**">> \o text \o <<"**">> ELSE text
    IN  IF "underline" \in styles THEN <<"<u>">> \o bold \o <<"</u>">> ELSE bold

EscapeLinkDestination(s) == ReplaceEach(s, <<<<<<")">>, <<"%29">>>>, <<<<" ">>, <<"%20">>>>>>)

RenderInlineSpan(span) ==
    LET text == ApplyMarkdownStyles(span.content, span.styles) IN
    CASE span.type = "text"            -> text
      [] span.type = "inline_equation" -> <<"$">> \o Trim(span.content) \o <<"$">>
      [] span.type = "hyperlink" -> <<"[">> \o text \o <<"](">> \o EscapeLinkDestination(span.url) \o <<")">>

RenderInlineMarkdown(spans) == FlattenSeq([i \in DOMAIN spans |-> RenderInlineSpan(spans[i])])

(* Pictures within a table are already named below images/. *)
OfficeEmbeddedHtml(html) ==
    ReplaceEach(html, <<<<<<"<eq>">>, <<" ", "$">>>>, <<<<"</eq>">>, <<"$", " ">>>>>>)

(* The outputs of one block.  Each parses its text again; here they share  *)
(* the spans that the block already has.                                   *)

(* make_content_list. *)
OfficeContentV1(b) ==
    CASE b.type = "text"  -> [type |-> "text", text |-> RenderInlineMarkdown(b.content)]
      [] b.type = "title" -> [type |-> "text", text |-> RenderInlineMarkdown(b.content), level |-> b.level]
      [] b.type \in {"table", "chart"} -> [b EXCEPT !.html = OfficeEmbeddedHtml(@)]
      [] b.type = "list" ->
            LET items == [i \in DOMAIN b.items |-> RenderInlineMarkdown(b.items[i])]
            IN  [type |-> "list", items |-> SelectSeq(items, LAMBDA item : ~IsBlank(item))]
      [] OTHER -> b

(* Blanks are shown only where a line is drawn below them. *)
InlineContentV2(spans) ==
    LET Shown(span) == ~IsBlank(span.content) \/ (span.type = "text" /\ "underline" \in span.styles)
    IN  SelectSeq(spans, Shown)

(* make_block_content_v2. *)
OfficeContentV2(b) ==
    CASE b.type \in {"text", "title"} -> [b EXCEPT !.content = InlineContentV2(@)]
      [] b.type \in {"table", "chart"} -> [b EXCEPT !.html = OfficeEmbeddedHtml(@)]
      [] b.type = "list" ->
            LET items == [i \in DOMAIN b.items |-> InlineContentV2(b.items[i])]
            IN  [type |-> "list", items |-> SelectSeq(items, LAMBDA item : item # <<>>)]
      [] OTHER -> b

(* make_markdown. *)
OfficeMarkdown(b) ==
    CASE b.type = "text"  -> RenderInlineMarkdown(b.content)
      [] b.type = "title" -> [i \in 1..b.level |-> "#"] \o <<" ">> \o RenderInlineMarkdown(b.content)
      [] b.type \in {"table", "chart"} -> OfficeEmbeddedHtml(b.html)
      [] b.type = "image" -> <<"![image](", b.path, ")">>
      [] b.type = "equation" -> <<"$$", "nl">> \o Trim(b.latex) \o <<"nl", "$$">>
      [] b.type = "list" ->
            LET Item(i) == (IF i = 1 THEN <<>> ELSE <<"nl">>) \o <<"-", " ">> \o RenderInlineMarkdown(b.items[i])
            IN  FlattenSeq([i \in DOMAIN b.items |-> Item(i)])

EachBlock(pages, Of(_)) ==
    [n \in DOMAIN pages |-> [i \in DOMAIN pages[n] |-> Of(pages[n][i])]]

(* to_middle_json and to_parsed_document: pages of [blocks, discarded].    *)
ToMiddleJson(pages) == EachBlock([n \in DOMAIN pages |-> pages[n].blocks], OfficeMiddle)

ToParsedDocument(pages, middle, images) ==
    [markdown      |-> FlattenSeq(EachBlock(middle, OfficeMarkdown)),
     middle        |-> middle,
     discarded     |-> [n \in DOMAIN pages |-> pages[n].discarded],
     contentList   |-> FlattenSeq(EachBlock(middle, OfficeContentV1)),
     contentListV2 |-> EachBlock(middle, OfficeContentV2),
     images        |-> images]
=============================================================================
