-------------------------------- MODULE Pptx --------------------------------
(***************************************************************************)
(* Reading a presentation (src/src/office/pptx.rs): one action for each    *)
(* arm of the loop over the XML events of a slide.  Events are those of    *)
(* Docx; that of a position or a size has the two numbers in at, and each  *)
(* of them may be missing.                                                 *)
(***************************************************************************)
EXTENDS Docx

CONSTANTS TitleBytes,   \* below this a first text is a title; 80 in the code
          MaxI64        \* an i64 no slide has a place for

TinyDecorationSizeEmu == 91440
FullSlideImagePercent == 98
FullSlideOriginTolerancePercent == 1

Presentation == <<"ppt", "presentation.xml">>

(* slide_parts_in_order: as the presentation lists them; by name when it   *)
(* lists none that is there.                                               *)
SlidePartsInOrder ==
    LET Part(id) == RelationshipTargetPart(upload.package, Presentation, id)
        listed == FlattenSeq([i \in DOMAIN upload.slideIds |-> Part(upload.slideIds[i])])
    IN  IF listed # <<>> THEN listed ELSE upload.slideFiles

-----------------------------------------------------------------------------
(* PptElementState.                                                        *)

Element(kind) ==
    [kind |-> kind, x |-> <<>>, y |-> <<>>, width |-> <<>>, height |-> <<>>, text |-> <<>>, table |-> <<>>,
     html |-> <<>>, chart |-> <<>>, hasChart |-> FALSE, image |-> <<>>]

IsTinyDecoration(el) ==
    /\ el.width # <<>> /\ el.height # <<>>
    /\ el.width[1] <= TinyDecorationSizeEmu /\ el.height[1] <= TinyDecorationSizeEmu

WithinPercentOfOrigin(n, reference) ==
    reference > 0 /\ (IF n < 0 THEN -n ELSE n) * 100 <= reference * FullSlideOriginTolerancePercent
CoversPercent(n, reference) == reference > 0 /\ n * 100 >= reference * FullSlideImagePercent

IsFullSlideBackground(el) ==
    /\ upload.slideSize # <<>>
    /\ <<>> \notin {el.x, el.y, el.width, el.height}
    /\ WithinPercentOfOrigin(el.x[1], upload.slideSize[1]) /\ WithinPercentOfOrigin(el.y[1], upload.slideSize[2])
    /\ CoversPercent(el.width[1], upload.slideSize[1]) /\ CoversPercent(el.height[1], upload.slideSize[2])

PushElementText(el, s) ==
    CASE el.table # <<>> -> [el EXCEPT !.table[1] = PushCellText(@, HtmlEscape(s))]
      [] el.table = <<>> /\ (el.kind = "graphicFrame" \/ el.hasChart) ->
            [el EXCEPT !.chart = IF IsBlank(s) THEN @ ELSE Append(@, Trim(s))]
      [] el.table = <<>> /\ el.kind # "graphicFrame" /\ ~el.hasChart ->
            [el EXCEPT !.text = @ \o (IF @ = <<>> \/ Last(@) = "nl" THEN <<>> ELSE <<" ">>) \o Trim(s)]

FinishPptParagraph(el) ==
    [el EXCEPT !.text = IF el.table = <<>> /\ ~IsBlank(@) THEN Append(@, "nl") ELSE @]

InTable(el, Op(_)) == IF el.table = <<>> THEN el ELSE [el EXCEPT !.table[1] = Op(@)]

FinishPptTable(el) == IF el.table = <<>> THEN el ELSE [el EXCEPT !.html = FinishHtml(el.table[1]), !.table = <<>>]

ChartTextToTable(values) ==
    <<"<table>">> \o FlattenSeq([i \in DOMAIN values |-> HtmlRow(<<HtmlEscape(values[i])>>)]) \o <<"</table>">>

(* What finish may make of an element: a block, if any, and the warnings.  *)
Made(blocks, warnings) == [blocks |-> blocks, warnings |-> warnings]

FinishElement(element) ==
    LET el == FinishPptTable(element)
        text == Trim(el.text)
        Of(outcome) == Made([i \in DOMAIN outcome.image |-> Image(outcome.image[i])], outcome.warnings)
    IN  IF el.kind = "pic"
        THEN IF IsTinyDecoration(el) \/ IsFullSlideBackground(el) \/ el.image = <<>> THEN {Made(<<>>, 0)}
             ELSE {Of(outcome) : outcome \in ExtractImage(upload.package, reader.part, el.image[1], reader.stored)}
        ELSE IF el.html # <<>> THEN {Made(<<Table(el.html[1])>>, 0)}
        ELSE IF el.chart # <<>> THEN {Made(<<Chart(ChartTextToTable(el.chart))>>, 0)}
        ELSE {Made(IF text = <<>> THEN <<>> ELSE <<Text(text)>>, 0)}

-----------------------------------------------------------------------------
(* The items of a slide, in reading order.                                 *)

SortKey(item) ==
    CASE item.y # <<>> /\ item.x # <<>> -> <<0, item.y[1], item.x[1], item.sequence>>
      [] item.y # <<>> /\ item.x = <<>> -> <<0, item.y[1], MaxI64, item.sequence>>
      [] item.y = <<>>                  -> <<1, MaxI64, MaxI64, item.sequence>>

Before(a, b) == \E i \in 1..4 : SortKey(a)[i] < SortKey(b)[i] /\ \A j \in 1..i - 1 : SortKey(a)[j] = SortKey(b)[j]

(* Outcomes, as push_slide_item leaves them: an item has the next number. *)
PushSlideItem(r, el, made) ==
    LET item == [sequence |-> Len(r.items), x |-> el.x, y |-> el.y, block |-> made.blocks[1]]
        stored == IF made.blocks # <<>> /\ made.blocks[1].type = "image" THEN <<made.blocks[1].path>> ELSE <<>>
    IN  [r EXCEPT !.element = <<>>, !.warnings = @ + made.warnings, !.stored = @ \o stored,
                  !.items = IF made.blocks = <<>> THEN @ ELSE Append(@, item)]

PushBlock(blocks, b) ==
    IF b.type = "text" /\ Len(b.content) < TitleBytes /\ blocks = <<>> THEN <<Title(b.content, 1)>>
    ELSE Append(blocks, b)

(* parse_notes: the texts of the part, a blank between two of them. *)
ParseNotes(notes) ==
    LET Read(acc, event) ==
            CASE event.e = "start" -> [acc EXCEPT !.capture = @ \/ event.tag = "t"]
              [] event.e = "end"   -> [acc EXCEPT !.capture = @ /\ event.tag # "t"]
              [] event.e = "text"  ->
                    IF ~acc.capture \/ IsBlank(event.text) THEN acc
                    ELSE [acc EXCEPT !.text = (IF @ = <<>> THEN <<>> ELSE @ \o <<" ">>) \o Trim(event.text)]
              [] event.e = "empty" -> acc
    IN  FoldLeft(Read, [capture |-> FALSE, text |-> <<>>], notes).text

NotesPart(part) == TargetPart(upload.package, part, LAMBDA rel : rel.type = "notesSlide")

-----------------------------------------------------------------------------
(* The loop.                                                               *)

NextSlide(parts, images, warnings) ==
    [kind |-> "deck", left |-> parts, images |-> images, warnings |-> warnings]

OpenPptx ==
    /\ upload.suffix = "pptx" /\ reader = NoReader /\ parsed = <<>>
    /\ Presentation \in DOMAIN upload.package.parts
    /\ reader' = NextSlide(SlidePartsInOrder, <<>>, 0)
    /\ UNCHANGED <<events, docVars>>

StartSlide ==
    /\ reader.kind = "deck" /\ reader.left # <<>>
    /\ Head(reader.left) \in DOMAIN upload.slides
    /\ events' = upload.slides[Head(reader.left)]
    /\ reader' = [kind |-> "pptx", part |-> Head(reader.left), left |-> Tail(reader.left), items |-> <<>>,
                  element |-> <<>>, capture |-> FALSE, depth |-> 0, stored |-> reader.images,
                  images |-> reader.images, warnings |-> reader.warnings]
    /\ UNCHANGED docVars

SlideEvent(kinds, tags) ==
    /\ reader.kind = "pptx" /\ events # <<>>
    /\ Head(events).e \in kinds /\ Head(events).tag \in tags
    /\ events' = Tail(events)
    /\ UNCHANGED docVars

WithElement(el) == reader' = IF reader.element = <<>> THEN reader ELSE [reader EXCEPT !.element = <<el>>]
current == reader.element[1]

ElementTag == {"sp", "pic", "graphicFrame"}

(* An element within another one is a part of it. *)
StartElement ==
    /\ SlideEvent({"start"}, ElementTag)
    /\ reader' = [reader EXCEPT !.element = IF @ = <<>> THEN <<Element(Head(events).tag)>> ELSE @]

(* That of a group is none of an element's. *)
StartXfrm ==
    /\ SlideEvent({"start"}, {"xfrm"})
    /\ reader' = [reader EXCEPT !.depth = IF reader.element = <<>> THEN @ ELSE @ + 1]

Transform ==
    /\ SlideEvent({"start", "empty"}, {"off", "ext"})
    /\ LET at == Head(events).at IN
       IF reader.depth = 0 THEN UNCHANGED reader
       ELSE IF Head(events).tag = "off" THEN WithElement([current EXCEPT !.x = at[1], !.y = at[2]])
       ELSE WithElement([current EXCEPT !.width = at[1], !.height = at[2]])

StartPptText == SlideEvent({"start"}, {"t"}) /\ reader' = [reader EXCEPT !.capture = TRUE]

StartPptTable == SlideEvent({"start"}, {"tbl"}) /\ WithElement([current EXCEPT !.table = <<NoTable>>])
StartPptRow   == SlideEvent({"start"}, {"tr"}) /\ WithElement(InTable(current, StartRow))
StartPptCell  == SlideEvent({"start"}, {"tc"}) /\ WithElement(InTable(current, StartCell))

SetImageRelId ==
    /\ SlideEvent({"start", "empty"}, {"blip"})
    /\ WithElement([current EXCEPT !.image = IF Head(events).val = "" THEN <<>> ELSE <<Head(events).val>>])

MarkChart == SlideEvent({"start", "empty"}, {"chart"}) /\ WithElement([current EXCEPT !.hasChart = TRUE])

PptCharacters ==
    /\ reader.kind = "pptx" /\ events # <<>> /\ Head(events).e = "text"
    /\ IF reader.capture THEN WithElement(PushElementText(current, Head(events).text)) ELSE UNCHANGED reader
    /\ events' = Tail(events)
    /\ UNCHANGED docVars

EndPptText  == SlideEvent({"end"}, {"t"}) /\ reader' = [reader EXCEPT !.capture = FALSE]
EndPptParagraph == SlideEvent({"end"}, {"p"}) /\ WithElement(FinishPptParagraph(current))
EndPptCell  == SlideEvent({"end"}, {"tc"}) /\ WithElement(InTable(current, FinishCell))
EndPptRow   == SlideEvent({"end"}, {"tr"}) /\ WithElement(InTable(current, FinishRow))
EndPptTable == SlideEvent({"end"}, {"tbl"}) /\ WithElement(FinishPptTable(current))

EndXfrm ==
    /\ SlideEvent({"end"}, {"xfrm"})
    /\ reader' = [reader EXCEPT !.depth = IF @ = 0 THEN 0 ELSE @ - 1]

(* The first end of an element's kind ends it. *)
EndElement ==
    /\ SlideEvent({"end"}, ElementTag)
    /\ IF reader.element = <<>> \/ current.kind # Head(events).tag THEN UNCHANGED reader
       ELSE \E made \in FinishElement(current) : reader' = PushSlideItem(reader, current, made)

OtherSlideEvent ==
    /\ reader.kind = "pptx" /\ events # <<>>
    /\ LET e == Head(events).e
           property == {"off", "ext", "blip", "chart"}
       IN  \/ e = "start" /\ Head(events).tag \notin ElementTag \cup property \cup {"xfrm", "t", "tbl", "tr", "tc"}
           \/ e = "empty" /\ Head(events).tag \notin property
           \/ e = "end" /\ Head(events).tag \notin ElementTag \cup {"t", "p", "tc", "tr", "tbl", "xfrm"}
    /\ events' = Tail(events)
    /\ UNCHANGED <<docVars, reader>>

EndSlide ==
    /\ reader.kind = "pptx" /\ events = <<>>
    /\ ToSet(NotesPart(reader.part)) \subseteq DOMAIN upload.slides
    /\ LET sorted == SortSeq(reader.items, Before)
           part   == NotesPart(reader.part)
           notes  == IF part = <<>> THEN <<>> ELSE ParseNotes(upload.slides[part[1]])
           blocks == FoldLeft(PushBlock, <<>>, [i \in DOMAIN sorted |-> sorted[i].block])
           shown  == SelectSeq(blocks, LAMBDA b : b.type = "image")
           images == reader.images \o [i \in DOMAIN shown |-> shown[i].path]
           all    == IF notes = <<>> THEN blocks ELSE Append(blocks, Text(<<"Notes:", " ">> \o notes))
       IN  /\ pages' = Append(pages, [blocks |-> all, discarded |-> <<>>])
           /\ reader' = NextSlide(reader.left, images, reader.warnings)
    /\ UNCHANGED <<upload, events, parsed>>

EndPptx ==
    /\ reader.kind = "deck" /\ reader.left = <<>>
    /\ UNCHANGED <<upload, events, pages>>
    /\ GiveDocument(reader.images)
    /\ reader' = NoReader

ReadPptx ==
    \/ OpenPptx \/ StartSlide
    \/ StartElement \/ StartXfrm \/ Transform \/ StartPptText
    \/ StartPptTable \/ StartPptRow \/ StartPptCell \/ SetImageRelId \/ MarkChart
    \/ PptCharacters \/ OtherSlideEvent
    \/ EndPptText \/ EndPptParagraph \/ EndPptCell \/ EndPptRow \/ EndPptTable \/ EndXfrm
    \/ EndElement \/ EndSlide \/ EndPptx
=============================================================================
