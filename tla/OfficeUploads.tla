--------------------------- MODULE OfficeUploads ---------------------------
(* Small Office uploads, as the events of their parts: paragraphs of every  *)
(* kind with up to three runs, pairs of blocks, tables with every kind of   *)
(* cell; slides of shapes, frames, groups and pictures at every place; and  *)
(* sheets of three rows and columns with merged cells.                      *)
EXTENDS Integers, Sequences, FiniteSets, SequencesExt, TLC

Begin(tag, value) == <<[e |-> "start", tag |-> tag, val |-> value]>>
Empty(tag, value) == <<[e |-> "empty", tag |-> tag, val |-> value]>>
End1(tag)         == <<[e |-> "end", tag |-> tag]>>
Words(text)       == <<[e |-> "text", text |-> text]>>
Within(tag, inner) == Begin(tag, "") \o inner \o End1(tag)
UpTo(n, S) == UNION {[1..k -> S] : k \in 0..n}
Joined1(pieces, Of(_)) == FlattenSeq([i \in DOMAIN pieces |-> Of(pieces[i])])

-----------------------------------------------------------------------------
(* Word documents. *)

Run(marks, inner) == Within("r", FlattenSeq([i \in DOMAIN marks |-> Empty(marks[i], "")]) \o inner)
Letters(text) == Within("t", Words(text))
Formula(texts) == Within("oMath", FlattenSeq([i \in DOMAIN texts |-> Within("r", Letters(texts[i]))]))

PieceKinds == [
    plain  |-> Run(<<>>, Letters(<<"a">>)),
    angle  |-> Run(<<>>, Letters(<<">", " ", "[">>)),
    blank  |-> Run(<<>>, Letters(<<" ">>)),
    bold   |-> Run(<<"b">>, Letters(<<"b">>)),
    under  |-> Run(<<"b", "u">>, Empty("tab", "") \o Letters(<<"c">>)),
    link   |-> Begin("hyperlink", "rLink") \o Run(<<"u">>, Letters(<<"d", ">">>)) \o End1("hyperlink"),
    math   |-> Formula(<<<<"e">>>>),
    math2  |-> Formula(<<<<"f", ">">>, <<"g">>>>),
    image  |-> Run(<<>>, Within("drawing", Empty("blip", "rPng"))),
    vector |-> Run(<<>>, Empty("blip", "rEmf")),
    lost   |-> Run(<<>>, Empty("blip", "rNone") \o Empty("blip", "rGone") \o Empty("blip", "rOdd")),
    box    |-> Run(<<>>, Within("p", Run(<<>>, Letters(<<"h">>)))),
    nolink |-> Begin("hyperlink", "rNone") \o Run(<<>>, Letters(<<"i">>)) \o End1("hyperlink")]

Paragraph(style, props, pieces) ==
    Begin("p", style) \o FlattenSeq([i \in DOMAIN props |-> Empty(props[i][1], props[i][2])])
        \o Joined1(pieces, LAMBDA kind : PieceKinds[kind]) \o End1("p")

Heads == {<<"", <<>>>>, <<"", <<<<"pStyle", "Mine">>>>>>, <<"", <<<<"numPr", "">>, <<"ilvl", "1">>>>>>,
          <<"Loop", <<<<"outlineLvl", "0">>>>>>, <<"ListBullet", <<>>>>, <<"", <<<<"outlineLvl", "x">>, <<"pStyle", "Far">>>>>>}

Paragraphs ==
    {Paragraph(head[1], head[2], pieces) : head \in Heads, pieces \in UpTo(1, DOMAIN PieceKinds)}
    \cup {Paragraph("", <<>>, pieces) : pieces \in [1..2 -> DOMAIN PieceKinds]}
    \cup {Paragraph("", <<>>, pieces) : pieces \in [1..3 -> {"plain", "bold", "blank", "link", "math", "image"}]}

CellKinds == [none |-> <<>>, empty |-> Within("p", <<>>), plain |-> Paragraph("", <<>>, <<"plain", "bold">>),
              math |-> Paragraph("", <<>>, <<"math">>), image |-> Paragraph("", <<>>, <<"image">>),
              two |-> Paragraph("", <<>>, <<"angle">>) \o Paragraph("", <<>>, <<"link">>)]
Cell(kind) == Within("tc", CellKinds[kind])
RowOf(kinds) == Within("tr", Joined1(kinds, Cell))
TableOf(rows) == Within("tbl", Joined1(rows, RowOf))
Inner == Within("tbl", Within("tr", Within("tc", TableOf(<<<<"plain">>>>)) \o Cell("plain")))

Tables ==
    {TableOf(<<row>>) : row \in UpTo(2, DOMAIN CellKinds)} \cup {Inner}
    \cup {TableOf(<<<<k[1], k[2]>>, <<k[3], k[4]>>>>) : k \in [1..4 -> {"none", "plain", "image"}]}
    \cup {TableOf(<<row, <<>>, <<"two">>>>) : row \in UpTo(1, {"plain"})}

Blocks1 == {Paragraph("", <<>>, <<"plain">>), Paragraph("", <<<<"numPr", "">>>>, <<"bold">>),
            Paragraph("Far", <<>>, <<"link">>), Paragraph("", <<>>, <<"image">>), Within("p", <<>>),
            TableOf(<<<<"plain", "none">>>>)}

Style1(type, id, children) == [type |-> type, id |-> id, children |-> [i \in DOMAIN children |->
                                   [tag |-> children[i][1], val |-> children[i][2]]]]
Styles == <<Style1("paragraph", "Heading", <<<<"name", "heading 2">>>>),
            Style1("paragraph", "Mine", <<<<"basedOn", "Heading">>>>),
            Style1("paragraph", "Loop", <<<<"name", "Other">>, <<"basedOn", "Back">>, <<"numPr", "">>>>),
            Style1("paragraph", "Back", <<<<"basedOn", "Loop">>>>),
            Style1("paragraph", "Far", <<<<"name", "Other">>, <<"outlineLvl", "8">>>>),
            Style1("character", "Far", <<>>)>>

Names == {"Heading", "heading 2", "Mine", "Loop", "Back", "Far", "Other", "ListBullet"}
LowerNames == [name \in Names |-> CASE name = "Heading" -> "heading" [] name = "Mine" -> "mine" [] name = "Loop" -> "loop"
                                    [] name = "Back" -> "back" [] name = "Far" -> "far" [] name = "Other" -> "other"
                                    [] name = "ListBullet" -> "listbullet" [] OTHER -> name]
HeadingNumbers == "heading 2" :> 2
ListsByName == {"listbullet"}
Numerals == "0" :> 0 @@ "1" :> 1 @@ "8" :> 8

Rel(id, type, target) == [id |-> id, type |-> type, target |-> target, external |-> FALSE]
File(ext, magic, bytes) == [ext |-> ext, magic |-> magic, bytes |-> bytes]
Xml == File("xml", "none", "xml")
WordPath == <<"word", "document.xml">>
Media(name) == <<"word", "media", name>>

WordPackage == [
    parts |-> WordPath :> Xml @@ Media("png") :> File("png", "png", "P") @@ Media("emf") :> File("emf", "none", "V")
              @@ Media("odd") :> File("jpg", "png", "O"),
    rels  |-> WordPath :> <<Rel("rPng", "image", <<"media", "png">>), Rel("rEmf", "image", <<".", "media", "emf">>),
                            Rel("rGone", "image", <<"..", "gone">>), Rel("rOdd", "image", <<"/", "word", "media", "odd">>),
                            [Rel("rLink", "hyperlink", <<"&", "lt;", "1", ")">>) EXCEPT !.external = TRUE]>>,
    overrides |-> Media("png") :> "png", defaults |-> "jpg" :> "jpeg"]

WordUpload(document) == [suffix |-> "docx", package |-> WordPackage, styles |-> Styles, document |-> document]

WordUploads ==
    {WordUpload(document) : document \in Paragraphs \cup Tables}
    \cup {WordUpload(b \o c) : b \in Blocks1, c \in Blocks1}
    \cup {WordUpload(b \o <<[e |-> "error"]>>) : b \in {Within("p", <<>>)}}
    \cup {[suffix |-> "doc"], [WordUpload(<<>>) EXCEPT !.package.parts = <<>>]}

-----------------------------------------------------------------------------
(* Presentations. *)

DeckPath == <<"ppt", "presentation.xml">>
SlidePath(n) == <<"ppt", "slides", n>>
Place(tag, at) == <<[e |-> "empty", tag |-> tag, at |-> at]>>
Xfrm(at, size) == IF at = <<>> THEN <<>> ELSE Within("xfrm", Place("off", at) \o Place("ext", size))
Small == <<<<200000>>, <<200000>>>>
Saying(texts) == Joined1(texts, LAMBDA text : Within("p", Within("t", Words(text))))

ShapeOf(at, text) == Within("sp", Xfrm(at, Small) \o Saying(<<<<text>>, <<text>>>>))
FrameOf(at, text) ==
    Within("graphicFrame", Xfrm(at, Small) \o Within("tbl",
        Within("tr", Within("tc", Saying(<<<<text>>>>)) \o Within("tc", <<>>)) \o Within("tr", Within("tc", Saying(<<<<text, ">">>>>)))))
ChartOf(at, text) == Within("graphicFrame", Xfrm(at, Small) \o Empty("chart", "") \o Saying(<<<<text>>, <<" ", text>>>>))
EmptyShape(at, text) == Within("sp", Xfrm(at, Small) \o Saying(<<<<" ">>>>))
GroupOf(at, text) ==
    Within("grpSp", Within("grpSpPr", Xfrm(<<<<0>>, <<0>>>>, Small)) \o Within("sp", Within("spPr", Xfrm(at, Small)) \o Saying(<<<<text>>>>)))
PictureOf(at, size, id) == Within("pic", Within("blipFill", Empty("blip", id)) \o Xfrm(at, size))
OleOf(at) == Within("graphicFrame", Xfrm(at, Small) \o PictureOf(<<<<9>>, <<9>>>>, Small, "rPng"))

ElementKinds == {"shape", "frame", "chart", "blank", "group"}
ElementOf(kind, at, text) ==
    CASE kind = "shape" -> ShapeOf(at, text) [] kind = "frame" -> FrameOf(at, text) [] kind = "chart" -> ChartOf(at, text)
      [] kind = "blank" -> EmptyShape(at, text) [] kind = "group" -> GroupOf(at, text)

Spots == {<<>>, <<<<0>>, <<0>>>>, <<<<5>>, <<0>>>>, <<<<0>>, <<5>>>>, <<<<>>, <<5>>>>}
SlidesOf(kinds, spots) == FlattenSeq([i \in DOMAIN kinds |-> ElementOf(kinds[i], spots[i], <<"a", "b", "c">>[i])])

Slides1 ==
    {SlidesOf(kinds, spots) : kinds \in [1..2 -> ElementKinds], spots \in [1..2 -> Spots]}
    \cup {SlidesOf(<<"shape", "group", "frame">>, spots) : spots \in [1..3 -> Spots]}
    \cup {PictureOf(at, size, id) \o PictureOf(<<>>, Small, "rPng") \o ShapeOf(at, "a") :
            at \in {<<<<0>>, <<0>>>>, <<<<-50>>, <<0>>>>}, id \in {"", "rPng", "rNone"},
            size \in {Small, <<<<91440>>, <<91440>>>>, <<<<980000>>, <<980000>>>>, <<<<980000>>, <<>>>>}}
    \cup {OleOf(<<<<5>>, <<5>>>>) \o ShapeOf(<<<<9>>, <<9>>>>, "a"), <<>>}

DeckPackage == [
    parts |-> DeckPath :> Xml @@ <<"ppt", "media", "png">> :> File("png", "png", "P"),
    rels  |-> DeckPath :> <<Rel("s1", "slide", <<"slides", "1">>), Rel("s2", "slide", <<"slides", "2">>)>>
              @@ SlidePath("1") :> <<Rel("rPng", "image", <<"..", "media", "png">>)>>
              @@ SlidePath("2") :> <<Rel("n", "notesSlide", <<"..", "notes">>)>>,
    overrides |-> <<>>, defaults |-> "png" :> "png"]

Notes1 == Saying(<<<<"x">>, <<" ">>, <<"y", " ">>>>) \o Within("p", Words(<<"nl">>)) \o Empty("br", "")
DeckUpload(ids, slide) ==
    [suffix |-> "pptx", package |-> DeckPackage, slideIds |-> ids, slideFiles |-> <<SlidePath("1")>>,
     slideSize |-> <<1000000, 1000000>>,
     slides |-> SlidePath("1") :> slide @@ SlidePath("2") :> ShapeOf(<<>>, "a") @@ <<"ppt", "notes">> :> Notes1]

DeckUploads ==
    {DeckUpload(<<"s1">>, slide) : slide \in Slides1}
    \cup {DeckUpload(ids, ShapeOf(<<>>, "b")) : ids \in {<<>>, <<"s2", "s1">>, <<"none">>}}
    \cup {[DeckUpload(<<"s2">>, <<>>) EXCEPT !.slides = SlidePath(n) :> <<>>] : n \in {"1", "2"}}
    \cup {[DeckUpload(<<>>, <<>>) EXCEPT !.slideFiles = <<>>, !.slideSize = <<>>],
          [DeckUpload(<<>>, PictureOf(<<<<0>>, <<0>>>>, Small, "rPng")) EXCEPT !.slideSize = <<>>],
          [DeckUpload(<<>>, <<>>) EXCEPT !.package.parts = <<>>]}

-----------------------------------------------------------------------------
(* Workbooks. *)

Sheet(name, grid, merges) == [name |-> <<name>>, visible |-> TRUE, grid |-> grid, merges |-> merges]
Merge(r, c, r2, c2) == [start |-> <<r, c>>, end |-> <<r2, c2>>]
MergeSets == {{}, {Merge(0, 0, 0, 1)}, {Merge(0, 0, 2, 0)}, {Merge(0, 0, 1, 1)}, {Merge(1, 1, 2, 2)}, {Merge(1, 0, 1, 1)},
              {Merge(0, 0, 0, 1), Merge(1, 1, 2, 1)}, {Merge(0, 1, 0, 2), Merge(1, 0, 2, 1)}}

(* Below a merged cell there are no values. *)
Proper(grid, merges) ==
    \A m \in merges : \A r \in m.start[1]..m.end[1], c \in m.start[2]..m.end[2] :
        <<r, c>> # m.start => grid[r + 1][c + 1] = <<>>

TextAt(r, c) == <<<<"a", "b", "c">>[r], <<"x", ">", "z">>[c]>>
GridOf(full) == [r \in 1..3 |-> [c \in 1..3 |-> IF <<r, c>> \in full THEN TextAt(r, c) ELSE <<>>]]
Grids == {GridOf(full) : full \in SUBSET ((1..3) \X (1..3))}
Sheets1 == {Sheet("s", grid, merges) : grid \in Grids, merges \in MergeSets}
SheetsOf(MergesOk(_)) == {sheet \in Sheets1 : Proper(sheet.grid, sheet.merges) /\ MergesOk(sheet)}

Book(sheets, pictures) == [suffix |-> "xlsx", sheets |-> sheets, pictures |-> pictures]
Png == File("png", "png", "P")
BlankFirst == [r \in 1..2 |-> <<<<" ">>, TextAt(r, 2)>>]

BookUploads ==
    {Book(<<sheet>>, <<>>) : sheet \in SheetsOf(LAMBDA sheet : sheet.merges # {} \/ sheet.grid[1][1] = <<>>)}
    \cup {Book(sheets, pictures) :
            sheets \in {<<>>, <<Sheet("s", GridOf({<<1, 1>>}), {}), [Sheet("t", GridOf({<<1, 1>>}), {}) EXCEPT !.visible = FALSE]>>,
                        <<Sheet("s", BlankFirst, {}), Sheet("t", GridOf({}), {}), Sheet("u", GridOf({<<1, 1>>, <<2, 2>>}), {})>>},
            pictures \in {<<>>, <<Png, Png, Png>>, <<File("emf", "none", "V"), File("bin", "none", "B")>>}}
=============================================================================
