--------------------------- MODULE MCPythonOutput ---------------------------
(* The outputs of small documents: pages of every three kinds of block,     *)
(* single blocks with every short content or with every box, longer pages   *)
(* of captions and lists, and documents of two pages.                       *)
EXTENDS DocumentOutput

Texts(alphabet, most) == UNION {[1..n -> alphabet] : n \in 0..most}

Segment(ref, box, content, contd) == [ref |-> ref, box |-> box, content |-> content, contd |-> contd]
Page(w, h, pixels, segments) == [width |-> w, height |-> h, pixels |-> pixels, segments |-> segments]

(* A kind of block: what the VLM calls it, whether it goes on from the text *)
(* before it, and what it reads there.                                      *)
Kinds == [
    text     |-> <<"text", FALSE, <<"a", "-">>>>,
    textOn   |-> <<"text", TRUE, <<"b", "*">>>>,
    title    |-> <<"title", FALSE, <<"a">>>>,
    image    |-> <<"unknown", FALSE, <<>>>>,
    table    |-> <<"table", FALSE, <<"<fcel>", "a", "<nl>">>>>,
    caption  |-> <<"image_caption", FALSE, <<"a">>>>,
    footnote |-> <<"table_footnote", FALSE, <<"cjk">>>>,
    equation |-> <<"equation", FALSE, <<"\\[", "a", "\\]">>>>,
    code     |-> <<"code", FALSE, <<"a", "*">>>>,
    list     |-> <<"list", FALSE, <<>>>>,
    ref      |-> <<"ref_text", FALSE, <<"a">>>>,
    item     |-> <<"list_item", FALSE, <<"#", " ", "a">>>>,
    header   |-> <<"header", FALSE, <<"a">>>>,
    eqBlock  |-> <<"equation_block", FALSE, <<>>>>,
    chart    |-> <<"chart", FALSE, <<"a">>>>]

(* Blocks stand below one another; a list has the page from the first      *)
(* block to its last but one.                                              *)
BlockAt(kind, i) ==
    Segment(Kinds[kind][1], IF kind = "list" THEN <<0, 0, 1000, 500>> ELSE <<0, 200 * i - 200, 900, 200 * i - 20>>,
            Kinds[kind][3], Kinds[kind][2])
PageOf(kinds) == Page(20, 30, <<47, 61>>, [i \in DOMAIN kinds |-> BlockAt(kinds[i], i)])

Triples == [1..3 -> {"text", "textOn", "title", "image", "table", "caption", "footnote", "equation",
                     "list", "ref", "item"}]
Lists == [1..4 -> {"text", "textOn", "ref", "list", "equation"}]
Captions == [1..5 -> {"image", "chart", "caption", "footnote"}]
Others == [1..2 -> {"code", "footnote", "caption", "header", "eqBlock", "textOn", "chart"}]

OfContent(ref, texts) ==
    {<<Page(20, 30, <<47, 61>>, <<Segment(ref, <<0, 0, 1000, 1000>>, t, FALSE)>>)>> : t \in texts}

Corners == {0, 40, 500, 990, 1000, 1001}
OfBoxes == {<<Page(20, 30, <<47, 61>>, <<Segment("equation", <<x1, y1, x2, y2>>, <<"a">>, FALSE)>>)>> :
               x1 \in Corners, y1 \in Corners, x2 \in Corners, y2 \in Corners}

MCDocuments == <<
    {<<PageOf(kinds)>> : kinds \in Triples}, {<<PageOf(kinds)>> : kinds \in Lists},
    {<<PageOf(kinds)>> : kinds \in Captions}, {<<PageOf(kinds)>> : kinds \in Others},
    {<<PageOf(p), PageOf(q)>> : p \in {<<"text">>, <<"header", "image">>}, q \in {<<"textOn", "code">>, <<"eqBlock">>}},
    OfContent("text", Texts({"a", "\\(", "\\)", "*", "\\", "nl"}, 4)),
    OfContent("text", Texts({"#", " ", "-", "\\(", "a"}, 4)),
    OfContent("title", Texts({"a", " ", "nl", "\\[", "$"}, 3)),
    OfContent("table", Texts({"<fcel>", "<ecel>", "<lcel>", "<nl>", "a", "<"}, 4)),
    OfContent("table", {<<"<fcel>", "a">> \o t : t \in Texts({"<fcel>", "<nl>", "b", "&"}, 4)}),
    OfContent("table", {<<"<table>", "<eq>", "a", "</eq>", "</table>">>}),
    OfBoxes>>
=============================================================================
