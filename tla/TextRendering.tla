--------------------------- MODULE TextRendering ---------------------------
(***************************************************************************)
(* What the outputs do to text (src/src/vlm/python_compat.rs): equations   *)
(* within text, the table language of the VLM, Markdown and HTML escapes,  *)
(* and how the lines of a paragraph are joined.                            *)
(*                                                                         *)
(* A text is a sequence of characters.  The delimiters of equations, the   *)
(* tags and the names of HTML entities count as one character each.        *)
(***************************************************************************)
EXTENDS Integers, Sequences, SequencesExt

Blank     == {" ", "nl"}
Special   == {"*", "_", "tick", "~", "$"}
Cjk       == {"cjk"}
Lowercase == {"a", "b"}
Otsl      == {"<nl>", "<fcel>", "<ecel>", "<lcel>", "<ucel>", "<xcel>"}
Tag       == {"<table>", "</table>", "<eq>", "</eq>"}

Chars(s) == {s[i] : i \in DOMAIN s}
IsBlank(s) == Chars(s) \subseteq Blank

(* s[i..] for the least i from which p holds of a character, <<>> if none. *)
DropWhile(s, drop) ==
    LET kept == {i \in DOMAIN s : s[i] \notin drop}
    IN  IF kept = {} THEN <<>> ELSE SubSeq(s, CHOOSE i \in kept : \A j \in kept : i <= j, Len(s))

DropEndWhile(s, drop) == Reverse(DropWhile(Reverse(s), drop))

Trim(s) == DropEndWhile(DropWhile(s, Blank), Blank)

(* str::replace, from left to right. *)
Replace(s, old, new) ==
    LET n == Len(old)
        from[i \in 1..Len(s) + 1] ==
            IF i > Len(s) THEN <<>>
            ELSE IF i + n - 1 <= Len(s) /\ SubSeq(s, i, i + n - 1) = old THEN new \o from[i + n]
            ELSE <<s[i]>> \o from[i + 1]
    IN  from[1]

(* Replacements <<old, new>>, one after another. *)
ReplaceEach(s, replacements) == FoldLeft(LAMBDA t, r : Replace(t, r[1], r[2]), s, replacements)

-----------------------------------------------------------------------------
(* Cleaning.                                                               *)

(* str::lines: a newline at the end begins no line. *)
LinesOf(s) ==
    LET Add(lines, c) == IF c = "nl" THEN Append(lines, <<>>)
                         ELSE Append(Front(lines), Append(Last(lines), c))
        lines == FoldLeft(Add, <<<<>>>>, s)
    IN  IF Last(lines) = <<>> THEN Front(lines) ELSE lines

(* clean_text_content; a title becomes one line. *)
CleanTextContent(type, s) ==
    LET plain == Replace(Replace(s, <<"\\[">>, <<"[">>), <<"\\]">>, <<"]">>)
        lines == LinesOf(plain)
    IN  IF type # "title" THEN plain
        ELSE FlattenSeq([i \in DOMAIN lines |-> IF i = 1 THEN Trim(lines[i]) ELSE <<" ">> \o Trim(lines[i])])

(* Without its brackets when it has both; else only trimmed. *)
CleanInterlineEquation(s) ==
    LET t == Trim(s)
        opened == IF t # <<>> /\ t[1] = "\\[" THEN Tail(t) ELSE t
    IN  IF opened # <<>> /\ Last(opened) = "\\]" THEN Trim(Front(opened)) ELSE t

AddEquationBrackets(s) ==
    LET t == Trim(s)
        opened == IF t # <<>> /\ t[1] = "\\[" THEN t ELSE <<"\\[", "nl">> \o t
    IN  IF Last(opened) = "\\]" THEN opened ELSE opened \o <<"nl", "\\]">>

(* image_analysis_content: a table found in an image is not its content. *)
ImageAnalysisContent(s) == IF "<fcel>" \in Chars(s) THEN <<>> ELSE Trim(s)

-----------------------------------------------------------------------------
(* Equations within text: spans [type, content].                           *)

HasInlineEquations(s) ==
    LET Of(c) == Len(SelectSeq(s, LAMBDA x : x = c))
    IN  Of("\\(") > 0 /\ Of("\\(") = Of("\\)")

TextSpan(s) == IF IsBlank(s) THEN <<>> ELSE <<[type |-> "text", content |-> s]>>

SplitInlineEquationSpans(s) ==
    LET Ends(i) == {j \in i + 2..Len(s) : s[i] = "\\(" /\ s[j] = "\\)" /\ "nl" \notin Chars(SubSeq(s, i, j))}
        Starts(i) == {k \in i..Len(s) : Ends(k) # {}}
        Least(S) == CHOOSE n \in S : \A m \in S : n <= m
        from[i \in 1..Len(s) + 1] ==
            IF Starts(i) = {} THEN TextSpan(SubSeq(s, i, Len(s)))
            ELSE LET k == Least(Starts(i))
                     j == Least(Ends(k))
                 IN  TextSpan(SubSeq(s, i, k - 1))
                     \o <<[type |-> "inline_equation", content |-> Trim(SubSeq(s, k + 1, j - 1))]>>
                     \o from[j + 1]
    IN  from[1]

-----------------------------------------------------------------------------
(* HTML.                                                                   *)

(* Faulty: the ampersands of the other entities are escaped, too. *)
HtmlEscapeAmpersandLast(s) ==
    ReplaceEach(s, <<<<<<"<">>, <<"&", "lt;">>>>, <<<<">">>, <<"&", "gt;">>>>,
                     <<<<"\"">>, <<"&", "quot;">>>>, <<<<"&">>, <<"&", "amp;">>>>>>)

HtmlEscape(s) ==
    ReplaceEach(s, <<<<<<"&">>, <<"&", "amp;">>>>, <<<<"<">>, <<"&", "lt;">>>>,
                     <<<<">">>, <<"&", "gt;">>>>, <<<<"\"">>, <<"&", "quot;">>>>>>)

HtmlUnescape(s) ==
    ReplaceEach(s, <<<<<<"&", "lt;">>, <<"<">>>>, <<<<"&", "gt;">>, <<">">>>>,
                     <<<<"&", "quot;">>, <<"\"">>>>, <<<<"&", "amp;">>, <<"&">>>>>>)

(* format_embedded_html: equations of a table become inline mathematics. *)
FormatEmbeddedHtml(s) ==
    LET Ends(i) == {j \in i + 1..Len(s) : s[i] = "<eq>" /\ s[j] = "</eq>" /\ "nl" \notin Chars(SubSeq(s, i, j))}
        from[i \in 1..Len(s) + 1] ==
            IF i > Len(s) THEN <<>>
            ELSE IF Ends(i) = {} THEN <<s[i]>> \o from[i + 1]
            ELSE LET j == CHOOSE n \in Ends(i) : \A m \in Ends(i) : n <= m
                 IN  <<" ", "$">> \o HtmlUnescape(SubSeq(s, i + 1, j - 1)) \o <<"$", " ">> \o from[j + 1]
    IN  from[1]

-----------------------------------------------------------------------------
(* The table language: rows of cells.                                      *)

(* split_otsl: tokens and the trimmed texts between them. *)
SplitOtsl(s) ==
    LET Add(parts, c) ==
            CASE c \in Otsl -> Append(parts, <<c>>) \o <<<<>>>>
              [] OTHER      -> Append(Front(parts), Append(Last(parts), c))
        parts == FoldLeft(Add, <<<<>>>>, s)
        trimmed == [i \in DOMAIN parts |-> Trim(parts[i])]
    IN  SelectSeq(trimmed, LAMBDA part : part # <<>>)

StartsLikeTag(part) == part[1] \in Otsl \cup Tag \cup {"<"}

BuildOtslRows(parts) ==
    LET from[i \in 1..Len(parts) + 2] ==   \* [row, rows]: the row at i and those after it
            IF i > Len(parts) THEN [row |-> <<>>, rows |-> <<>>]
            ELSE LET text == i < Len(parts) /\ ~StartsLikeTag(parts[i + 1])
                     rest == from[IF parts[i] \in {<<"<fcel>">>, <<"<ecel>">>} /\ text THEN i + 2 ELSE i + 1]
                     Cell(c) == [rest EXCEPT !.row = <<c>> \o @]
                 IN  CASE parts[i] = <<"<nl>">> -> [row |-> <<>>, rows |-> <<rest.row>> \o rest.rows]
                       [] parts[i] \in {<<"<fcel>">>, <<"<ecel>">>} -> Cell(IF text THEN parts[i + 1] ELSE <<>>)
                       [] parts[i] \in {<<"<lcel>">>, <<"<ucel>">>, <<"<xcel>">>} -> rest
                       [] OTHER -> Cell(parts[i])
        all == <<from[1].row>> \o from[1].rows
    IN  IF Last(all) = <<>> THEN Front(all) ELSE all

(* convert_otsl_to_html. *)
ConvertOtslToHtml(s) ==
    LET t    == Trim(s)
        rows == BuildOtslRows(SplitOtsl(t))
        cols == Max({0} \cup {Len(rows[r]) : r \in DOMAIN rows})
        Cell(r, c) == <<"<td>">> \o (IF c <= Len(rows[r]) THEN HtmlEscape(rows[r][c]) ELSE <<>>) \o <<"</td>">>
        Row(r) == <<"<tr>">> \o FlattenSeq([c \in 1..cols |-> Cell(r, c)]) \o <<"</tr>">>
    IN  IF Chars(t) \cap Otsl = {} \/ (t[1] = "<table>" /\ Last(t) = "</table>") THEN t
        ELSE IF rows = <<>> THEN <<>>
        ELSE <<"<table>">> \o FlattenSeq([r \in DOMAIN rows |-> Row(r)]) \o <<"</table>">>

-----------------------------------------------------------------------------
(* Markdown.                                                               *)

(* Faulty: a character after a backslash is taken for escaped. *)
EscapeTextAfterOne(s) ==
    FoldLeft(LAMBDA acc, c : [out |-> acc.out \o (IF c \in Special /\ acc.slashes = 0 THEN <<"\\", c>> ELSE <<c>>),
                              slashes |-> IF c = "\\" THEN acc.slashes + 1 ELSE 0],
             [out |-> <<>>, slashes |-> 0], s).out

(* escape_conservative_markdown_text. *)
EscapeText(s) ==
    FoldLeft(LAMBDA acc, c : [out |-> acc.out \o (IF c \in Special /\ acc.slashes % 2 = 0 THEN <<"\\", c>> ELSE <<c>>),
                              slashes |-> IF c = "\\" THEN acc.slashes + 1 ELSE 0],
             [out |-> <<>>, slashes |-> 0], s).out

(* escape_text_block_markdown_prefix: a heading or a list item by accident. *)
EscapePrefix(s) ==
    LET Run(c, i, most) ==     \* how many c follow from i on, at most most
            Max({n \in 0..most : i + n - 1 <= Len(s) /\ \A k \in i..i + n - 1 : s[k] \in c})
        lead   == Run({" "}, 1, 3)
        marker == IF lead = Len(s) THEN 0
                  ELSE IF s[lead + 1] = "#" THEN Run({"#"}, lead + 1, 6)
                  ELSE IF s[lead + 1] \in {"+", "-"} THEN 1 ELSE 0
    IN  IF marker > 0 /\ lead + marker < Len(s) /\ s[lead + marker + 1] = " "
        THEN SubSeq(s, 1, lead) \o <<"\\">> \o SubSeq(s, lead + 1, Len(s))
        ELSE s

-----------------------------------------------------------------------------
(* Paragraphs: lines of spans.  A span without content has the empty one.  *)

Spans(lines) == FlattenSeq(lines)

IsCjkContext(s) == Chars(s) \cap Cjk # {}

(* A word broken at the end of line l goes on in the next line. *)
GoesOn(lines, l) ==
    /\ l < Len(lines) /\ lines[l + 1] # <<>>
    /\ lines[l + 1][1].content # <<>>
    /\ lines[l + 1][1].content[1] \in Lowercase

(* What a piece of text is followed by, or loses, at the end of its line. *)
Joined(s, lines, l, last, cjk) ==
    CASE cjk -> IF last THEN s ELSE Append(s, " ")
      [] ~cjk /\ last /\ Last(s) = "-" -> IF GoesOn(lines, l) THEN DropEndWhile(s, {"-"}) ELSE s
      [] OTHER -> Append(s, " ")

EachSpan(lines, Render(_, _)) ==
    FlattenSeq([l \in DOMAIN lines |-> FlattenSeq([k \in DOMAIN lines[l] |-> Render(l, k)])])

(* merge_para_with_text. *)
MergeParaWithText(type, lines, escapePrefix) ==
    LET texts == SelectSeq(Spans(lines), LAMBDA s : s.type = "text")
        cjk   == \E i \in DOMAIN texts : IsCjkContext(texts[i].content)
        Content(s) ==
            Trim(CASE s.type = "text" -> IF type = "code_body" THEN s.content ELSE EscapeText(s.content)
                   [] s.type = "inline_equation"    -> <<"$">> \o s.content \o <<"$">>
                   [] s.type = "interline_equation" -> <<"$$", "nl">> \o s.content \o <<"nl", "$$">>
                   [] OTHER -> <<>>)
        Render(l, k) ==
            LET s == lines[l][k]
                c == Content(s)
            IN  CASE c = <<>> -> <<>>
                  [] c # <<>> /\ s.type = "interline_equation" -> c
                  [] c # <<>> /\ s.type = "inline_equation"    -> Append(c, " ")
                  [] c # <<>> /\ s.type = "text" -> Joined(c, lines, l, k = Len(lines[l]), cjk)
        merged == EachSpan(lines, Render)
    IN  IF escapePrefix /\ type = "text" THEN EscapePrefix(merged) ELSE merged

(* merge_para_with_text_v2: neighbours of one type become one. *)
MergeParaWithTextV2(type, lines) ==
    LET cjk == \E i \in DOMAIN Spans(lines) :
                  Spans(lines)[i].type = "text" /\ IsCjkContext(Spans(lines)[i].content)
        Render(l, k) ==
            LET s == lines[l][k] IN
            CASE IsBlank(s.content) -> <<>>
              [] ~IsBlank(s.content) /\ s.type = "text" ->
                    <<[type    |-> IF type = "phonetic" THEN "phonetic" ELSE "text",
                       content |-> IF type = "phonetic" THEN s.content
                                   ELSE Joined(s.content, lines, l, k = Len(lines[l]), cjk)]>>
              [] ~IsBlank(s.content) /\ s.type = "inline_equation" ->
                    <<[type |-> "equation_inline", content |-> s.content]>>
              [] OTHER -> <<>>
        Add(out, s) ==
            IF out # <<>> /\ Last(out).type = s.type
            THEN Append(Front(out), [s EXCEPT !.content = Last(out).content \o @])
            ELSE Append(out, s)
    IN  FoldLeft(Add, <<>>, EachSpan(lines, Render))
=============================================================================
