----------------------------- MODULE PageOutput -----------------------------
(***************************************************************************)
(* From the blocks the VLM found on a page to the blocks of the outputs    *)
(* (src/src/vlm/parser.rs: parse_layout_output; src/src/vlm/python_compat  *)
(* .rs: build_page_output_fragment): captions go to their figures, texts   *)
(* into their lists, and paragraphs that go on are merged.                 *)
(*                                                                         *)
(* The answers of the VLM come with the document: per page the segments of *)
(* the layout answer, each with what the VLM reads in that block.  Module  *)
(* PagePipeline models how they are asked for.                             *)
(***************************************************************************)
EXTENDS BoxGeometry, TextRendering, FiniteSets, TLC

CONSTANTS
    Documents,      \* sets of documents, pages [width, height, pixels, segments]
    ImageAnalysis   \* the option image_analysis

(* The renderer makes every page at least one point and one pixel wide and *)
(* high, an image has as many points as pixels, and the layout answer has  *)
(* numbers without a sign.                                                 *)
Segments == [ref : STRING, box : Nat \X Nat \X Nat \X Nat, content : Seq(STRING), contd : BOOLEAN]
Pages    == [width : Nat \ {0}, height : Nat \ {0}, pixels : (Nat \ {0}) \X (Nat \ {0}),
             segments : Seq(Segments)]

ASSUME DocumentAssumption == \A n \in DOMAIN Documents : Documents[n] \subseteq Seq(Pages)

VARIABLES
    pages,      \* the pages of the document
    page,       \* the number of the page being built
    phase,      \* the step it is at
    raw,        \* its ContentBlocks
    blocks,     \* its PyBlocks, in the order of raw
    preproc,    \* preproc_blocks
    para,       \* para_blocks
    discarded,  \* discarded_blocks
    at,         \* the paragraph merge_para_text_blocks is at
    files       \* image_files: the crops written to the pending directory

pageVars == <<pages, page, phase, raw, blocks, preproc, para, discarded, at, files>>

(* sort_by_key(index); an index is the place of a block in raw. *)
ByIndex(S) == FlattenSeq([n \in DOMAIN raw |-> SetToSeq({b \in S : b.index = n})])

-----------------------------------------------------------------------------
(* parse_layout_output and the contents of the blocks.                     *)

AllowedBlockTypes ==
    {"text", "title", "table", "equation", "code", "algorithm", "aside_text", "ref_text",
     "phonetic", "list_item", "table_caption", "image_caption", "code_caption",
     "table_footnote", "image_footnote", "header", "footer", "page_number", "page_footnote",
     "image", "chart", "list", "image_block", "equation_block"}

LayoutType(s) == IF s.ref = "unknown" THEN "image" ELSE s.ref

SkipExtractTypes ==
    {"list", "equation_block", "image_block"} \cup (IF ImageAnalysis THEN {} ELSE {"image", "chart"})

ContentBlock(s) ==
    [type      |-> LayoutType(s),
     bbox      |-> ConvertBbox(s.box),
     content   |-> IF LayoutType(s) \in SkipExtractTypes THEN <<>> ELSE s.content,
     mergePrev |-> LayoutType(s) = "text" /\ s.contd]

ParseLayoutOutput(segments) ==
    LET Found(s) == IF ConvertBbox(s.box) # None /\ LayoutType(s) \in AllowedBlockTypes
                    THEN <<ContentBlock(s)>> ELSE <<>>
    IN  FlattenSeq([i \in DOMAIN segments |-> Found(segments[i])])

-----------------------------------------------------------------------------
(* post_process_raw_blocks and raw_to_py_block.                            *)

PostProcess(b) ==
    CASE b.type = "list_item"           -> [b EXCEPT !.type = "text"]
      [] b.type = "table"               -> [b EXCEPT !.content = ConvertOtslToHtml(@)]
      [] b.type = "equation"            -> [b EXCEPT !.content = AddEquationBrackets(CleanInterlineEquation(@))]
      [] b.type \in {"image", "chart"}  -> [b EXCEPT !.content = ImageAnalysisContent(@)]
      [] OTHER                          -> b

PostProcessRawBlocks(bs) ==
    FlattenSeq([i \in DOMAIN bs |-> IF bs[i].type = "equation_block" THEN <<>> ELSE <<PostProcess(bs[i])>>])

PyType(type) ==
    CASE type \in {"image_caption", "table_caption", "code_caption"} -> "caption"
      [] type \in {"image_footnote", "table_footnote"}               -> "footnote"
      [] type = "image"                  -> "image_body"
      [] type = "image_block"            -> "image_block_body"
      [] type = "table"                  -> "table_body"
      [] type = "chart"                  -> "chart_body"
      [] type \in {"code", "algorithm"}  -> "code_body"
      [] type = "equation"               -> "interline_equation"
      [] OTHER                           -> type

SpanType(type) ==
    CASE type \in {"image", "image_block"} -> "image"
      [] type \in {"table", "chart"}       -> type
      [] type = "equation"                 -> "interline_equation"
      [] OTHER                             -> "text"

SpansOf(b) ==
    LET text == SpanType(b.type) = "text"
        content == CASE b.type \in {"image", "chart", "table"} -> b.content
                     [] b.type = "equation" -> CleanInterlineEquation(b.content)
                     [] OTHER -> CleanTextContent(b.type, b.content)
        spans == IF text /\ HasInlineEquations(b.content) THEN SplitInlineEquationSpans(b.content)
                 ELSE <<[type |-> SpanType(b.type), content |-> content]>>
    IN  [i \in DOMAIN spans |-> [type |-> spans[i].type, content |-> spans[i].content, image |-> None]]

RawToPyBlock(i) ==
    [type      |-> PyType(raw[i].type),
     bbox      |-> NormalizedToPointBbox(raw[i].bbox, pages[page].width, pages[page].height),
     lines     |-> <<SpansOf(raw[i])>>,
     blocks    |-> <<>>,
     index     |-> i,
     subType   |-> IF raw[i].type \in {"code", "algorithm"} THEN raw[i].type ELSE None,
     mergePrev |-> raw[i].mergePrev]

-----------------------------------------------------------------------------
(* regroup_visual_blocks.                                                  *)

VisualMain == {"image_body", "image_block_body", "table_body", "chart_body", "code_body"}
GenericChild == {"caption", "footnote"}

ParentType(type) ==
    CASE type \in {"image_body", "image_block_body"} -> "image"
      [] type = "table_body" -> "table"
      [] type = "chart_body" -> "chart"
      [] type = "code_body"  -> "code"

BodyType    == [p \in {"image", "table", "chart", "code"} |->
                  CASE p = "image" -> "image_body" [] p = "table" -> "table_body"
                    [] p = "chart" -> "chart_body" [] p = "code" -> "code_body"]
CaptionType == [p \in DOMAIN BodyType |->
                  CASE p = "image" -> "image_caption" [] p = "table" -> "table_caption"
                    [] p = "chart" -> "chart_caption" [] p = "code" -> "code_caption"]
FootnoteType == [p \in DOMAIN BodyType |->
                  CASE p = "image" -> "image_footnote" [] p = "table" -> "table_footnote"
                    [] p = "chart" -> "chart_footnote" [] p = "code" -> "code_footnote"]

Between(c, p) == Lesser(c, p) + 1..Greater(c, p) - 1

(* Faulty: whatever is between them. *)
IsVisualNeighborAnywhere(c, p) ==
    ~(blocks[c].type = "footnote" /\ blocks[c].index < blocks[p].index)

IsVisualNeighbor(c, p) ==
    /\ ~(blocks[c].type = "footnote" /\ blocks[c].index < blocks[p].index)
    /\ \A k \in Between(c, p) :
          blocks[k].type \in (IF blocks[c].type = "caption" THEN {"caption"} ELSE GenericChild)

Parents(c) == {p \in DOMAIN blocks : blocks[p].type \in VisualMain /\ IsVisualNeighbor(c, p)}

Closer(c, p, q) ==
    LET Far(x) == Greater(c, x) - Lesser(c, x)
        Box(x) == BboxDistance(blocks[c].bbox, blocks[x].bbox)
    IN  \/ Far(p) < Far(q)
        \/ Far(p) = Far(q) /\ Box(p) < Box(q)
        \/ Far(p) = Far(q) /\ Box(p) = Box(q) /\ blocks[p].index <= blocks[q].index

ParentOf(c) == CHOOSE p \in Parents(c) : \A q \in Parents(c) : Closer(c, p, q)

Children == {c \in DOMAIN blocks : blocks[c].type \in GenericChild}
ChildrenOf(p) == {c \in Children : Parents(c) # {} /\ ParentOf(c) = p}

Visual(p) ==
    LET parent == ParentType(blocks[p].type)
        AsChild(c) == [blocks[c] EXCEPT !.type = IF @ = "footnote" THEN FootnoteType[parent]
                                                 ELSE CaptionType[parent]]
    IN  [blocks[p] EXCEPT
            !.type = parent, !.lines = <<>>, !.mergePrev = FALSE,
            !.blocks = ByIndex({[blocks[p] EXCEPT !.type = BodyType[parent]]}
                               \cup {AsChild(c) : c \in ChildrenOf(p)})]

-----------------------------------------------------------------------------
(* fix_list_blocks: each list takes the texts that lie in it.              *)

(* Faulty: a text stays with the paragraphs, too. *)
FillListCopying(acc, list) ==
    LET items == {b \in acc.texts \cup acc.refs : MostlyIn(b.bbox, list.bbox)}
    IN  [lists |-> IF items = {} THEN acc.lists
                   ELSE acc.lists \cup {[list EXCEPT !.lines = <<>>, !.blocks = ByIndex(items)]},
         texts |-> acc.texts,
         refs  |-> acc.refs]

FillList(acc, list) ==
    LET items == {b \in acc.texts \cup acc.refs : MostlyIn(b.bbox, list.bbox)}
    IN  [lists |-> IF items = {} THEN acc.lists
                   ELSE acc.lists \cup {[list EXCEPT !.lines = <<>>, !.blocks = ByIndex(items)]},
         texts |-> acc.texts \ items,
         refs  |-> acc.refs \ items]

FixListBlocks(lists, texts, refs) ==
    LET order == ByIndex(lists)
        filled[n \in 0..Len(order)] ==
            IF n = 0 THEN [lists |-> {}, texts |-> texts, refs |-> refs]
            ELSE FillList(filled[n - 1], order[n])
    IN  filled[Len(order)]

(* mode_block_type: of equally frequent types the hash map's order decides. *)
ModeBlockTypes(list) ==
    LET types == {b.type : b \in ToSet(list.blocks)}
        Count(t) == Cardinality({b \in ToSet(list.blocks) : b.type = t})
    IN  {t \in types : \A u \in types : Count(u) <= Count(t)}

-----------------------------------------------------------------------------
PageInit ==
    /\ \E n \in DOMAIN Documents : pages \in Documents[n]
    /\ page = 1 /\ phase = "layout" /\ raw = <<>> /\ blocks = <<>>
    /\ preproc = <<>> /\ para = <<>> /\ discarded = <<>> /\ at = 0 /\ files = {}

ReadLayout ==
    /\ phase = "layout" /\ page <= Len(pages)
    /\ raw' = PostProcessRawBlocks(ParseLayoutOutput(pages[page].segments))
    /\ phase' = "convert"
    /\ UNCHANGED <<pages, page, blocks, preproc, para, discarded, at, files>>

ConvertBlocks ==
    /\ phase = "convert"
    /\ blocks' = FlattenSeq([i \in DOMAIN raw |-> IF RawToPyBlock(i).bbox = None THEN <<>>
                                                 ELSE <<RawToPyBlock(i)>>])
    /\ phase' = "crop"
    /\ UNCHANGED <<pages, page, raw, preproc, para, discarded, at, files>>

(* The name hashes the type, the page and the box of the span. *)
CropName(type, bbox) == <<type, page, bbox>>

(* Faulty: equations are text. *)
MediaSpansButEquations == {"image", "table", "chart"}

MediaSpans == {"image", "table", "chart", "interline_equation"}

ToCrop == {i \in DOMAIN blocks : \E n \in DOMAIN blocks[i].lines[1] :
              blocks[i].lines[1][n].type \in MediaSpans /\ blocks[i].lines[1][n].image = None}

(* write_python_crop, one block a step; a block has one such span at most. *)
WriteCrop ==
    /\ phase = "crop" /\ ToCrop # {}
    /\ LET i    == CHOOSE i \in ToCrop : \A j \in ToCrop : i <= j
           name == CropName(blocks[i].lines[1][1].type, blocks[i].bbox)
       IN \/ /\ blocks' = [blocks EXCEPT ![i].lines[1][1].image = name]
             /\ files' = files \cup {name}
             /\ UNCHANGED phase
          \/ /\ phase' = "failed"
             /\ UNCHANGED <<blocks, files>>
    /\ UNCHANGED <<pages, page, raw, preproc, para, discarded, at>>

(* The rest of build_page_info. *)
AssemblePage ==
    /\ phase = "crop" /\ ToCrop = {}
    /\ LET Of(types) == {blocks[i] : i \in {j \in DOMAIN blocks : blocks[j].type \in types}}
           unmatched == {[blocks[c] EXCEPT !.type = "text"] : c \in {d \in Children : Parents(d) = {}}}
           visuals   == {Visual(p) : p \in {q \in DOMAIN blocks : blocks[q].type \in VisualMain}}
           aside     == {"header", "footer", "page_number", "aside_text", "page_footnote"}
           fixed     == FixListBlocks(Of({"list"}), Of({"text"}) \cup unmatched, Of({"ref_text"}))
           rest      == visuals \cup fixed.refs \cup Of({"phonetic", "title", "interline_equation"})
                        \cup fixed.texts
       IN  /\ \E mode \in [fixed.lists -> {"text", "ref_text"}] :
                 /\ \A list \in fixed.lists : mode[list] \in ModeBlockTypes(list)
                 /\ preproc' = ByIndex(rest \cup {[list EXCEPT !.subType = mode[list]] : list \in fixed.lists})
           /\ discarded' = ByIndex(Of(aside))
    /\ para' = preproc'
    /\ at' = Len(preproc')
    /\ phase' = "merge"
    /\ UNCHANGED <<pages, page, raw, blocks, files>>

-----------------------------------------------------------------------------
(* merge_para_text_blocks: from the last block to the first.               *)

Merges(k) == para[k].type = "text" /\ para[k].mergePrev /\ para[k].lines # <<>>
TextsBefore(k) == {i \in 1..k - 1 : para[i].type = "text"}

Merged(into, from) == [para EXCEPT ![into].lines = @ \o para[from].lines, ![from].lines = <<>>]

MergeParaTextBlock ==
    /\ phase = "merge" /\ at > 0
    /\ \/ /\ Merges(at) /\ TextsBefore(at) # {}
          /\ para' = Merged(Max(TextsBefore(at)), at)
       \/ /\ ~(Merges(at) /\ TextsBefore(at) # {})
          /\ UNCHANGED para
    /\ at' = at - 1
    /\ UNCHANGED <<pages, page, phase, raw, blocks, preproc, discarded, files>>

BuildPage == ReadLayout \/ ConvertBlocks \/ WriteCrop \/ AssemblePage \/ MergeParaTextBlock
=============================================================================
