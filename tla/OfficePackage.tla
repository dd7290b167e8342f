--------------------------- MODULE OfficePackage ---------------------------
(***************************************************************************)
(* Parts of an OOXML package, the pictures among them, and the files these *)
(* are written to (src/src/office/package.rs, rels.rs, writer_adapter.rs   *)
(* and image_serializer.rs); and the tables both XML readers collect.      *)
(*                                                                         *)
(* A package is [parts, rels, overrides, defaults]: parts by their path,   *)
(* the relationships of a part, and content types by path and extension.   *)
(* A path is a sequence of names, absolute when the first is the slash.    *)
(* A picture is [ext, magic, bytes]; magic is the format its first bytes   *)
(* tell, or "none".                                                        *)
(***************************************************************************)
EXTENDS OfficeText, TLC

(* normalize_posix_path: a step up from the root stays there. *)
NormalizePosixPath(path) ==
    LET Step(parts, name) ==
            CASE name = "."  -> parts
              [] name = ".." -> IF parts = <<>> THEN <<>> ELSE Front(parts)
              [] OTHER       -> Append(parts, name)
    IN  FoldLeft(Step, <<>>, path)

ResolvePartPath(base, target) ==
    IF target[1] = "/" THEN Tail(target) ELSE NormalizePosixPath(Front(base) \o target)

(* read_relationships: a part without a .rels part has none. *)
Relationships(package, base) == IF base \in DOMAIN package.rels THEN package.rels[base] ELSE <<>>

(* The first relationship that passes; no part when that one is external. *)
TargetPart(package, base, Test(_)) ==
    LET found == SelectSeq(Relationships(package, base), Test) IN
    IF found = <<>> \/ found[1].external THEN <<>> ELSE <<ResolvePartPath(base, found[1].target)>>

RelationshipTargetPart(package, base, id) == TargetPart(package, base, LAMBDA rel : rel.id = id)

ContentType(package, path) ==
    LET ext == package.parts[path].ext IN
    CASE path \in DOMAIN package.overrides -> package.overrides[path]
      [] path \notin DOMAIN package.overrides /\ ext \in DOMAIN package.defaults -> package.defaults[ext]
      [] OTHER -> "none"

-----------------------------------------------------------------------------
(* Pictures.                                                               *)

Metafile == {"emf", "wmf"}
Raster   == {"jpeg", "png", "gif", "webp", "bmp", "svg"}

IsVectorImage(picture, type) == picture.ext \in Metafile \/ type \in Metafile
VectorFormatLabel(picture, type) == IF picture.ext \in Metafile THEN picture.ext ELSE type

IsExtensionCompatible(ext, format) == ext \in {"", format} \/ (ext = "jpg" /\ format = "jpeg")

(* What the bytes, the content type and the name agree on. *)
DetectRasterFormat(picture, type) ==
    IF picture.ext = "svg" /\ picture.magic = "svg" THEN "svg"
    ELSE IF /\ type \in Raster => type = picture.magic
            /\ IsExtensionCompatible(picture.ext, picture.magic)
         THEN picture.magic ELSE "none"

(* A picture in a vector format is replaced by one that says so. *)
Serialized(picture, type) ==
    IF IsVectorImage(picture, type)
    THEN [format |-> "jpeg", bytes |-> VectorFormatLabel(picture, type), warning |-> TRUE]
    ELSE [format |-> DetectRasterFormat(picture, type), bytes |-> picture.bytes, warning |-> FALSE]

HashedFileName(serialized) == serialized.bytes \o "." \o serialized.format

UniquePath(name, stored) ==
    LET Numbered(i) == ToString(i) \o "_" \o name
        free == {i \in 2..Cardinality(stored) + 2 : Numbered(i) \notin stored}
    IN  IF name \notin stored THEN name ELSE Numbered(CHOOSE i \in free : \A j \in free : i <= j)

Written(name, warning) == [image |-> <<name>>, warnings |-> IF warning THEN 1 ELSE 0, reason |-> <<>>]
Skipped(reason) == [image |-> <<>>, warnings |-> 0, reason |-> <<reason>>]

(* What write_image may come to; the directory may refuse the file. *)
WriteImage(picture, type, images) ==
    LET serialized == Serialized(picture, type) IN
    IF serialized.format = "none" THEN {Skipped("unsupported_image_format")}
    ELSE {Written(UniquePath(HashedFileName(serialized), ToSet(images)), serialized.warning),
          Skipped("image_write_failed")}

(* extract_docx_image and extract_pptx_image. *)
ExtractImage(package, base, id, images) ==
    LET part == RelationshipTargetPart(package, base, id) IN
    IF part = <<>> THEN {Skipped("missing_relationship_target")}
    ELSE IF part[1] \notin DOMAIN package.parts THEN {Skipped("missing_image_part")}
    ELSE WriteImage(package.parts[part[1]], ContentType(package, part[1]), images)

-----------------------------------------------------------------------------
(* TableState and PptTableState: [rows, row, cell, inCell].                *)

NoTable == [rows |-> <<>>, row |-> <<>>, cell |-> <<>>, inCell |-> FALSE]

StartRow(t) == [t EXCEPT !.row = <<>>]
StartCell(t) == [t EXCEPT !.cell = <<>>, !.inCell = TRUE]

PushCellText(t, s) ==
    IF ~t.inCell \/ IsBlank(s) THEN t
    ELSE [t EXCEPT !.cell = (IF @ = <<>> THEN <<>> ELSE @ \o <<" ">>) \o Trim(s)]

FinishCell(t) ==
    IF t.inCell THEN [t EXCEPT !.row = Append(@, t.cell), !.cell = <<>>, !.inCell = FALSE] ELSE t

FinishRow(t) ==
    LET closed == IF IsBlank(t.cell) THEN t ELSE FinishCell(t) IN
    IF closed.row = <<>> THEN closed ELSE [closed EXCEPT !.rows = Append(@, closed.row), !.row = <<>>]

HtmlRow(cells) ==
    <<"<tr>">> \o FlattenSeq([i \in DOMAIN cells |-> <<"<td>">> \o cells[i] \o <<"</td>">>]) \o <<"</tr>">>

(* No table when there is no row. *)
FinishHtml(t) ==
    IF t.rows = <<>> THEN <<>>
    ELSE <<<<"<table>">> \o FlattenSeq([i \in DOMAIN t.rows |-> HtmlRow(t.rows[i])]) \o <<"</table>">>>>
=============================================================================
