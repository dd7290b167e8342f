--------------------------- MODULE MCParsedOutput ---------------------------
(* The documents of MCPythonOutput and the Office uploads of OfficeUploads. *)
EXTENDS ParsedOutput, MCPythonOutput

Samples == INSTANCE OfficeUploads
MCUploads == Samples!WordUploads \cup Samples!DeckUploads \cup Samples!BookUploads
MCLowerName == Samples!LowerNames
MCHeadingNumber == Samples!HeadingNumbers
MCListNames == Samples!ListsByName
MCNumeral == Samples!Numerals
=============================================================================
