--------------------------- MODULE MCOfficeParse ---------------------------
(* Workbooks of OfficeUploads, whose values begin anywhere in the sheet. *)
EXTENDS OfficeParse

Samples == INSTANCE OfficeUploads
MCBooks == Samples!BookUploads
MCLowerName == Samples!LowerNames
MCHeadingNumber == Samples!HeadingNumbers
MCListNames == Samples!ListsByName
MCNumeral == Samples!Numerals
=============================================================================
