-------------------------- MODULE MCPagePipeline --------------------------
(***************************************************************************)
(* Model-checking instances of PagePipeline.                               *)
(***************************************************************************)
EXTENDS PagePipeline

Pdf(n) == [kind |-> "pdf", pages |-> n]
Image  == [kind |-> "image", pages |-> 1]
Office == [kind |-> "office", pages |-> 0]

(* Two windows of two pages and of one, a PDF without a requested page, an *)
(* office document and an image.                                           *)
MixedUploads == <<Pdf(4), Office, Pdf(1), Image>>
=============================================================================
