--------------------------- MODULE MCSegmentation ---------------------------
(* Instances of Documents, and so of Segmentation, for TLC.                *)
EXTENDS Documents, TLC

SomeKinds == {"blank", "text", "h1", "h2", "num1", "num2", "num7"}
               \cup Fences \cup Underlines
=============================================================================
