------------------------------ MODULE MCContent ------------------------------
(* Two images; the toolbar clicks and page events are bounded.               *)
EXTENDS ContentScript
==============================================================================
