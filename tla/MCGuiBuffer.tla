---------------------------- MODULE MCGuiBuffer ----------------------------
(* The core buffer, two buffers that the layout merges, two windows; in one  *)
(* layout of windows both name the same buffer.                              *)
EXTENDS GuiBuffer, TLC

SomeLayout == (1 :> 0) @@ (2 :> 2) @@ (3 :> 2)
SomeWindowLayouts == {<<1, 2>>, <<3, 3>>}
=============================================================================
