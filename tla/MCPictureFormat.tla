--------------------------- MODULE MCPictureFormat --------------------------
(* Tablet panels that are sold, with and without an override of one another. *)
EXTENDS PictureFormat

MCPanels ==
  {<<1800, 2880>>, <<1200, 2000>>, <<800, 1340>>, <<800, 1280>>, <<1536, 2048>>, <<0, 0>>}
MCResolutions == {<<1920, 1200>>, <<1366, 768>>}
MCExisting == {<<1280, 720>>}
MCAudio == {<<0, 0, 0, 0>>, <<1, 48000, 2, 312>>}
=============================================================================
