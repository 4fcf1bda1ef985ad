-------------------------- MODULE MCSurfaceRender --------------------------
(* An instance of SurfaceRender for TLC; MCDrawing has the larger one. *)
EXTENDS SurfaceRender, TLC
=============================================================================
