-------------------------- MODULE MCFramePipeline --------------------------
(* Model values for checking FramePipeline.                                *)
EXTENDS FramePipeline

CONSTANTS ui, raster, platform

MCThreads == {ui, raster, platform}
MCItems == Frames
=============================================================================
