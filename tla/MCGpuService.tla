---------------------------- MODULE MCGpuService ----------------------------
(***************************************************************************)
(* A small instance of GpuService: one transcription, one alignment and    *)
(* one scoring job, on a pipeline of two stages, in the default ONNX       *)
(* build and in the torch build.                                           *)
(***************************************************************************)
EXTENDS GpuService

CONSTANTS t1, l1, s1

MCKind == [r \in Requests |-> CASE r = t1 -> "transcribe"
                                [] r = l1 -> "lyrics"
                                [] OTHER  -> "score"]

\* stems_per; then filter, quantise and transcribe.  Of the stages left out
\* stems_all has the model the lyrics and scoring jobs start with, and nothing
\* but a drop ever happens to Beat This!
MCProgram == <<"drum", NoModel>>

\* DRUMJOT_SEP_ONNX, DRUMJOT_ONSET_ONNX and the aligners' switch: all on, all off
MCBuilds == {{}, {"sw", "drum", "adtof", "ctc"}}
=============================================================================
