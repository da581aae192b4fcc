------------------------ MODULE MCTranscriptBuffer ------------------------
(***************************************************************************)
(* Instances of TranscriptBuffer for TLC.  FLUSH_WORD_COUNT is scaled down *)
(* so that a batch fills within two chunks.                                *)
(***************************************************************************)
EXTENDS TranscriptBuffer
=============================================================================
