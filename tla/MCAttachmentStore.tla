------------------------- MODULE MCAttachmentStore -------------------------
(***************************************************************************)
(* An instance of AttachmentStore for TLC: one key, which is presigned     *)
(* once, and two requests at a time beside the nightly cleanup.            *)
(***************************************************************************)
EXTENDS AttachmentStore, TLC
=============================================================================
