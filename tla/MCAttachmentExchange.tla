------------------------ MODULE MCAttachmentExchange ------------------------
(* Model values for AttachmentExchange: the attachments a user sends. *)
EXTENDS AttachmentExchange

CONSTANTS a1, a2
=============================================================================
