------------------------ MODULE MC_UploadTracker ------------------------
(* Small instances of UploadTracker. *)
EXTENDS UploadTracker

\* The blobs of one chunk may be there already.
OneChunk == {<<c>> : c \in Chunks}
=============================================================================
