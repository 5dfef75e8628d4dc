----------------------------- MODULE MCFileBlobs -----------------------------
(* Instances of FileBlobs for TLC. *)
EXTENDS FileBlobs, TLC

CONSTANTS Photos, OldPhotos   \* a folder, and its path once it is in Trash

MCDirs == {Home, Trash, Photos, OldPhotos}
MCTrashed == {OldPhotos}

\* Uploads and job ids are interchangeable; so are clients.
Symmetric == Permutations(Uploads) \cup Permutations(JobIds)
               \cup Permutations(Clients)
=============================================================================
