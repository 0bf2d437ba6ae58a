--------------------------- MODULE MCIcebergUpload ---------------------------
(* IcebergUpload with the symmetry of its uploads and of its columns: the   *)
(* run checks no liveness.                                                  *)
EXTENDS IcebergUpload, TLC

Symmetry == Permutations(Uploads) \cup Permutations(Columns)
==============================================================================
