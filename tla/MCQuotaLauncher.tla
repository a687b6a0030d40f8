--------------------------- MODULE MCQuotaLauncher ---------------------------
(* Small instances of QuotaLauncher. *)
EXTENDS QuotaLauncher
CONSTANTS s1, s2, s3
ThreeSplits == {s1, s2, s3}
=============================================================================
