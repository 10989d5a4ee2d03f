--------------------------- MODULE MCValidationCell ---------------------------
(***************************************************************************)
(* Three contents of the source, two main test executables and one of the  *)
(* external consumer.  The source s1 sets the cached option to k1 and s2   *)
(* sets it to k2; s3 has k1 as the default of an option, which a cached    *)
(* value overrides, so that an edit may leave the cache as it is.          *)
(***************************************************************************)
EXTENDS ValidationCell

CONSTANTS s1, s2, s3, k1, k2

MCConfigured(s, c) ==
  CASE s = s1 -> k1
    [] s = s2 -> k2
    [] s = s3 -> IF c = Nothing THEN k1 ELSE c
=============================================================================
