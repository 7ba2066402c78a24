--------------------------- MODULE MCCacheWriter ---------------------------
(* CacheWriter for TLC: the MCCacheWriter*.cfg give its constants values.  *)
EXTENDS CacheWriter
============================================================================
