--------------------------- MODULE MCCacheManager ---------------------------
(* CacheManager for TLC.                                                   *)
EXTENDS CacheManager

\* One thing at a time.
CustomOrDecay == {{"custom"}, {"decay"}}
Exceptions    == {{}, {"custom"}, {"decay"}, {"oldStuck"}}
=============================================================================
