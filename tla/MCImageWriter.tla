---------------------------- MODULE MCImageWriter ----------------------------
(* ImageWriter for TLC: the situations the MCWriter*.cfg choose from.      *)
EXTENDS ImageWriter

Faults == {"cancel", "timeout", "setupError", "silentError", "capacity", "format",
           "files", "verify"}
Retries == {"cancel", "lateCancel", "timeout", "restart", "earlyRetry", "gapRetry",
            "setupError", "capacity", "files"}
Removal == {"cancel", "removal", "format", "files", "cacheWait", "setupError",
            "silentError", "verify"}
AllTrouble == {Faults, Retries, Removal}

LateCancels == {{"cancel", "lateCancel"}}
Restarts == {{"restart"}}
Overlaps == {{"cacheWait", "earlyRetry", "timeout"}}

\* Each breaks one of the properties of MCWriterExceptions.cfg.
Exceptions == {{}, {"cancel"}, {"cancel", "cacheWait"}, {"gapRetry"},
               {"earlyRetry", "files"}, {"timeout", "earlyRetry"},
               {"removal", "silentError"}, {"cacheWait", "waitRemoval", "silentError"}}
===============================================================================
