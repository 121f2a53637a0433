----------------------------- MODULE MCShutdown -----------------------------
(* Two packet threads, and none where another group has the same shape.     *)
EXTENDS Shutdown

MCThreads == [g \in {Groups[i] : i \in DOMAIN Groups} |->
                 IF g = "packet" THEN 2 ELSE IF g \in {"accept", "request", "dbResult", "tps"} THEN 0 ELSE 1]
=============================================================================
