--------------------------- MODULE MCRegistration ---------------------------
(* An API process of two threads and a worker; a name of the manifest that  *)
(* is bound to a workspace, and a free one.                                 *)
EXTENDS Registration

CONSTANTS t1, t2, w1, api

MCProcessOf == [t \in {t1, t2, w1} |-> IF t = w1 THEN w1 ELSE api]

Of(n, h, v, c) == [name |-> n, home |-> h, version |-> v, content |-> c]

MCBase == {Of("fixed", "red", 1, "read")}
MCRegistered == {Of("free", "red", 1, "read")}
MCOffers == {Of("free", "red", 1, "write"), Of("free", "red", 2, "off"), Of("free", "blue", 1, "read"),
             Of("fixed", "red", 2, "write"), Of("fixed", "blue", 2, "read")}

(* Two administrators of one workspace change one contract.                 *)
MCRivals == {Of("free", "red", 2, "read"), Of("free", "red", 2, "write")}
=============================================================================
