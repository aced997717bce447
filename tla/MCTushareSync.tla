--------------------------- MODULE MCTushareSync ---------------------------
(* Small instances of TushareSync for TLC.                                   *)
EXTENDS TushareSync

\* A month of two days and the daily shard that was planned while it was open.
MonthAndDay == {<<1, 2>>, <<2, 2>>}

\* A state the first three passes reach: catalog and calendar were downloaded by
\* the first two attempts, the contract is planned, no shard is downloaded yet.
InitCatalogued ==
  /\ enabled = TRUE /\ refreshDue = FALSE
  /\ contracts = "CURRENT" /\ edits = [setting |-> 0, request |-> 0]
  /\ status = [j \in Jobs |-> IF j \in {Catalog, Calendar} THEN "VALIDATED"
                              ELSE IF j \in Planned THEN "PENDING" ELSE "NONE"]
  /\ gen = [j \in Jobs |-> IF j = Catalog THEN 1 ELSE IF j = Calendar THEN 2 ELSE None]
  /\ source = [j \in Jobs |-> None]
  /\ tries = [j \in Jobs |-> IF j \in {Catalog, Calendar} THEN 1 ELSE 0]
  /\ checked = {Catalog, Calendar} /\ calendar = TRUE
  /\ last = 2
  /\ jobOf = [g \in Generation |-> IF g = 1 THEN Catalog ELSE IF g = 2 THEN Calendar ELSE None]
  /\ parent = [g \in Generation |-> None]
  /\ open = {} /\ kept = {1, 2}
  /\ coverage = [j \in Jobs |-> IF j = Catalog THEN 1 ELSE IF j = Calendar THEN 2 ELSE 0]
  /\ pc = [w \in Workers |-> "IDLE"] /\ mine = [w \in Workers |-> None]
  /\ owner = None /\ faults = [crash |-> 0, lock |-> 0]
  /\ interrupted = [w \in Workers |-> {}]

SpecCatalogued ==
  /\ InitCatalogued /\ [][Next]_vars
  /\ \A w \in Workers : GoesOn(w)
=============================================================================
