----------------------------- MODULE MCOwnerPage -----------------------------
(* Bounds of the run of OwnerPage.                                         *)
EXTENDS OwnerPage

Only(f) == [k \in Kinds |-> IF k \in DOMAIN f THEN f[k] ELSE 0]

(* Device "a" has two endpoints, "b" one.                                  *)
MCDeviceOf == [e \in Endpoints |-> IF e = "b1" THEN "b" ELSE "a"]

Start(paired, up, known, bounds) ==
  [listed |-> paired, live |-> [e \in Endpoints |-> IF e \in up THEN 1 ELSE 0],
   rows |-> [e \in Endpoints |-> IF e \in known THEN 1 ELSE 0], bounds |-> Only(bounds)]

(* Reports that follow each other and rows of an earlier page; two         *)
(* devices; retries until there are none left; a lost network and the end  *)
(* of a session; a removed pairing; a scanned code, and both at once.      *)
MCStarts ==
  {Start({"a"}, {"a1"}, {"a1"}, [host |-> 3, select |-> 1]),
   Start({"a", "b"}, {"a1", "b1"}, {"b1"}, [host |-> 1, select |-> 2]),
   Start({"a"}, {"a1"}, {}, [host |-> 1, fault |-> 4, retry |-> 1]),
   Start({"a"}, {"a1"}, {}, [select |-> 1, fault |-> 4]),
   Start({"a"}, {"a1", "a2"}, {}, [select |-> 2, fault |-> 2, net |-> 1, bye |-> 1, retry |-> 1]),
   Start({"a"}, {"a1"}, {}, [host |-> 1, fault |-> 2, net |-> 1, bye |-> 1, retry |-> 1]),
   Start({"a", "b"}, {"a1"}, {"a1"}, [host |-> 1, remove |-> 1]),
   Start({"a"}, {"a1"}, {}, [scan |-> 2, loss |-> 2]),
   Start({"a"}, {"a1"}, {"a1"}, [host |-> 1, remove |-> 1, scan |-> 1]),
   Start({}, {"b1"}, {}, [host |-> 1, scan |-> 1, loss |-> 3])}

=============================================================================
