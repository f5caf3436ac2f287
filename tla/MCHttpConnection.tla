--------------------------- MODULE MCHttpConnection ---------------------------
(* Instances of HttpConnection: which requests, how long the answers, and  *)
(* which faults.                                                           *)
EXTENDS HttpConnection

AllKinds   == Kind
AllFaults  == Fault
FileOnly   == {"file"}
TwoUnits   == {"page", "pageClose", "file"}
MCHeadUnits == [k \in Kind |-> IF k \in TwoUnits THEN 2 ELSE 1]
FinOnly    == {"fin"}
=============================================================================
