---------------------------- MODULE MCRetention ----------------------------
(* A report for the first day, another for the same day, one that spans two  *)
(* days, and a TLS report.                                                   *)
EXTENDS Retention

MCBeginDay == [r \in Reports |-> CASE r = "late" -> 0 [] r = "first" -> 0
                                   [] r = "long" -> 1 [] r = "tls" -> 0]
MCEndDay == [MCBeginDay EXCEPT !["long"] = 2]
=============================================================================
