------------------------------ MODULE MCIngest ------------------------------
(* Three messages: a report beside a forensic attachment and one that cannot  *)
(* be extracted, the same report delivered again beside a malformed one, and  *)
(* a report beside an attachment that is unreadable in one of two ways.       *)
EXTENDS Ingest

MCDocsOf == [m \in Messages |->
    CASE m = "m1" -> {"d1", "d2", "d7"} [] m = "m2" -> {"d3", "d4"} [] m = "m3" -> {"d5", "d6"}]

MCKindOf == [d \in Docs |->
    CASE d = "d2" -> "forensic"
      [] d = "d4" -> "malformed"
      [] d \in {"d6", "d7"} -> "unextractable"
      [] OTHER -> "report"]

\* The second attachment of m3 is a zip whose member raises while it is read.
MCKindOfWithCrashing == [MCKindOf EXCEPT !["d6"] = "crashing"]

MCReportOf == [d \in Docs |-> IF d = "d5" THEN "r2" ELSE "r1"]
=============================================================================
