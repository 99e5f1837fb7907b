----------------------------- MODULE MCReadback -----------------------------
(***************************************************************************)
(* A flood warning from its alert to its cancellation, and two entities of  *)
(* one other feed.                                                         *)
(***************************************************************************)
EXTENDS Readback

MCEntities == {"flood", "vehicle", "marker"}

MCKind == [e \in MCEntities |->
  CASE e = "flood" -> "hazard" [] e = "vehicle" -> "track" [] e = "marker" -> "task"]

MCFeed == [e \in MCEntities |->
  CASE e = "flood" -> "cap" [] e \in {"vehicle", "marker"} -> "tak-cot"]

Alert(sent, effective, expires, msgType) ==
  [entity |-> "flood", sent |-> sent, effective |-> effective, expires |-> expires,
   msgType |-> msgType, status |-> "actual", drawn |-> TRUE]

\* The warning takes effect when its update does, which has no time of its own.
MCAlerts == { Alert(1, 2, 3, "alert"), Alert(2, 0, 5, "update"), Alert(3, 3, 5, "cancel") }

Report(entity, sent, status, drawn) ==
  [entity |-> entity, sent |-> sent, effective |-> sent, expires |-> 0,
   msgType |-> "report", status |-> status, drawn |-> drawn]

MCReports == { Report("vehicle", 1, "", TRUE), Report("marker", 3, "active", FALSE) }

MCMessages == MCAlerts \cup MCReports

\* A warning of a flood to come, called off before it takes effect.
MCCalledOff == { Alert(1, 3, 6, "alert"), Alert(2, 0, 6, "cancel") }
=============================================================================
