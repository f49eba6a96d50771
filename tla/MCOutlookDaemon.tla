--------------------------- MODULE MCOutlookDaemon ---------------------------
(* OutlookDaemon next to one shell: one folder, included by its well-known name *)
(* (which skipFolder leaves out) and by its id, and excluded by another name.   *)
EXTENDS OutlookDaemon, TLC

CONSTANTS d1, s1, cal

Processes == {d1, s1}
Included == {"sentitems", "sent-id"}
Excluded == {"Sent"}
Names == [t \in Included \cup Excluded |-> "sent"]
SentSkipped == {"sentitems"}
OneCalendar == {cal}
=============================================================================
