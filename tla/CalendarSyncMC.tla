--------------------------- MODULE CalendarSyncMC ---------------------------
(* Values for TLC: three appointment times.  With Buffer = 1 the first two   *)
(* overlap and the third is clear of both; ExternalBuffer = 3 lets a busy    *)
(* time of the primary calendar reach further than a booking does.           *)
EXTENDS CalendarSyncRefinement

Early     == <<0, 1>>
Middle   == <<1, 2>>
Late      == <<4, 5>>
ThreeTimes == {Early, Middle, Late}
TwoTimes   == {Early, Late}
=============================================================================
