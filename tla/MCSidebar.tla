----------------------------- MODULE MCSidebar -----------------------------
(* Two sources with partitions, an image that cannot be read; a window in    *)
(* which the sidebar and the list of volumes must be scrolled.               *)
EXTENDS Sidebar, TLC

CONSTANTS stickA, imageA, imageB

MCDriveOrder == <<stickA>>
MCVolumeCounts == stickA :> <<2, 1>> @@ imageA :> <<1>> @@ imageB :> <<>>
=============================================================================
