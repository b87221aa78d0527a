----------------------------- MODULE MCAppWindow -----------------------------
(* A drive with two APFS partitions, which in its table come after one that   *)
(* is not APFS, an image, and one without an APFS partition; the list may     *)
(* hold an image twice.                                                       *)
EXTENDS AppWindow

CONSTANTS drive, imgA, imgB

MCDriveOrder == <<drive>>
MCImages == {imgA, imgB}
MCLayout ==
    [s \in {drive, imgA, imgB} |->
        IF s = drive THEN <<[raw |-> 1, vols |-> 1], [raw |-> 2, vols |-> 1]>>
        ELSE IF s = imgA THEN <<[raw |-> 1, vols |-> 1]>> ELSE <<>>]
=============================================================================
