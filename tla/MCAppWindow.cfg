CONSTANTS
    drive = drive
    imgA = imgA
    imgB = imgB
    DriveOrder <- MCDriveOrder
    Images <- MCImages
    Layout <- MCLayout
    Letters = {25, 26}
    MaxLaunches = 2
    MaxImages = 2
SPECIFICATION Spec
INVARIANTS OneHelperPerDriveVolume DriveMountsShown
PROPERTIES SelectionKept EndedForAReason VanishedDriveUnmounted
