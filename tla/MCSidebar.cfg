CONSTANTS
    stickA = stickA
    imageA = imageA
    imageB = imageB
    DriveOrder <- MCDriveOrder
    Images = {imageA, imageB}
    VolumeCounts <- MCVolumeCounts
    Height = 4
    ListTop = 3
    RowHeight = 2
    PartHeight = 1
    MaxScroll = 2
    MaxMessages = 2
SPECIFICATION Spec
INVARIANTS ClickMeansShown MountsWhatIsShown
PROPERTIES ChangeIsShown
CHECK_DEADLOCK FALSE
