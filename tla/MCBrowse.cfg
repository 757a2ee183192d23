SPECIFICATION FairSpec
CONSTANTS
    Lists <- MCLists
    Shrinking = {"harness_error"}
    Texts <- MCTexts
    Orders <- MCOrders
    AllCrates = "all"
    NoText = ""
    Popular = "popular"
    None = None
    PageSize = 2
    Size <- MCSize
    MaxVersion = 1
    Slots = {1, 2}
    MaxActs = 3
    MaxFaults = 1
INVARIANTS
    BrowseTypeOK
    RangeCovered
    SearchFollowsBox
PROPERTY
    HeadLive
