CONSTANTS
    Writers = {"relay", "runner", "other"}
    CampaignOf <- MCCampaignOf
    Calls <- MCCalls
    Sorted <- MCSorted
    MaxEvents = 2
    Genesis = Genesis
    None = None
SPECIFICATION Spec
INVARIANTS ReceiptsStand LogStaysOpen AnchorTells
