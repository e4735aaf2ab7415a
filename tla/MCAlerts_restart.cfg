SPECIFICATION FairAlertSpec
CONSTANTS
    Sites <- TwoSites
    MaxOutages = 1
    MaxReplaced = 0
    MaxFailures = 0
    MaxRestarts = 1
PROPERTY OutageIsMailed
