CONSTANTS
    Absent = Absent
    CR = CR
    LF = LF
    Keys <- MCKeys
    Defaults <- MCDefaults
    Local <- MCLocal
    SiteConfigs <- MCConfigs
    Indices <- MCIndices
    Ifaces <- MCIfaces
    StartPort = 4739
    Number <- MCNumber
    MaxFirewallFailures = 1
    MaxSiteChanges = 1
    MaxFaults = 1
    MaxRestarts = 5
SPECIFICATION FlowFairSpec
INVARIANTS
    RestartsHaveCauses
    MonitorsHaveReceivers
    OpenedHaveCauses
PROPERTIES
    SetValuesApplied
    ProbesServed
