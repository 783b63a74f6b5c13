SPECIFICATION FairDeviceSpec
CONSTANTS
  MaxEpochs = 3
  Hosts <- MCHosts
  Skipped = {"lo", "docker0"}
  Mentions <- MCMentions
  NoReport = NoReport
PROPERTY ConnectsByItself
