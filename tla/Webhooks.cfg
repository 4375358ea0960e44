SPECIFICATION HookSpec
CONSTANTS
  Processes = {api, worker}
  Initialised = {api}
  Keys = {scrape, report}
  Trigger = scrape
  Capacity = 7
  Rate = 2
  Cost = 3
  MaxTime = 3
  MaxCalls = 1
  MaxRestarts = 1
INVARIANTS
  HookTypeOK WindowBound WaitTimeIsExact OnlyTheSecretSpends ScrapesAreBounded
PROPERTIES
  DenialsCostNothing
