SPECIFICATION FairSpec
CONSTANTS
  Name <- MCName
  Registered <- MCRegistered
  Migrations = 2
  Reversible <- MCReversible
  Plans <- MCPlans
  MaxFaults = 2
INVARIANTS BatchGate ReportMatchesDatabase 
PROPERTIES Finishes
