SPECIFICATION Spec
PROPERTIES
    JobsKeepRunning DeadIsReported PublishedInTheEnd CallsReturn ReversalExits
    SettledInTheEnd LedgerConverges LatchPrevails
