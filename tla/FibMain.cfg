\* One or two addresses on the interface, every destination.  The tables are
\* complete once the interface is up.
SPECIFICATION MCSpec
CONSTANTS
  W = 4
  Ifaddrs <- MCIfaddrs
CHECK_DEADLOCK FALSE
INVARIANTS TypeOK LookupIsReference OwnAddressLocal AnswersAccepted
