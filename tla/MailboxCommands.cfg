SPECIFICATION Spec
CONSTANTS
    inbox = inbox
    archive = archive
    old = old
    doomed = doomed
    posted = posted
    s1 = s1
    s2 = s2
    s3 = s3
    Sessions = {s1, s2, s3}
    Boxes = {inbox, archive}
    Messages = {old, doomed, posted}
    Workloads <- MCWorkloads
    FirstRows <- MCFirstRows
    Reported = {1}
INVARIANTS
    StoresSerial
    FlagsQueued
    CountsFollow
    CommandsGoOn
PROPERTIES
    ModseqRises
    NothingVanishes
CHECK_DEADLOCK FALSE
