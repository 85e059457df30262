SPECIFICATION FairSpec
CONSTANTS
    Job = {b1, f1}
    Flash = {f1}
    Caller = {h1, h2}
    Cli = cli
    None = None
INVARIANTS
    BodyOwnsEverything
    AnsweredCancelStands
    AwaitedNotTorn
PROPERTY
    JobsEnd
