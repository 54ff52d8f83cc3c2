CONSTANTS
    report = report
    cron = cron
    local = local
    Nobody = Nobody
    Workers <- OneWorker
    Triggers <- OneTrigger
    WorkerOf <- CronOfReport
    Schedulers <- OneScheduler
    Periods <- TwoPeriods
    Lacks = {"missing_secret", "llm_model_not_configured"}
    Threshold = 2
    Grace = 0
    Lease = 2
    Month = 2
    MaxTime = 3
    MaxEvents = 1
SPECIFICATION FairSpec
INVARIANTS
    SlotHandledOnce
    PauseIsEarned
    
    EpisodeIsCoalesced
PROPERTIES
    EventuallyAdvanced
