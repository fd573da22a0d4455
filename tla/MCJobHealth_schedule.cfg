SPECIFICATION Spec
INVARIANTS
    AlarmsAreEarned
    FailuresAreReported
