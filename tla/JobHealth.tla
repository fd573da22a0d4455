----------------------------- MODULE JobHealth -----------------------------
(***************************************************************************)
(* The fetch and scoring jobs of pipeline/scheduler.py as the public probe *)
(* GET /health/pipeline sees them: cron triggers, the ceiling of each run, *)
(* the success that _record_run stores, and evaluate, which compares the   *)
(* age of that success with a limit per job or, for the jobs of the market *)
(* close, with a deadline (api/routes/pipeline_health.py).                 *)
(*                                                                         *)
(* A behaviour follows one job, chosen in Init, through days that are      *)
(* sessions, early closes, weekday holidays or weekend days, in one season *)
(* of New York time.  The clock has units of five minutes, of which every  *)
(* time in the schedule is a multiple; the probe caches its answer for 60 s*)
(* and so answers with an evaluation of the last unit.                     *)
(***************************************************************************)
EXTENDS Naturals

Units(minutes) == minutes \div 5
At(hours, minutes) == {Units(60 * h + m) : h \in hours, m \in minutes}
Day == Units(24 * 60)

IntervalJobs == {"scoring_tick", "narrative", "influencer", "macro_daily",
                 "market", "macro_intraday"}
SessionJobs == {"market_eod", "short_volume"}
Jobs == IntervalJobs \cup SessionJobs

DayKinds == {"session", "early", "holiday", "weekend"}
SessionDays == {"session", "early"}

\* The triggers that fire every day and those that fire on weekdays.
Daily == [scoring_tick |-> At(0 .. 23, {0, 30}), narrative |-> At(0 .. 23, {5, 35}),
          influencer |-> At({0, 6, 12, 18}, {20}), macro_daily |-> At({2}, {0}),
          market |-> {}, macro_intraday |-> {}, market_eod |-> {}, short_volume |-> {}]

\* Fault: the market hours of the winter only.
WeekdaysFrom14 ==
    [scoring_tick |-> At(14 .. 20, {15, 45}), market |-> At(14 .. 20, {0, 15, 30, 45}),
     macro_intraday |-> At(14 .. 20, {0}), market_eod |-> At({21}, {15}),
     short_volume |-> At({21}, {30}), narrative |-> {}, influencer |-> {}, macro_daily |-> {}]

Weekdays ==
    [scoring_tick |-> At(13 .. 20, {15, 45}), market |-> At(13 .. 20, {0, 15, 30, 45}),
     macro_intraday |-> At(13 .. 20, {0}), market_eod |-> At({21}, {15}),
     short_volume |-> At({21}, {30}), narrative |-> {}, influencer |-> {}, macro_daily |-> {}]

\* JOB_TIMEOUTS_S.
Ceiling == [scoring_tick |-> Units(25), narrative |-> Units(50), influencer |-> Units(120),
            macro_daily |-> Units(15), market |-> Units(10), macro_intraday |-> Units(15),
            market_eod |-> Units(15), short_volume |-> Units(20)]

\* The longest run the schedule is made for, by the comments of JOB_TIMEOUTS_S and
\* INTERVAL_LIMITS_MIN ("runs ~40 min"); the ceiling where they name none.
Usual == [Ceiling EXCEPT !.scoring_tick = Units(15), !.influencer = Units(40),
                         !.market = Units(5), !.macro_intraday = Units(5),
                         !.market_eod = Units(5)]

\* INTERVAL_LIMITS_MIN, in session and outside; Never where no run is expected.
Never == Units(48 * 60)
InLimit == [scoring_tick |-> Units(45), narrative |-> Units(90), market |-> Units(45),
            macro_intraday |-> Units(90), influencer |-> Units(7 * 60),
            macro_daily |-> Units(26 * 60)]
OutLimit == [InLimit EXCEPT !.scoring_tick = Units(75), !.market = Never,
                            !.macro_intraday = Never]
DownAfter == Units(120)

\* SESSION_JOB_DEADLINES: grace after the close and the earliest time of day.
Grace == Units(60)
Floor == [market_eod |-> Units(21 * 60 + 45), short_volume |-> Units(22 * 60 + 30)]

VARIABLES
    job,       \* the job that this behaviour follows
    season,    \* "EDT" or "EST"
    day,       \* the kind of the current UTC day
    clock,     \* the time of day
    due,       \* the trigger has fired and is not handled yet: "yes" or "no"
    run,       \* "idle" or "running"
    spent,     \* how long the run has taken
    since,     \* age of the recorded success of an interval job, up to Old
    closes,    \* market closes since the recorded success of a session job, up to 2
    got,       \* what the recorded run obtained: "data" or "nothing"
    failures   \* runs that failed or were missed since then, up to MaxFailures

vars == <<job, season, day, clock, due, run, spent, since, closes, got, failures>>

MaxFailures == 10  \* bound on the count of failures

\* An age that exceeds every limit, like that of a success never recorded.
Old == IF job \in SessionJobs THEN 0
       ELSE IF job = "scoring_tick" THEN DownAfter + 1 ELSE InLimit[job] + 1

TypeOK ==
    /\ job \in Jobs /\ season \in {"EDT", "EST"} /\ day \in DayKinds
    /\ clock \in 0 .. Day - 1 /\ due \in {"yes", "no"} /\ run \in {"idle", "running"}
    /\ spent \in 0 .. Ceiling[job] /\ since \in 0 .. Old /\ closes \in 0 .. 2
    /\ got \in {"data", "nothing"} /\ failures \in 0 .. MaxFailures

Least(a, b) == IF a < b THEN a ELSE b
Greatest(a, b) == IF a > b THEN a ELSE b

\* Session bounds in UTC; New York is an hour later in winter.
Winter == IF season = "EST" THEN Units(60) ELSE 0
Open == Units(13 * 60 + 30) + Winter
Close(d) == (IF d = "early" THEN Units(17 * 60) ELSE Units(20 * 60)) + Winter
InSession == day \in SessionDays /\ Open <= clock /\ clock < Close(day)

\* The latest close is that of today, and its run need not have succeeded yet.
NotDueYet ==
    /\ day \in SessionDays /\ Close(day) <= clock
    /\ clock < Greatest(Close(day) + Grace, Floor[job])

\* evaluate: what the probe reports of the job.
Stale == IF job \in IntervalJobs
         THEN since > (IF InSession THEN InLimit[job] ELSE OutLimit[job])
         ELSE closes > (IF NotDueYet THEN 1 ELSE 0)
Status == IF job = "scoring_tick" /\ since > DownAfter THEN "down"
          ELSE IF Stale THEN "degraded" ELSE "ok"

Init ==
    /\ job \in Jobs /\ season \in {"EDT", "EST"} /\ day \in DayKinds
    /\ clock = 0 /\ due = "no" /\ run = "idle" /\ spent = 0
    /\ since = Old /\ closes = 2 /\ got = "data" /\ failures = 1

\* Time passes; a run ends at its ceiling at the latest.
Tick ==
    /\ due = "no" /\ spent < Ceiling[job]
    /\ clock' = (clock + 1) % Day
    /\ day' \in IF clock' = 0 THEN DayKinds ELSE {day}
    /\ due' = IF clock' \in Daily[job] \cup (IF day' = "weekend" THEN {} ELSE Weekdays[job])
              THEN "yes" ELSE "no"
    /\ spent' = IF run = "running" THEN spent + 1 ELSE 0
    /\ since' = Least(since + 1, Old)
    /\ closes' = IF job \in SessionJobs /\ day' \in SessionDays /\ clock' = Close(day')
                 THEN Least(closes + 1, 2) ELSE closes
    /\ UNCHANGED <<job, season, run, got, failures>>

StartRun ==
    /\ due = "yes" /\ run = "idle"
    /\ due' = "no" /\ run' = "running" /\ spent' = 0
    /\ UNCHANGED <<job, season, day, clock, since, closes, got, failures>>

\* max_instances=1: the trigger is dropped while a run is going on.
SkipRun ==
    /\ due = "yes" /\ run = "running"
    /\ due' = "no"
    /\ UNCHANGED <<job, season, day, clock, run, spent, since, closes, got, failures>>

\* A failure counts where a success was called for: for a session job when there
\* is a close to capture.
Failed == IF job \in IntervalJobs \/ closes > 0 THEN Least(failures + 1, MaxFailures)
          ELSE failures

\* The process is down, or late by more than the misfire grace time.
MissRun ==
    /\ due = "yes" /\ run = "idle"
    /\ due' = "no" /\ failures' = Failed
    /\ UNCHANGED <<job, season, day, clock, run, spent, since, closes, got>>

\* Fault: a run is recorded however it ends.
FailRunRecorded ==
    /\ run = "running"
    /\ run' = "idle" /\ spent' = 0 /\ failures' = Failed
    /\ since' = 0 /\ closes' = 0
    /\ UNCHANGED <<job, season, day, clock, due, got>>

\* The run ends without a record: every ticker's fetch raised, the ceiling cut it
\* off, the record did not reach Redis, or the process was restarted.
FailRun ==
    /\ run = "running"
    /\ run' = "idle" /\ spent' = 0 /\ failures' = Failed
    /\ UNCHANGED <<job, season, day, clock, due, since, closes, got>>

\* The run ends and _record_run stores the time of its success.
Recorded(what) ==
    /\ run = "running"
    /\ run' = "idle" /\ spent' = 0 /\ since' = 0 /\ closes' = 0
    /\ got' = what /\ failures' = 0
    /\ UNCHANGED <<job, season, day, clock, due>>

Succeed == Recorded("data")

\* The jobs that look at what they obtained before they record a success.
CheckedJobs == {"short_volume", "scoring_tick"}

\* No upstream answers.  The sources swallow that (an empty batch, a request given
\* up), so that no fetcher raises.
Outage == IF job \in CheckedJobs THEN FailRun ELSE Recorded("nothing")

\* The stored record expires or is lost with Redis.
LoseRecord ==
    /\ since' = Old /\ closes' = 2
    /\ failures' = Greatest(failures, 1)
    /\ UNCHANGED <<job, season, day, clock, due, run, spent, got>>

Next == Tick \/ StartRun \/ SkipRun \/ MissRun \/ FailRun \/ Succeed \/ Outage \/ LoseRecord

Spec == Init /\ [][Next]_vars

---------------------------------------------------------------------------
(* Properties.                                                             *)

\* No false alarm: while every run since the recorded success did its work and took
\* no longer than usual, the probe reports the job as fresh, in either season and
\* over early closes, holidays and weekends.
NoFalseAlarm == failures = 0 /\ spent <= Usual[job] /\ due = "no" => Status = "ok"

\* The types, with runs that never outlast their ceiling, and no false alarm.
AlarmsAreEarned == TypeOK /\ NoFalseAlarm

\* How many failed runs in a row the probe must notice.
AlarmAfter == [scoring_tick |-> 7, narrative |-> 5, market |-> 4,
               influencer |-> 2, macro_daily |-> 2, macro_intraday |-> 2,
               market_eod |-> 1, short_volume |-> 1]

\* An outage is reported: a job that failed that often in a row is reported, unless
\* it is not expected at this time, a dead scoring tick takes the probe "down", and of the
\* jobs that check what they obtained a success means that there was something.
FailuresAreReported ==
    /\ /\ failures >= AlarmAfter[job]
       /\ job \in {"market", "macro_intraday"} => InSession
       /\ job \in SessionJobs => ~NotDueYet
       => Status # "ok"
    /\ job = "scoring_tick" /\ failures = MaxFailures => Status = "down"
    /\ job \in CheckedJobs /\ Status = "ok" => got = "data"
=============================================================================
