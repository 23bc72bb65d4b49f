------------------------- MODULE SchedulingContract -------------------------
(***************************************************************************)
(* What the zoneless scheduler promises, without the flags, queues, tasks  *)
(* and phases by which it does: demanded work gets a tick, ticks do not    *)
(* overlap or schedule each other, a tick that does not fail leaves no     *)
(* work, and the application is reported stable outside a tick only when   *)
(* no work is left.  ZonelessScheduler implements it.                      *)
(***************************************************************************)

VARIABLES
    work,       \* is there anything to synchronize?
    scheduled,  \* is a tick scheduled?
    ticking,    \* is a tick running?
    busy,       \* is the application unstable?
    failed,     \* did the last tick throw or give up, with work left behind?
    destroyed   \* is the application destroyed?

contractVars == <<work, scheduled, ticking, busy, failed, destroyed>>

Start == ~work /\ ~scheduled /\ ~ticking /\ ~busy /\ ~failed /\ ~destroyed

\* Outside a tick a demand for work schedules a tick and keeps the application
\* unstable in the same step.
Demand ==
    /\ ~ticking /\ ~destroyed
    /\ scheduled' /\ busy'
    /\ work' \in {work, TRUE}
    /\ UNCHANGED <<ticking, failed, destroyed>>

\* A scheduled tick is called off only when there is nothing to do, or when a
\* failed tick has lost track of it.
CallOff ==
    /\ ~ticking /\ scheduled
    /\ ~work \/ failed
    /\ ~scheduled'
    /\ busy' \in BOOLEAN
    /\ UNCHANGED <<work, ticking, failed, destroyed>>

\* The scheduled tick starts; until its end the application is unstable.
StartScheduled ==
    /\ ~ticking /\ scheduled
    /\ ticking' /\ busy' /\ ~scheduled'
    /\ work' \in {work, TRUE}
    /\ UNCHANGED <<failed, destroyed>>

\* The application calls tick() itself, a scheduled tick stays scheduled.
StartManual ==
    /\ ~ticking
    /\ ticking'
    /\ work' \in {work, TRUE}
    /\ UNCHANGED <<scheduled, busy, failed, destroyed>>

\* During a tick work comes and goes, and nothing is scheduled for it.
Work ==
    /\ ticking
    /\ work' \in BOOLEAN /\ busy' \in BOOLEAN
    /\ UNCHANGED <<scheduled, ticking, failed, destroyed>>

\* The end of a tick takes the scheduled one with it; work is left only by a
\* tick that failed.
End ==
    /\ ticking
    /\ ~ticking' /\ ~scheduled'
    /\ work' \in BOOLEAN /\ busy' \in BOOLEAN /\ failed' \in BOOLEAN
    /\ work' => failed' \/ destroyed
    /\ UNCHANGED destroyed

\* Pending tasks of the application come and go between ticks; it becomes
\* stable only if no work is left.
ChangeStability ==
    /\ ~ticking
    /\ busy' \in BOOLEAN
    /\ ~busy' /\ work => failed \/ destroyed
    /\ UNCHANGED <<work, scheduled, ticking, failed, destroyed>>

Destroy ==
    /\ destroyed' /\ ~scheduled' /\ ~busy'
    /\ work' \in BOOLEAN
    /\ UNCHANGED <<ticking, failed>>

\* After that nothing is scheduled any more, whatever is demanded.
Demolished ==
    /\ destroyed /\ ~ticking
    /\ work' \in BOOLEAN
    /\ UNCHANGED <<scheduled, ticking, busy, failed, destroyed>>

ContractNext ==
    \/ Demand \/ CallOff \/ StartScheduled \/ StartManual \/ Work \/ End
    \/ ChangeStability \/ Destroy \/ Demolished

Contract == Start /\ [][ContractNext]_contractVars
=============================================================================
