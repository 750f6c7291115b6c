------------------------------ MODULE Scheduler ------------------------------
(***************************************************************************)
(* The choice of the next handler: kernel/sched/scheduler.c, driven by     *)
(* component_tick_forever of kernel/boot/main.c.                           *)
(*                                                                         *)
(* At every tick of logical time the loop calls scheduler_step until it is *)
(* idle, fails, or has been called once per place of the component set.    *)
(* The cycles of a frame are shared out: a component has a budget, and the *)
(* budgets of the interactive ones are reserved.  Handlers are not         *)
(* preempted; here each ends within what is left of its budget.            *)
(*                                                                         *)
(* Time is relative: `since' is now - frame_start, age is now - last_run   *)
(* up to AgeMax, a timer is the ticks to its deadline.  What a handler     *)
(* does to the domain is in module CapabilityDomain; here it takes or      *)
(* leaves its message, may set its timer and may send one message.  The    *)
(* trace is a log and is left out.                                         *)
(***************************************************************************)
EXTENDS Naturals, FiniteSets, FiniteSetsExt

CONSTANTS ComponentMax,    \* COMPONENT_MAX, 4
          FrameTicks,      \* frame_ticks, 1
          FrameCycles,     \* frame_cycles
          PriorityWeight,  \* 8
          AgeMax,          \* 64
          Policy,          \* the policies configured: interactive, priority, budget
          MailboxMax,      \* COMPONENT_MAILBOX_BYTES, in messages
          MaxDelay,        \* bound: ticks a timer is set to
          MaxFailures,     \* bound: handlers that fail
          MaxRestarts      \* bound: restarts

ASSUME SchedulerConstants ==
    /\ ComponentMax \in Nat \ {0} /\ FrameTicks \in Nat \ {0} /\ FrameCycles \in Nat \ {0}
    /\ PriorityWeight \in Nat /\ AgeMax \in Nat
    /\ Policy \subseteq [interactive : BOOLEAN, priority : 0 .. 7, budget : 1 .. FrameCycles]
    /\ MailboxMax \in Nat /\ MaxDelay \in Nat /\ MaxFailures \in Nat /\ MaxRestarts \in Nat

VARIABLES
    policies,           \* [interactive, priority, budget] per component
    used, consumed,     \* cycles of this frame, per component and in all
    since, age, cursor,
    comp,               \* per component: mailbox, timer, exited
    steps,              \* calls of scheduler_step in this tick
    failures, restarts  \* what the bounds count

schedulerVars == <<policies, used, consumed, since, age, cursor, comp, steps, failures, restarts>>

Index == 0 .. ComponentMax - 1

NoTimer == MaxDelay + 1

Interactive == {i \in Index : policies[i].interactive}

\* What scheduler_configure lets through: the reservations fit into a frame.
scheduler_configure(p) ==
    MapThenSumSet(LAMBDA i : p[i].budget, {i \in Index : p[i].interactive}) <= FrameCycles

\* scheduler_init; last_run is 0, so everyone is old.
scheduler_init ==
    /\ used' = [i \in Index |-> 0] /\ consumed' = 0 /\ since' = 0
    /\ age' = [i \in Index |-> AgeMax] /\ cursor' = 0

SchedulerInit ==
    /\ policies \in {p \in [Index -> Policy] : scheduler_configure(p)}
    /\ used = [i \in Index |-> 0] /\ consumed = 0 /\ since = 0 /\ cursor = 0
    /\ age = [i \in Index |-> AgeMax]
    /\ comp = [i \in Index |-> [mailbox |-> 0, timer |-> 0, exited |-> FALSE]]
    /\ steps = 0 /\ failures = 0 /\ restarts = 0

-----------------------------------------------------------------------------
(* The choice *)

runnable(i) == ~comp[i].exited /\ (comp[i].mailbox > 0 \/ comp[i].timer = 0)

\* The frame as scheduler_step sees it, begun anew when it is over.
NewFrame == since >= FrameTicks
Used == IF NewFrame THEN [i \in Index |-> 0] ELSE used
Consumed == IF NewFrame THEN 0 ELSE consumed

\* What the interactive components have not used yet.
Reserved == MapThenSumSet(LAMBDA i : IF Used[i] < policies[i].budget
                                     THEN policies[i].budget - Used[i] ELSE 0, Interactive)


\* All that a batch component may still use is free.
Fits(i) ==
    /\ Reserved < FrameCycles - Consumed
    /\ policies[i].budget - Used[i] <= FrameCycles - Consumed - Reserved

Eligible ==
    {i \in Index : /\ runnable(i) /\ Used[i] < policies[i].budget /\ Consumed < FrameCycles
                   /\ policies[i].interactive \/ Fits(i)}


\* Interactive first, then priority and age.
Score(i) == <<policies[i].interactive, policies[i].priority * PriorityWeight + age[i]>>

Higher(a, b) == (a[1] /\ ~b[1]) \/ (a[1] = b[1] /\ a[2] > b[2])

\* Distance from the cursor: among equals the first one is taken.
Offset(i) == (i + ComponentMax - cursor) % ComponentMax

Selected ==
    {i \in Eligible : \A j \in Eligible \ {i} :
        Higher(Score(i), Score(j)) \/ (~Higher(Score(j), Score(i)) /\ Offset(i) < Offset(j))}

-----------------------------------------------------------------------------
(* The steps *)

\* A handler that commits: the message is taken or left, or the timer is off;
\* then it may set its timer and send a message.
HandlerEffects(i) ==
    LET timer == comp[i].mailbox = 0
        ran(taken, delay) == [comp EXCEPT ![i].mailbox = IF timer THEN @ ELSE @ - taken,
                                          ![i].timer = IF delay # NoTimer THEN delay
                                                       ELSE IF timer THEN NoTimer ELSE @]
        sent(c, j) == [c EXCEPT ![j].mailbox = IF @ < MailboxMax THEN @ + 1 ELSE @]
        own == {ran(taken, delay) : taken \in {0, 1}, delay \in 1 .. NoTimer}
    IN  own \cup {sent(c, j) : c \in own, j \in Index}

\* Charged to the frame whatever came of the handler.
Charge(i, elapsed) ==
    /\ used' = [Used EXCEPT ![i] = @ + elapsed]
    /\ consumed' = Consumed + elapsed
    /\ since' = IF NewFrame THEN 0 ELSE since
    /\ age' = [age EXCEPT ![i] = 0]
    /\ cursor' = (i + 1) % ComponentMax

\* scheduler_step with something to run: it commits, or it is rolled back and
\* the component does not run again before the next restart, and the loop ends
\* for this tick.
RunHandler ==
    /\ steps < ComponentMax
    /\ \E i \in Selected, elapsed \in 0 .. FrameCycles :
        /\ elapsed <= policies[i].budget - Used[i]
        /\ Charge(i, elapsed)
        /\ \/ comp' \in HandlerEffects(i) /\ steps' = steps + 1 /\ UNCHANGED failures
           \/ /\ failures < MaxFailures /\ failures' = failures + 1
              /\ comp' = [comp EXCEPT ![i].exited = TRUE] /\ steps' = ComponentMax
    /\ UNCHANGED <<policies, restarts>>

\* scheduler_step with nothing to run.
SchedulerIdle ==
    /\ steps < ComponentMax /\ Selected = {}
    /\ used' = Used /\ consumed' = Consumed /\ since' = IF NewFrame THEN 0 ELSE since
    /\ steps' = ComponentMax
    /\ UNCHANGED <<policies, age, cursor, comp, failures, restarts>>

\* component_tick_forever: logical time goes on.
Tick ==
    /\ steps = ComponentMax /\ steps' = 0
    /\ since' = IF since < FrameTicks THEN since + 1 ELSE since
    /\ age' = [i \in Index |-> IF age[i] < AgeMax THEN age[i] + 1 ELSE AgeMax]
    /\ comp' = [i \in Index |-> [comp[i] EXCEPT
                  !.timer = IF @ \in {0, NoTimer} THEN @ ELSE @ - 1]]
    /\ UNCHANGED <<policies, used, consumed, cursor, failures, restarts>>

\* The components resume; logical time is that of the last committed handler.
Restart ==
    /\ restarts < MaxRestarts /\ restarts' = restarts + 1
    /\ scheduler_init /\ steps' = 0
    /\ comp' = [i \in Index |-> [comp[i] EXCEPT !.exited = FALSE]]
    /\ UNCHANGED <<policies, failures>>

LoopStep == RunHandler \/ SchedulerIdle \/ Tick

SchedulerNext == LoopStep \/ Restart

SchedulerSpec == SchedulerInit /\ [][SchedulerNext]_schedulerVars

\* The loop of main.c goes on for ever.
SchedulerFairSpec == SchedulerSpec /\ WF_schedulerVars(LoopStep)

-----------------------------------------------------------------------------
(* Properties *)

\* Type correctness; no component uses more than its budget.
SchedulerTypeOK ==
    /\ policies \in [Index -> Policy]
    /\ \A i \in Index : used[i] \in 0 .. policies[i].budget /\ age[i] \in 0 .. AgeMax
    /\ since \in 0 .. FrameTicks /\ cursor \in Index /\ steps \in 0 .. ComponentMax
    /\ comp \in [Index -> [mailbox : 0 .. MailboxMax, timer : 0 .. NoTimer, exited : BOOLEAN]]

\* The reservations hold: what the frame has left covers what the interactive
\* components have not used, so none of them is refused its budget because of
\* what ran before it in the frame.
ReservationsHold == Consumed + Reserved <= FrameCycles


\* The budget of a component fits into a frame with all reservations open.
Admissible(i) ==
    policies[i].interactive \/
    policies[i].budget <=
        FrameCycles - MapThenSumSet(LAMBDA j : policies[j].budget, Interactive)

\* No starvation: a component whose budget fits into the frame does not stay
\* runnable for ever without running.  A batch component can count on it only
\* when no interactive component stays runnable: those may take every call of
\* scheduler_step in a tick.
NoStarvation ==
    \A i \in Index :
        []<>(Admissible(i) => \/ ~runnable(i) \/ age[i] = 0
                              \/ ~policies[i].interactive /\ \E j \in Interactive : runnable(j))
=============================================================================
