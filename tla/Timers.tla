------------------------------- MODULE Timers -------------------------------
(***************************************************************************)
(* Timer, and the timeout that Scheduler::run() computes for epoll_wait(). *)
(*                                                                         *)
(* Time is kept relative to now: left[x] is timeout - currentTimeMillis(), *)
(* and 0 for every timer that is overdue.  Time passes while threads run   *)
(* and in epoll_wait(); handlers take no time.                             *)
(***************************************************************************)
EXTENDS Queues

CONSTANTS Timer,
          Sleeper,   \* those that are BlockerTimers, made by Timer::sleep()
          MaxDelay,  \* longest delay a timer is given
          Tolerance, \* of handleTimeouts(), 5 ms in the code
          IntMax,    \* largest value of int, the type of epoll_wait()'s timeout
          Forever    \* an infinite wait

ASSUME TimerAssumption ==
    /\ Sleeper \subseteq Timer
    /\ MaxDelay \in Nat /\ Tolerance \in Nat
    /\ IntMax \in Nat
    /\ Forever \notin Int

VARIABLES
    timers,   \* the multiset, in its order: by timeout, then by insertion
    left,     \* time left for each timer, see above
    polled,   \* some descriptor is registered with epoll
    phase,    \* threads run, in epoll_wait(), in handlers, run() has returned
    hadEvents,\* the variable of run(), with what handleTimeouts() will add
    waitLeft  \* time left before epoll_wait() gives up

timersVars == <<timers, left, polled, phase, hadEvents, waitLeft>>

TimersTypeOK ==
    /\ timers \in Seq(Timer) /\ IsInjective(timers)
    /\ left \in [Timer -> 0 .. MaxDelay]
    /\ \A i, j \in DOMAIN timers : i < j => left[timers[i]] <= left[timers[j]]
    /\ polled \in BOOLEAN
    /\ phase \in {"threads", "waiting", "firing", "ended"}
    /\ hadEvents \in BOOLEAN
    /\ waitLeft \in 0 .. IntMax \cup {Forever}

TimersInit ==
    /\ timers = << >>
    /\ left = [x \in Timer |-> 0]
    /\ polled \in BOOLEAN
    /\ phase = "threads"
    /\ hadEvents = TRUE
    /\ waitLeft = Forever

-----------------------------------------------------------------------------
\* Mutant: the set of timers is a list.
InsertedLast(queue, x, d) == Append(queue, x)

\* multiset::insert(): behind the timers that are not later.
Inserted(queue, x, d) ==
    InsertAt(queue,
             CHOOSE n \in 1 .. Len(queue) + 1 :
                 /\ \A i \in 1 .. n - 1 : left[queue[i]] <= d
                 /\ \A i \in n .. Len(queue) : left[queue[i]] > d,
             x)

\* A thread runs, or the handler of a timer or of a descriptor.
InUserCode == phase = "threads" \/ (phase = "firing" /\ hadEvents)

\* Timer(now + d), the constructor.
Create(x, d) ==
    /\ x \notin ToSet(timers)
    /\ timers' = Inserted(timers, x, d)
    /\ left' = [left EXCEPT ![x] = d]
    /\ UNCHANGED <<polled, phase, hadEvents, waitLeft>>

\* sleep(d) makes a BlockerTimer and blocks the thread that calls it.
SleepFor(x, d) == phase = "threads" /\ x \in Sleeper /\ Create(x, d)

\* An application makes a timer of its own.
Add(x, d) == InUserCode /\ x \notin Sleeper /\ Create(x, d)

\* cancel(), by whoever has a pointer to the timer.
CancelTimer(x) ==
    /\ InUserCode
    /\ x \in ToSet(timers) \ Sleeper
    /\ timers' = Without(timers, x)
    /\ UNCHANGED <<left, polled, phase, hadEvents, waitLeft>>

\* The difference of two millis_t values assigned to an int.
ToInt(d) == ((d + IntMax + 1) % (2 * (IntMax + 1))) - (IntMax + 1)

\* Mutant: the latest timer is taken for the earliest.
TimeoutOfLast == IF timers = << >> THEN -1 ELSE ToInt(left[Last(timers)])

\* Mutant: earliest<=now is not looked at, and a negative timeout is infinite.
TimeoutNegative ==
    IF timers = << >> THEN -1
    ELSE IF left[Head(timers)] = 0 THEN -1 ELSE ToInt(left[Head(timers)])

\* The timeout that run() passes to EPoll::wait().
Timeout == IF timers = << >> THEN -1 ELSE ToInt(left[Head(timers)])

\* No thread is ready: EPoll::wait() is called.  Without a registered
\* descriptor and without a timeout it returns at once.
StartWait ==
    /\ phase = "threads"
    /\ hadEvents' = (polled \/ Timeout >= 0)
    /\ phase' = IF hadEvents' THEN "waiting" ELSE "firing"
    /\ waitLeft' = IF Timeout >= 0 THEN Timeout ELSE Forever
    /\ UNCHANGED <<timers, left, polled>>

\* A millisecond passes.
Tick ==
    /\ phase = "threads" \/ (phase = "waiting" /\ waitLeft # 0)
    /\ left' = [x \in Timer |-> IF left[x] = 0 THEN 0 ELSE left[x] - 1]
    /\ waitLeft' = IF phase = "waiting" /\ waitLeft # Forever THEN waitLeft - 1
                                                              ELSE waitLeft
    /\ UNCHANGED <<timers, polled, phase, hadEvents>>

\* epoll_wait() returns for an event on a descriptor, for a signal (EINTR,
\* which wait() takes for no event), or when time is up.
WaitEnds ==
    /\ phase = "waiting"
    /\ phase' = "firing"
    /\ UNCHANGED <<timers, left, polled, hadEvents, waitLeft>>

TimesUp == phase = "waiting" /\ waitLeft = 0 /\ WaitEnds

\* Mutant: the first timer fires whenever epoll_wait() returns.
IsDueAnyway(x) == TRUE

\* timer->timeout <= t in handleTimeouts().
IsDue(x) == left[x] <= Tolerance

HasDue == IF timers = << >> THEN FALSE ELSE IsDue(Head(timers))

\* One turn of the loop in handleTimeouts().  handleTimeout() of a sleeper
\* wakes its thread; another timer may ask to be used again, with whatever
\* timeout its handler has set.
Fire ==
    /\ phase = "firing"
    /\ HasDue
    /\ hadEvents' = TRUE
    /\ LET x == Head(timers)
       IN  \/ /\ timers' = Tail(timers)
              /\ UNCHANGED left
           \/ /\ x \notin Sleeper
              /\ \E d \in 0 .. MaxDelay :
                     /\ timers' = Inserted(Tail(timers), x, d)
                     /\ left' = [left EXCEPT ![x] = d]
    /\ UNCHANGED <<polled, phase, waitLeft>>

\* The first timer is not due, or there is none: the loop of run() goes on,
\* unless nothing happened and nothing is pending.
FireDone ==
    /\ phase = "firing"
    /\ ~HasDue
    /\ phase' = IF hadEvents \/ timers # << >> THEN "threads" ELSE "ended"
    /\ waitLeft' = Forever
    /\ UNCHANGED <<timers, left, polled, hadEvents>>

\* main() may call run() again.
Run ==
    /\ phase = "ended"
    /\ phase' = "threads"
    /\ hadEvents' = TRUE
    /\ UNCHANGED <<timers, left, polled, waitLeft>>

\* Threads begin and cease to wait for descriptors.
Polled ==
    /\ phase = "threads"
    /\ polled' = ~polled
    /\ UNCHANGED <<timers, left, phase, hadEvents, waitLeft>>

TimersNext ==
    \/ \E x \in Timer, d \in 0 .. MaxDelay : SleepFor(x, d)
    \/ \E x \in Timer, d \in 0 .. MaxDelay : Add(x, d)
    \/ \E x \in Timer : CancelTimer(x)
    \/ StartWait
    \/ Tick
    \/ WaitEnds
    \/ Fire
    \/ FireDone
    \/ Run
    \/ Polled

TimersSpec == TimersInit /\ [][TimersNext]_timersVars

\* Time does not stop, and epoll_wait() gives up when its time is up.
TimersFairness ==
    /\ SF_timersVars(Tick)
    /\ WF_timersVars(TimesUp)

FairTimersSpec == TimersSpec /\ TimersFairness

-----------------------------------------------------------------------------
(***************************************************************************)
(* Properties.                                                             *)
(***************************************************************************)

\* epoll_wait() gives up no later than the earliest timer is due, and at once
\* if one is overdue.
WaitEndsInTime ==
    phase = "waiting" /\ timers # << >> =>
        waitLeft # Forever /\ waitLeft <= left[Head(timers)]

\* A sleep ends early by no more than the tolerance, and timers fire in the
\* order of their timeouts, whatever is added and cancelled meanwhile.
FiresInTime ==
    [][\A x \in Sleeper : x \in ToSet(timers) /\ x \notin ToSet(timers') =>
           /\ left[x] <= Tolerance
           /\ \A y \in ToSet(timers) : left[x] <= left[y]]_timersVars

\* What the loop of run() leaves to the application: threads that run block
\* at last, and handlers do not keep handleTimeouts() in its loop by making
\* timers that are due or moving one to where it is due again.
TurnsEnd == []<>(phase # "threads") /\ []<>(phase # "firing")

\* Every sleep ends (Timer.h:73-76), provided that the loop turns.
SleepEnds ==
    TurnsEnd => \A x \in Sleeper : x \in ToSet(timers) ~> x \notin ToSet(timers)
==============================================================================
