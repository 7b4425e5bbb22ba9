------------------------------ MODULE EpfTimer ------------------------------
(***************************************************************************)
(* The POSIX timers of epf_timer.c: a detached ticker thread walks lists   *)
(* of timers and runs their callbacks, while other threads and the         *)
(* callbacks themselves arm, disarm and rearm timers, and one of them may  *)
(* deinitialise the instance and initialise it again. The walk is the one  *)
(* of EDF_timeEvent_tick, node by node (module TimeEvent, instantiated as  *)
(* Wheel: its time events are the timers, its te_link is t_link, and its   *)
(* post is the callback); this module adds the instance, its thread, and   *)
(* times in nanoseconds.                                                   *)
(*                                                                         *)
(* ticker_thread sleeps until next_tick but never advances it: after the   *)
(* first walk the sleep returns at once, so a walk may begin at any time   *)
(* and the model has no clock.                                             *)
(*                                                                         *)
(* Two ways of initialising again are left out. An instance that is in use *)
(* is deinitialised before. And every timer goes through EPF_timeEvent_new *)
(* after EPF_timer_init, as in doc/epf_timer.md: one that was in a list of *)
(* the old instance still says so, and would never be linked again.        *)
(***************************************************************************)
EXTENDS Integers, FiniteSets

CONSTANTS
  TE, NoTimer, Root, MaxTick, Period, CallsPerTick,   \* of TimeEvent; NoTimer
            \* is its NULL
  TickNs,   \* TICK_NS, the nanoseconds of a tick
  Times,    \* the nanoseconds that the clients pass as start and time
  Periods   \* the nanoseconds that they pass as period

(* A started tick counts as one.                                           *)
NsToTicks(ns) == (ns + TickNs - 1) \div TickNs
TicksToNs(ticks) == ticks * TickNs

(* MaxTick and Period hold the ticks of the times that the clients pass.   *)
ASSUME EpfAssumption ==
  /\ IsFiniteSet(TE) /\ NoTimer \notin TE /\ Root \notin TE /\ Root # NoTimer
  /\ MaxTick \in Nat \ {0} /\ Period \subseteq 0 .. MaxTick /\ CallsPerTick \in Nat
  /\ TickNs \in Nat \ {0}
  /\ Times \subseteq Nat \ {0} /\ Periods \subseteq Nat
  /\ \A ns \in Times : NsToTicks(ns) \in 1 .. MaxTick
  /\ \A ns \in Periods : NsToTicks(ns) \in Period

VARIABLES
  link, new_head, cnt, period, is_linked, te_link, walk, te,   \* of TimeEvent
  calls, failed, before, touched, posts, late,
  ticker,       \* the thread: "none"; in its loop, "testing" stop_ticker or
                \* "ticking" behind the test; "returned"; or "two" of them
  ticker_tid,   \* whether the instance names a ticker thread
  stop_ticker,
  deinit,       \* EPF_timer_deinit: "no", "called" or "returned"
  rest          \* ghost: the timers whose callback may still run once after
                \* EPF_timer_deinit returned

Wheel == INSTANCE TimeEvent WITH NULL <- NoTimer

(* The variables of TimeEvent, and those of one walk.                      *)
walk_vars == <<te_link, walk, te, before, touched, posts, late>>
timer_vars == <<link, new_head, is_linked, cnt, period, calls, failed, walk_vars>>

instance == <<ticker, ticker_tid, stop_ticker, deinit>>
epf_vars == <<timer_vars, instance, rest>>

EpfInit ==
  /\ Wheel!Init
  /\ ticker = "none" /\ ticker_tid = FALSE /\ stop_ticker = FALSE
  /\ deinit = "no" /\ rest = TE

-----------------------------------------------------------------------------
(* EPF_timer_init clears the instance and creates the thread, with one     *)
(* scheduling policy or the other, or an assertion stops the program. If   *)
(* the old thread has not returned it finds stop_ticker cleared and goes   *)
(* on: two threads walk the same lists, under a mutex that was initialised *)
(* while one of them may have held it. The model ends there.               *)
Renew ==
  /\ ticker \in {"none", "returned"}
  /\ ticker' = "testing" /\ ticker_tid' = TRUE /\ stop_ticker' = FALSE
  /\ deinit' = "no" /\ rest' = TE
  /\ link' = [n \in TE \cup {Root} |-> NoTimer] /\ new_head' = NoTimer
  /\ cnt' = [t \in TE |-> 0] /\ period' = cnt'
  /\ is_linked' = [t \in TE |-> FALSE]
  /\ te_link' = Root /\ walk' = "idle" /\ te' = NoTimer
  /\ calls' = CallsPerTick /\ touched' = {}
  /\ before' = cnt' /\ posts' = cnt' /\ late' = cnt'
  /\ UNCHANGED failed

InitUnderTicker ==
  /\ ticker \in {"testing", "ticking"}
  /\ ticker' = "two" /\ ticker_tid' = TRUE /\ stop_ticker' = FALSE
  /\ UNCHANGED <<timer_vars, deinit, rest>>

TimerInit ==
  /\ ~failed /\ (ticker = "none" \/ deinit = "returned") /\ ticker # "two"
  /\ \/ Renew \/ InitUnderTicker
     \/ Wheel!AssertFails /\ UNCHANGED <<instance, rest>>

(* A call that finds no ticker thread, before EPF_timer_init and after     *)
(* EPF_timer_deinit, fails an assertion.                                   *)
TimerCall(call) ==
  /\ ticker # "two"
  /\ \/ ticker_tid /\ call
     \/ ~ticker_tid /\ ~failed /\ Wheel!AssertFails
  /\ UNCHANGED <<instance, rest>>

TimerArm(t, start, per) == TimerCall(Wheel!Arm(t, NsToTicks(start), NsToTicks(per)))
TimerDisarm(t) == TimerCall(Wheel!Disarm(t))
TimerRearm(t, time) == TimerCall(Wheel!Rearm(t, NsToTicks(time)))

(* EPF_timer_currentCounter.                                               *)
CurrentCounter(t) == TicksToNs(cnt[t])

(* Faulty form: the thread is joined but not told to stop.                 *)
BugDeinitStop ==
  /\ ~failed /\ ticker_tid /\ ticker # "two"
  /\ ticker_tid' = FALSE /\ deinit' = "called"
  /\ UNCHANGED <<timer_vars, ticker, stop_ticker, rest>>

(* EPF_timer_deinit. The join of a detached thread returns at once.        *)
DeinitStop ==
  /\ ~failed /\ ticker_tid /\ ticker # "two"
  /\ stop_ticker' = TRUE /\ ticker_tid' = FALSE /\ deinit' = "called"
  /\ UNCHANGED <<timer_vars, ticker, rest>>

(* What the walk under way still reaches when the lists are empty.         *)
UnderWay == IF te_link = Root THEN {} ELSE Wheel!Reached(link[te_link])

(* Faulty form: the new list is not emptied.                               *)
BugEmptied == link' = [link EXCEPT ![Root] = NoTimer] /\ UNCHANGED new_head
Emptied == link' = [link EXCEPT ![Root] = NoTimer] /\ new_head' = NoTimer

DeinitClear ==
  /\ ~failed /\ deinit = "called"
  /\ Emptied
  /\ deinit' = "returned"
  /\ rest' = UnderWay \cup ({te} \ {NoTimer})
  /\ UNCHANGED <<is_linked, cnt, period, calls, failed, walk_vars,
                 ticker, ticker_tid, stop_ticker>>

-----------------------------------------------------------------------------
(* ticker_thread tests stop_ticker and sleeps; then it locks the mutex and *)
(* carries a walk to its end, also over the lists of an instance that was  *)
(* deinitialised behind the test.                                          *)
TickerLoop(go_on) ==
  /\ ~failed /\ ticker = "testing" /\ stop_ticker = ~go_on
  /\ ticker' = IF go_on THEN "ticking" ELSE "returned"
  /\ UNCHANGED <<timer_vars, ticker_tid, stop_ticker, deinit, rest>>

TickerSleeps == TickerLoop(TRUE)
TickerReturns == TickerLoop(FALSE)

Walk(step) == ticker = "ticking" /\ step /\ UNCHANGED <<ticker_tid, stop_ticker, deinit>>

WalkEnd == Walk(Wheel!TickEnd) /\ ticker' = "testing" /\ UNCHANGED rest
WalkRemove(t) == Walk(Wheel!TickRemove(t)) /\ UNCHANGED <<ticker, rest>>
WalkExpire(t) == Walk(Wheel!TickExpire(t)) /\ UNCHANGED <<ticker, rest>>
WalkCount(t) == Walk(Wheel!TickCount(t)) /\ UNCHANGED <<ticker, rest>>

(* t->cb(), outside the critical section.                                  *)
Callback ==
  /\ Walk(Wheel!TickPost) /\ UNCHANGED ticker
  /\ rest' = IF deinit = "returned" THEN rest \ {te} ELSE rest

Ticker ==
  \/ TickerSleeps \/ TickerReturns \/ WalkEnd \/ Callback
  \/ \E t \in TE : WalkRemove(t) \/ WalkExpire(t) \/ WalkCount(t)

EpfClient ==
  \E t \in TE :
    \/ \E start \in Times, per \in Periods : TimerArm(t, start, per)
    \/ TimerDisarm(t)
    \/ \E time \in Times : TimerRearm(t, time)

Ended == (failed \/ ticker = "two") /\ UNCHANGED epf_vars

EpfNext == TimerInit \/ EpfClient \/ DeinitStop \/ DeinitClear \/ Ticker \/ Ended

EpfSpec == EpfInit /\ [][EpfNext]_epf_vars

(* The operating system runs the ticker thread.                            *)
EpfFairSpec == EpfSpec /\ WF_epf_vars(Ticker)

-----------------------------------------------------------------------------
EpfTypeOK ==
  /\ Wheel!TypeOK
  /\ ticker \in {"none", "testing", "ticking", "returned", "two"}
  /\ ticker_tid \in BOOLEAN /\ stop_ticker \in BOOLEAN
  /\ deinit \in {"no", "called", "returned"}
  /\ rest \subseteq TE

(* As long as the instance exists its lists are sound, and a walk counts   *)
(* every timer that nobody touches exactly once and runs exactly the       *)
(* callbacks that are due (ticker_thread, arm, disarm, rearm).             *)
WalksExact ==
  /\ EpfTypeOK
  /\ deinit # "returned" => Wheel!ListsSound
  /\ deinit = "no" => Wheel!TickExact

(* EPF_timer_deinit does not wait for its detached thread. Until the       *)
(* instance is initialised again, callbacks that run after it returned are *)
(* those of the walk under way, each once: never those of timers armed     *)
(* since the walk passed, nor of the further walk that a ticker begins     *)
(* which tested stop_ticker before it was set.                             *)
LateCallbacksOfOneWalk == deinit = "returned" /\ walk = "post" => te \in rest

(* "Stop and wait ticker thread." (epf_timer.c:298): when EPF_timer_deinit *)
(* returns, the ticker thread has.                                         *)
DeinitWaits == deinit = "returned" => ticker = "returned"

(* The ticker thread ends although EPF_timer_deinit took the lists away    *)
(* under it, unless an assertion stopped the program or the instance is    *)
(* initialised again before the thread has looked at stop_ticker.          *)
DeinitEndsTicker ==
  (deinit = "called") ~> (ticker \in {"returned", "two"} \/ failed)

(* An armed timer that no call touches any more fires, or loses its        *)
(* instance, whatever other timers are armed, disarmed and rearmed, from   *)
(* callbacks too. This needs the bound CallsPerTick on the calls during    *)
(* one walk: a one-shot timer whose callback arms it again by a tick joins *)
(* the walk under way and expires in it, so if it always does, that walk   *)
(* never ends and no counter above 1 gets down.                            *)
ArmedFires ==
  \A t \in TE : (cnt[t] # 0 /\ t \notin touched) ~>
                  (te = t \/ t \in touched \/ stop_ticker \/ ticker = "two" \/ failed)
=============================================================================
