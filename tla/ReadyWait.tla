----------------------------- MODULE ReadyWait ------------------------------
(***************************************************************************)
(* Lium.wait_ready and Lium.wait_for_port (src/lium/sdk/client.py): poll   *)
(* the pod list until the pod runs, fails, vanishes, was never there, or   *)
(* the time is up; then, with ready_port, until its port answers.  A       *)
(* PodStartError is raised only after one more request, for the pod's      *)
(* events (pod_failure_cause).  The polls are those of the adaptive        *)
(* schedule, not of a poll_interval that the caller gives.                 *)
(*                                                                         *)
(* Seconds since the wait began; the clock stops at Horizon, past every    *)
(* constant it is compared with.  A call of ps(), of pod_events or a probe  *)
(* of the port takes 0..RequestTime seconds, with its own repeats.         *)
(***************************************************************************)
EXTENDS Integers

CONSTANTS
  Timeouts,                 \* the values of timeout; NoTimeout for None
  NoTimeout,
  Grace,                    \* MISSING_GRACE_SECONDS
  FirstPoll, FirstWindow,   \* FIRST_POLL_SECONDS, FIRST_POLL_WINDOW_SECONDS
  FastPoll, FastWindow,     \* FAST_POLL_SECONDS, FAST_POLL_WINDOW_SECONDS
  SlowPoll,                 \* SLOW_POLL_SECONDS
  MaxBackoff,               \* 30
  RetryAfters,              \* values of Retry-After, 0 for none
  PortPoll, PortTimeout,    \* wait_for_port's poll_interval and own timeout
  RequestTime, Horizon

ASSUME ReadyAssumption ==
  /\ {Grace, FirstPoll, FastPoll, SlowPoll, MaxBackoff, PortPoll, PortTimeout, Horizon} \subseteq Nat \ {0}
  /\ {FirstWindow, FastWindow, RequestTime} \subseteq Nat
  /\ FirstPoll <= SlowPoll /\ FastPoll <= SlowPoll
  /\ RetryAfters \subseteq Nat /\ Timeouts \subseteq 0..Horizon \cup {NoTimeout} /\ NoTimeout \notin Nat

VARIABLES
  start,     \* server: hidden, starting, running, dead or vanished
  port,      \* server: the port answers
  clock,     \* time.time() - start
  timeout,   \* the caller's timeout
  wantsPort, \* ready_port is given
  wait,      \* top, listing, throttled, missing, seen, port, cause, answered
  elapsed,   \* as read at the top of the loop
  lastSeen,  \* last_seen is set
  missing,   \* missing_polls is not 0
  throttled, \* consecutive 429s, up to the ones that make a difference
  deadline,  \* wait_for_port's
  answer     \* pod, None, the PodStartError (at cause: to be raised), or ps()'s own error

readyVars == <<start, port, clock, timeout, wantsPort, wait, elapsed, lastSeen, missing,
               throttled, deadline, answer>>

StartErrors == {"disappeared", "neverListed", "willNotStart"}
Answers ==
  {"waiting", "pod", "none", "raised", "disappeared", "neverListed", "willNotStart"}
TopBackoff == 3

(* With: what was seen is not missing too.                                 *)
ReadyTypeOK ==
  /\ start \in {"hidden", "starting", "running", "dead", "vanished"} /\ port \in BOOLEAN
  /\ clock \in 0..Horizon /\ elapsed \in 0..Horizon /\ deadline \in 0..Horizon
  /\ timeout \in Timeouts /\ wantsPort \in BOOLEAN
  /\ wait \in {"top", "listing", "throttled", "missing", "seen", "port", "cause", "answered"}
  /\ lastSeen \in BOOLEAN /\ missing \in BOOLEAN /\ throttled \in 0..TopBackoff
  /\ answer \in Answers /\ (wait \in {"cause", "answered"} <=> answer # "waiting")
  /\ wait = "cause" => answer \in StartErrors
  /\ missing /\ lastSeen => wait = "missing" \/ answer = "disappeared"

ReadyInit ==
  /\ start \in {"hidden", "starting"} /\ port = FALSE
  /\ clock = 0 /\ elapsed = 0 /\ deadline = 0 /\ timeout \in Timeouts
  /\ wantsPort \in BOOLEAN /\ wait = "top" /\ lastSeen = FALSE /\ missing = FALSE
  /\ throttled = 0 /\ answer = "waiting"

-----------------------------------------------------------------------------
Least(a, b) == IF a <= b THEN a ELSE b
Most(a, b) == IF a >= b THEN a ELSE b
After(seconds) == Least(clock + seconds, Horizon)
(* Faulty: a timeout of 0 is taken for none.                               *)
TimeIsUpFaulty(t) == timeout # NoTimeout /\ timeout # 0 /\ t >= timeout
TimeIsUp(t) == timeout # NoTimeout /\ t >= timeout

(* poll_delay of the adaptive schedule.                                    *)
PollDelay ==
  IF elapsed < FirstWindow THEN FirstPoll ELSE IF elapsed < FastWindow THEN FastPoll ELSE SlowPoll

SameServerPod == UNCHANGED <<start, port>>
SameWait == UNCHANGED <<timeout, wantsPort>>
Answer(a) == wait' = "answered" /\ answer' = a
StartFails(e) == e \in StartErrors /\ wait' = "cause" /\ answer' = e
Step(from, to) == wait = from /\ wait' = to /\ UNCHANGED answer

(* The top of the loop: a 429 is no absence.                               *)
Absent == ~lastSeen /\ missing /\ throttled = 0 /\ clock >= Grace
Top ==
  /\ wait = "top" /\ elapsed' = clock
  /\ IF ~TimeIsUp(clock) THEN Step("top", "listing")
     ELSE IF Absent THEN StartFails("neverListed") ELSE Answer("none")
  /\ SameServerPod /\ SameWait /\ UNCHANGED <<clock, lastSeen, missing, throttled, deadline>>

(* ps(): the row as it is when the server answers, a 429, or another error,*)
(* which ends the wait.                                                    *)
Listing ==
  /\ wait = "listing" /\ \E d \in 0..RequestTime : clock' = After(d)
  /\ \/ /\ start \in {"hidden", "vanished"} /\ Step("listing", "missing")
        /\ throttled' = 0 /\ missing' = TRUE /\ UNCHANGED lastSeen
     \/ /\ start \in {"starting", "running", "dead"} /\ throttled' = 0
        /\ missing' = FALSE /\ lastSeen' = TRUE
        /\ CASE start = "starting" -> Step("listing", "seen")
             [] start = "dead" -> StartFails("willNotStart")
             [] start = "running" /\ ~wantsPort -> Answer("pod")
             [] start = "running" /\ wantsPort ->
                  IF TimeIsUp(clock') THEN Answer("none") ELSE Step("listing", "port")
     \/ /\ Step("listing", "throttled") /\ throttled' = Least(throttled + 1, TopBackoff)
        /\ UNCHANGED <<missing, lastSeen>>
     \/ Answer("raised") /\ UNCHANGED <<missing, lastSeen, throttled>>
  /\ deadline' = IF timeout = NoTimeout THEN Least(clock' + PortTimeout, Horizon) ELSE timeout
  /\ SameServerPod /\ SameWait /\ UNCHANGED elapsed

(* The back-off after a 429, cut to what is left of the timeout.           *)
(* Faulty: not cut.                                                        *)
LeftFaulty(delay) == delay
Left(delay) == IF timeout = NoTimeout THEN delay ELSE Least(delay, Most(0, timeout - clock))
Throttled ==
  /\ Step("throttled", "top")
  /\ \E retryAfter \in RetryAfters :
       clock' = After(Left(Most(retryAfter, Least(PollDelay * 2^throttled, MaxBackoff))))
  /\ SameServerPod /\ SameWait /\ UNCHANGED <<elapsed, lastSeen, missing, throttled, deadline>>

(* The row is not there: it was before, or the grace is over, or not yet.  *)
Missing ==
  /\ wait = "missing"
  /\ IF lastSeen THEN StartFails("disappeared") /\ UNCHANGED clock
     ELSE IF elapsed >= Grace THEN StartFails("neverListed") /\ UNCHANGED clock
     ELSE Step("missing", "top") /\ clock' = After(PollDelay)
  /\ SameServerPod /\ SameWait /\ UNCHANGED <<elapsed, lastSeen, missing, throttled, deadline>>

Seen ==
  /\ Step("seen", "top") /\ clock' = After(PollDelay)
  /\ SameServerPod /\ SameWait /\ UNCHANGED <<elapsed, lastSeen, missing, throttled, deadline>>

(* pod_failure_cause: one request for the pod's events, which never raises,*)
(* and then the error that it is the cause of.                             *)
Cause ==
  /\ wait = "cause" /\ wait' = "answered" /\ UNCHANGED answer
  /\ \E d \in 0..RequestTime : clock' = After(d)
  /\ SameServerPod /\ SameWait /\ UNCHANGED <<elapsed, lastSeen, missing, throttled, deadline>>

(* wait_for_port: probe, look at the time, sleep.  A probe may fail.       *)
Port ==
  /\ wait = "port"
  /\ \E d \in 0..RequestTime :
       \/ port /\ Answer("pod") /\ clock' = After(d)
       \/ IF After(d) >= deadline THEN Answer("none") /\ clock' = After(d)
          ELSE Step("port", "port") /\ clock' = After(d + PortPoll)
  /\ SameServerPod /\ SameWait /\ UNCHANGED <<elapsed, lastSeen, missing, throttled, deadline>>

(* The server.                                                             *)
Starts(from, to) ==
  /\ wait # "answered" /\ start \in from /\ start' = to
  /\ UNCHANGED <<port, clock, wait, elapsed, lastSeen, missing, throttled, deadline, answer>>
  /\ SameWait
Appear == Starts({"hidden"}, "starting")
Run == Starts({"starting"}, "running")
Die == Starts({"starting", "running"}, "dead")
RowVanishes == Starts({"hidden", "starting", "running", "dead"}, "vanished")
Opens ==
  /\ wait # "answered" /\ start = "running" /\ ~port /\ port' = TRUE
  /\ UNCHANGED <<start, clock, wait, elapsed, lastSeen, missing, throttled, deadline, answer>>
  /\ SameWait

WaitStep == Top \/ Listing \/ Throttled \/ Missing \/ Seen \/ Cause \/ Port
ReadyNext == WaitStep \/ Appear \/ Run \/ Die \/ RowVanishes \/ Opens
WaitFairness == WF_readyVars(WaitStep)
ReadySpec == ReadyInit /\ [][ReadyNext]_readyVars /\ WaitFairness

-----------------------------------------------------------------------------
(* The wait outlives its timeout by one request and one poll at most, a    *)
(* PodStartError by a second request, the one for the cause; whatever      *)
(* Retry-After the server asks for (wait_ready, pod_failure_cause).        *)
CauseTime == IF wait = "answered" /\ answer \in StartErrors THEN RequestTime ELSE 0
TimeoutIsKept ==
  timeout # NoTimeout /\ clock < Horizon
    => clock <= timeout + Most(SlowPoll, PortPoll) + RequestTime + CauseTime

(* A wait with a timeout ends, whatever the pod and the API do.            *)
WaitEnds == timeout # NoTimeout ~> wait = "answered"

(* Both: a timeout that is given is kept.                                  *)
WaitKeepsItsTimeout == [][TimeoutIsKept']_clock /\ WaitEnds
=============================================================================
