-------------------------------- MODULE Timer --------------------------------
(***************************************************************************)
(* The timer service (pattern/timer/timeractor) and its proxies            *)
(* (pattern/timer/timerproxy.h).  The proxies of a core share an actor,    *)
(* SingletonActorEventHandler, which asks the service for the time, at once*)
(* or when a duration has passed, with a GetEvent; a TimeOutEvent answers. *)
(* The service has one request per core: a new one overwrites the old.     *)
(*                                                                         *)
(* onTimeout() is user code, which sets and unsets proxies of its core in  *)
(* the middle of onEvent(TimeOutEvent): that handler takes several steps.  *)
(* The clock never goes back.                                              *)
(***************************************************************************)
EXTENDS Integers, Sequences, FiniteSets, SequencesExt, FiniteSetsExt, Chain

CONSTANTS
  TimerCores, TimerProxies,
  Homes,        \* the core of each proxy that is there: one of these functions
  Settings,     \* bound: what set() and setRepeat() of a core are called with: duration, repeat
  MaxTime,      \* bound: of the clock, which starts at 1
  MaxInFlight,  \* bound: events under way to or from a core
  PushFails     \* cores whose events may meet a lack of memory, at either end

ASSUME TimerAssumption ==
  /\ Settings \in [TimerCores -> SUBSET (Nat \X BOOLEAN)] /\ MaxTime \in Nat /\ MaxInFlight \in Nat
  /\ Homes \subseteq UNION {[ps -> TimerCores] : ps \in SUBSET TimerProxies} /\ PushFails \subseteq TimerCores

VARIABLES
  now, home,
  proxy,                  \* members of the TimerProxies
  timerProxyChain, timedOutTimerProxyChain,
  handler,                \* onEvent(TimeOutEvent): under way, its (last) time, minRemainToTimeOut
  getNowTimeInProgressFlag,
  sendGetEventTryCallback,\* its duration, and whether it is registered
  gets, timeOuts,         \* GetEvents and TimeOutEvents under way
  timerClient,            \* members of the Clients of the service
  serviceCallback         \* whether onCallback() of the service is registered

proxyVars   == <<proxy, timerProxyChain, timedOutTimerProxyChain>>
requestVars == <<getNowTimeInProgressFlag, sendGetEventTryCallback, gets>>
serviceVars == <<timerClient, serviceCallback>>
timerVars   == <<now, home, proxyVars, handler, requestVars, timeOuts, serviceVars>>

Unknown == 0            \* Time()
Forever == MaxTime + 1  \* the largest Time

TimerInit ==
  /\ now = 1 /\ home \in Homes
  /\ proxy = [p \in TimerProxies |-> [startTime |-> Unknown, duration |-> 0, repeatFlag |-> FALSE]]
  /\ timerProxyChain = [c \in TimerCores |-> << >>]
  /\ timedOutTimerProxyChain = [c \in TimerCores |-> << >>]
  /\ handler = [c \in TimerCores |-> [on |-> FALSE, time |-> Unknown, minRemain |-> Forever]]
  /\ getNowTimeInProgressFlag = [c \in TimerCores |-> FALSE]
  /\ sendGetEventTryCallback = [c \in TimerCores |-> [duration |-> 0, registered |-> FALSE]]
  /\ gets = [c \in TimerCores |-> << >>] /\ timeOuts = [c \in TimerCores |-> << >>]
  /\ timerClient = [c \in TimerCores |->
       [startTime |-> Unknown, duration |-> 0, inProgressFlag |-> FALSE, retry |-> FALSE]]
  /\ serviceCallback = FALSE

-----------------------------------------------------------------------------
(* The proxies of a core.                                                  *)

\* SendGetEventTryCallback::onCallback(): push, or come again
Push(c, duration) ==
  \/ /\ gets' = [gets EXCEPT ![c] = Append(@, duration)]
     /\ sendGetEventTryCallback' = [sendGetEventTryCallback EXCEPT ![c].duration = duration]
  \/ /\ c \in PushFails
     /\ sendGetEventTryCallback' = [sendGetEventTryCallback EXCEPT ![c] = [duration |-> duration, registered |-> TRUE]]
     /\ UNCHANGED gets

getTime(c, duration) ==
  IF duration = 0 /\ getNowTimeInProgressFlag[c] THEN UNCHANGED requestVars
  ELSE /\ getNowTimeInProgressFlag' = [getNowTimeInProgressFlag EXCEPT ![c] = (duration = 0)]
       /\ Push(c, duration)

\* User code runs between two handlers of a core or in onTimeout().
MayCall(c) == Len(gets[c]) + Len(timeOuts[c]) < MaxInFlight

\* set() and setRepeat()
set(p, duration, repeat) ==
  LET c == home[p] IN
  /\ MayCall(c)
  /\ timedOutTimerProxyChain' = [timedOutTimerProxyChain EXCEPT ![c] = Without(@, p)]
  /\ timerProxyChain' = [timerProxyChain EXCEPT ![c] = <<p>> \o Without(@, p)]
  /\ proxy' = [proxy EXCEPT ![p] = [startTime |-> Unknown, duration |-> duration, repeatFlag |-> repeat]]
  /\ getTime(c, 0)
  /\ UNCHANGED <<now, home, handler, timeOuts, serviceVars>>

unset(p) ==
  LET c == home[p] IN
  /\ p \in Range(timerProxyChain[c]) \cup Range(timedOutTimerProxyChain[c])
  /\ timedOutTimerProxyChain' = [timedOutTimerProxyChain EXCEPT ![c] = Without(@, p)]
  /\ timerProxyChain' = [timerProxyChain EXCEPT ![c] = Without(@, p)]
  /\ UNCHANGED <<now, home, proxy, handler, requestVars, timeOuts, serviceVars>>

sendAgain(c) ==
  /\ sendGetEventTryCallback[c].registered /\ ~handler[c].on
  /\ gets' = [gets EXCEPT ![c] = Append(@, sendGetEventTryCallback[c].duration)]
  /\ sendGetEventTryCallback' = [sendGetEventTryCallback EXCEPT ![c].registered = FALSE]
  /\ UNCHANGED <<now, home, proxyVars, handler, getNowTimeInProgressFlag, timeOuts, serviceVars>>

\* onEvent(TimeOutEvent), first loop: timedOut() of each proxy, which starts those
\* that are not started, and tells the ones that are due from the others.
TimeOutBegin(c) ==
  LET t       == Head(timeOuts[c])
      mine    == Range(timerProxyChain[c])
      start   == [p \in mine |-> IF proxy[p].startTime = Unknown THEN t ELSE proxy[p].startTime]
      due     == {p \in mine : t - start[p] >= proxy[p].duration}
  IN
  /\ ~handler[c].on /\ timeOuts[c] # << >>
  /\ timeOuts' = [timeOuts EXCEPT ![c] = Tail(@)]
  /\ getNowTimeInProgressFlag' = [getNowTimeInProgressFlag EXCEPT ![c] = FALSE]
  /\ proxy' = [p \in TimerProxies |-> IF p \in mine THEN [proxy[p] EXCEPT !.startTime = start[p]] ELSE proxy[p]]
  /\ timedOutTimerProxyChain' = [timedOutTimerProxyChain EXCEPT ![c] = Kept(timerProxyChain[c], due)]
  /\ timerProxyChain' = [timerProxyChain EXCEPT ![c] = Kept(@, mine \ due)]
  /\ handler' = [handler EXCEPT ![c] =
       [on |-> TRUE, time |-> t,
        minRemain |-> Min({Forever} \cup {proxy[p].duration - (t - start[p]) : p \in mine \ due})]]
  /\ UNCHANGED <<now, home, sendGetEventTryCallback, gets, serviceVars>>

\* Second loop: one proxy that is due, up to the call of onTimeout().
TimeOutNext(c) ==
  LET p == Head(timedOutTimerProxyChain[c])
      d == proxy[p].duration
  IN
  /\ handler[c].on /\ timedOutTimerProxyChain[c] # << >>
  /\ timedOutTimerProxyChain' = [timedOutTimerProxyChain EXCEPT ![c] = Tail(@)]
  /\ IF proxy[p].repeatFlag
     THEN /\ proxy' = [proxy EXCEPT ![p].startTime = handler[c].time]
          /\ timerProxyChain' = [timerProxyChain EXCEPT ![c] = Append(@, p)]
          /\ handler' = [handler EXCEPT ![c].minRemain = Min({@, d})]
     ELSE UNCHANGED <<proxy, timerProxyChain, handler>>
  /\ UNCHANGED <<now, home, requestVars, timeOuts, serviceVars>>

\* Mutant of TimeOutEnd: the proxies that onTimeout() has set are not started.
TimeOutEndUnstarted(c) ==
  /\ handler[c].on /\ timedOutTimerProxyChain[c] = << >>
  /\ handler' = [handler EXCEPT ![c].on = FALSE]
  /\ IF timerProxyChain[c] = << >> THEN UNCHANGED requestVars ELSE getTime(c, handler[c].minRemain)
  /\ UNCHANGED <<now, home, proxyVars, timeOuts, serviceVars>>

\* Third loop, over those that onTimeout() has set, which are in front; getTime().
TimeOutEnd(c) ==
  LET chain == timerProxyChain[c]
      new   == {chain[i] : i \in {j \in DOMAIN chain : \A k \in 1 .. j : proxy[chain[k]].startTime = Unknown}}
      remain == Min({handler[c].minRemain} \cup {proxy[p].duration : p \in new})
  IN
  /\ handler[c].on /\ timedOutTimerProxyChain[c] = << >>
  /\ proxy' = [p \in TimerProxies |-> IF p \in new THEN [proxy[p] EXCEPT !.startTime = handler[c].time] ELSE proxy[p]]
  /\ handler' = [handler EXCEPT ![c].on = FALSE, ![c].minRemain = Forever]
  /\ IF chain = << >> THEN UNCHANGED requestVars ELSE getTime(c, remain)
  /\ UNCHANGED <<now, home, timerProxyChain, timedOutTimerProxyChain, timeOuts, serviceVars>>

-----------------------------------------------------------------------------
(* The service.                                                            *)

\* onEvent(GetEvent)
GetEvent(c) ==
  /\ gets[c] # << >>
  /\ gets' = [gets EXCEPT ![c] = Tail(@)]
  /\ timerClient' = [timerClient EXCEPT ![c] =
       [@ EXCEPT !.startTime = Unknown, !.duration = Head(gets[c]), !.inProgressFlag = TRUE]]
  /\ serviceCallback' = (serviceCallback \/ \A d \in TimerCores : ~timerClient[d].inProgressFlag)
  /\ UNCHANGED <<now, home, proxyVars, handler, getNowTimeInProgressFlag, sendGetEventTryCallback, timeOuts>>

\* onCallback() of the service, which looks at every request; failed are the clients
\* whose TimeOutEvent must be pushed again.
ServiceCallback ==
  LET waiting == {c \in TimerCores : timerClient[c].inProgressFlag}
      start   == [c \in waiting |-> IF timerClient[c].startTime = Unknown THEN now ELSE timerClient[c].startTime]
      due     == {c \in waiting : now - start[c] >= timerClient[c].duration}
  IN
  /\ serviceCallback
  /\ \A c \in due : Len(timeOuts[c]) < MaxInFlight
  /\ serviceCallback' = (waiting # due)
  /\ \E failed \in SUBSET (due \cap PushFails) :
       /\ timeOuts' = [c \in TimerCores |-> IF c \in due \ failed THEN Append(timeOuts[c], now) ELSE timeOuts[c]]
       /\ timerClient' = [c \in TimerCores |->
            IF c \notin waiting THEN timerClient[c]
            ELSE [timerClient[c] EXCEPT !.startTime = start[c], !.inProgressFlag = c \notin due,
                                        !.retry = @ \/ c \in failed]]
  /\ UNCHANGED <<now, home, proxyVars, handler, requestVars>>

\* onCallback() of a client: currentUtcDateTime is the time of the last callback of
\* the service, which may be any since the push that failed
TimeOutAgain(c) ==
  /\ timerClient[c].retry
  /\ timerClient' = [timerClient EXCEPT ![c].retry = FALSE]
  /\ timeOuts' = [timeOuts EXCEPT ![c] = Append(@, now)]
  /\ UNCHANGED <<now, home, proxyVars, handler, requestVars, serviceCallback>>

Tick ==
  /\ now < MaxTime
  /\ now' = now + 1
  /\ UNCHANGED <<home, proxyVars, handler, requestVars, timeOuts, serviceVars>>

TimerNext ==
  \/ \E p \in DOMAIN home :
       \/ \E s \in Settings[home[p]] : set(p, s[1], s[2])
       \/ unset(p)
  \/ \E c \in TimerCores :
       sendAgain(c) \/ TimeOutBegin(c) \/ TimeOutNext(c) \/ TimeOutEnd(c) \/ GetEvent(c) \/ TimeOutAgain(c)
  \/ ServiceCallback \/ Tick

TimerSpec == TimerInit /\ [][TimerNext]_timerVars

-----------------------------------------------------------------------------
(* Properties.                                                             *)

\* The durations that were asked for and not answered yet, in the order in which
\* the service sees them; each overwrites those before.
Asked(c) ==
  (IF timerClient[c].inProgressFlag THEN <<timerClient[c].duration>> ELSE << >>) \o gets[c] \o
  (IF sendGetEventTryCallback[c].registered THEN <<sendGetEventTryCallback[c].duration>> ELSE << >>)

Answered(c) == timeOuts[c] # << >> \/ timerClient[c].retry

\* A timer that is set is never forgotten: a TimeOutEvent is under way to its core,
\* or the last request of the core is for the time as of now, or for a time no later
\* than that at which the first of its timers is due; and while a request waits, the
\* service is called.
TimersCovered ==
  /\ \A c \in TimerCores :
       ~handler[c].on /\ timerProxyChain[c] # << >> /\ ~Answered(c) =>
         /\ Asked(c) # << >>
         /\ \A p \in Range(timerProxyChain[c]) :
              \/ Last(Asked(c)) = 0
              \/ /\ proxy[p].startTime # Unknown
                 /\ handler[c].time + Last(Asked(c)) <= proxy[p].startTime + proxy[p].duration
  /\ (\E c \in TimerCores : timerClient[c].inProgressFlag) => serviceCallback
=============================================================================
