---------------------------- MODULE RateLimiter ----------------------------
(***************************************************************************)
(* DualWindowRateLimiter of src/src/core/ratelimit/limiter.py: one sliding *)
(* window of requests and one of tokens per (service, tenant), attempts in *)
(* a critical section without awaits, sleeping outside of it.              *)
(*                                                                         *)
(* The two windows of a scope get their events at the same moments, so one *)
(* sequence of [at, tokens] stands for both.  The unit of time is one      *)
(* sleeping slice (1 second); the wall clock and the monotonic one agree.  *)
(***************************************************************************)
EXTENDS Integers, SequencesExt

CONSTANTS
  Requests,    \* calls of acquire
  QuotaScopes, \* (service, tenant) pairs
  MaxRpm,      \* max_rpm: requests per window
  MaxTpm,      \* max_tpm: tokens per window
  Window,      \* window_size, in slices
  MaxScopes,   \* max_scopes
  TokenCosts,  \* estimated_tokens of the calls
  Timeouts,    \* timeout_seconds of the calls
  MaxTime      \* bound of the clock

ASSUME LimiterAssumption == \* limiter.py:70-73
  /\ {MaxRpm, MaxTpm, Window, MaxScopes} \subseteq Nat \ {0}
  /\ TokenCosts \subseteq Nat /\ Timeouts \subseteq Nat /\ MaxTime \in Nat

VARIABLES
  now,       \* the clock
  windows,   \* scope -> its events; only registered scopes are in the domain
  acq,       \* request -> the state of its call
  granted    \* history: scope -> every grant ever made

limiterVars == <<now, windows, acq, granted>>

Event == [at : 0..MaxTime, tokens : TokenCosts]
Acquire == [pc : {"idle", "trying", "granted", "refused", "timed_out"},
            scope : QuotaScopes \cup {"none"}, tokens : TokenCosts \cup {0},
            block : BOOLEAN, deadline : Nat, wake : Nat]
NotCalled == [pc |-> "idle", scope |-> "none", tokens |-> 0,
              block |-> TRUE, deadline |-> 0, wake |-> 0]

LimiterTypeOK ==
  /\ now \in 0..MaxTime
  /\ DOMAIN windows \subseteq QuotaScopes /\ Cardinality(DOMAIN windows) <= MaxScopes
  /\ \A s \in DOMAIN windows : windows[s] \in Seq(Event) /\ Len(windows[s]) <= MaxRpm
  /\ granted \in [QuotaScopes -> Seq(Event)]
  /\ acq \in [Requests -> Acquire]

LimiterInit ==
  /\ now = 0
  /\ windows = [s \in {} |-> <<>>]
  /\ acq = [r \in Requests |-> NotCalled]
  /\ granted = [s \in QuotaScopes |-> <<>>]

SumOf(costs, indices) == MapThenSumSet(LAMBDA i : costs[i], indices)
Ones(events) == [i \in DOMAIN events |-> 1]
TokensOf(events) == [i \in DOMAIN events |-> events[i].tokens]
SumTokens(events) == SumOf(TokensOf(events), DOMAIN events)

\* clean_expired: the events up to the first that has not expired are popped.
FirstLive(events, t) ==
  Min({i \in DOMAIN events : events[i].at > t - Window} \cup {Len(events) + 1})
Live(events, t) == SubSeq(events, FirstLive(events, t), Len(events))

Room(events, tokens) ==
  Len(events) + 1 <= MaxRpm /\ SumTokens(events) + tokens <= MaxTpm

(***************************************************************************)
(* _get_or_create_windows: the windows with scope s registered.  When the  *)
(* table is full, the scopes whose last event has expired are dropped.     *)
(***************************************************************************)
\* Mutant: any scope may go when the table is full.
ExpiredOrNot == DOMAIN windows
Expired == {s \in DOMAIN windows :
  windows[s] = <<>> \/ Last(windows[s]).at <= now - Window}

Registered(s) ==
  IF s \in DOMAIN windows THEN windows
  ELSE LET kept == IF Cardinality(DOMAIN windows) >= MaxScopes
                   THEN DOMAIN windows \ Expired ELSE DOMAIN windows
       IN  [t \in kept \cup {s} |-> IF t = s THEN <<>> ELSE windows[t]]

(***************************************************************************)
(* time_until_available: the time until enough of the oldest events have   *)
(* left the window.  An event costs 1, or its tokens.                      *)
(***************************************************************************)
WaitFor(events, costs, limit, needed) ==
  LET Freed(n) == SumOf(costs, 1..n)
      excess == Freed(Len(costs)) + needed - limit
      enough == {n \in DOMAIN costs : Freed(n) >= excess}
  IN  CASE excess <= 0 -> 0
        [] excess > 0 /\ enough # {} -> events[Min(enough)].at + Window - now
        [] OTHER -> Window

\* Mutant: one wait after the other instead of both at once.
WaitSum(events, tokens) ==
  WaitFor(events, Ones(events), MaxRpm, 1) + WaitFor(events, TokensOf(events), MaxTpm, tokens)
Wait(events, tokens) ==
  Max({WaitFor(events, Ones(events), MaxRpm, 1),
       WaitFor(events, TokensOf(events), MaxTpm, tokens)})

(***************************************************************************)
(* acquire                                                                 *)
(***************************************************************************)
Ended(r, pc) == [acq EXCEPT ![r] = [NotCalled EXCEPT !.pc = pc]]

\* A call that asks for more than the limit is refused before anything else.
Call(r, s, n, d, b) ==
  /\ acq[r].pc = "idle"
  /\ acq' = IF n > MaxTpm THEN Ended(r, "refused") ELSE [acq EXCEPT ![r] =
       [pc |-> "trying", scope |-> s, tokens |-> n, block |-> b,
        deadline |-> IF b THEN now + d ELSE now, wake |-> now]]
  /\ UNCHANGED <<now, windows, granted>>

\* One turn of the loop: the critical section, then grant, refuse or sleep.
Attempt(r) ==
  LET q == acq[r]
      table == Registered(q.scope)
      live == Live(table[q.scope], now)
      wait == Wait(live, q.tokens)
      remaining == q.deadline - now
  IN
  /\ q.pc = "trying" /\ q.wake <= now
  /\ IF Cardinality(DOMAIN table) > MaxScopes
     THEN \* no scope has expired: the new one is refused
       /\ windows' = [s \in DOMAIN table \ {q.scope} |-> windows[s]]
       /\ acq' = Ended(r, "refused")
       /\ UNCHANGED granted
     ELSE IF Room(live, q.tokens)
     THEN LET e == [at |-> now, tokens |-> q.tokens] IN
       /\ windows' = [table EXCEPT ![q.scope] = Append(live, e)]
       /\ granted' = [granted EXCEPT ![q.scope] = Append(@, e)]
       /\ acq' = Ended(r, "granted")
     ELSE
       /\ windows' = [table EXCEPT ![q.scope] = live]
       /\ acq' = IF ~q.block THEN Ended(r, "refused")
                 ELSE IF remaining <= 0 \/ wait > remaining THEN Ended(r, "timed_out")
                 ELSE [acq EXCEPT ![r].wake = now + Min({wait, remaining, 1})]
       /\ UNCHANGED granted
  /\ UNCHANGED now

\* Time passes; a sleeper may wake late when the event loop is busy.
Tick == now < MaxTime /\ now' = now + 1 /\ UNCHANGED <<windows, acq, granted>>

LimiterNext ==
  \/ \E r \in Requests, s \in QuotaScopes, n \in TokenCosts, d \in Timeouts, b \in BOOLEAN :
       Call(r, s, n, d, b)
  \/ \E r \in Requests : Attempt(r)
  \/ Tick

LimiterSpec == LimiterInit /\ [][LimiterNext]_limiterVars

(***************************************************************************)
(* Properties                                                              *)
(***************************************************************************)

\* Over everything ever granted, no window of the configured length holds more
\* requests or tokens of a scope than its limits, although windows are cleaned
\* lazily and the windows of idle scopes are thrown away and created anew.
LimitsHold ==
  \A s \in QuotaScopes, t \in 0..now :
    LET inWindow == {i \in DOMAIN granted[s] :
                       t - Window < granted[s][i].at /\ granted[s][i].at <= t}
    IN  /\ Cardinality(inWindow) <= MaxRpm
        /\ SumOf(TokensOf(granted[s]), inWindow) <= MaxTpm

\* A blocking call gives up before its deadline only if waiting could not have
\* helped: with what is granted by then, the scope has no room at any moment up
\* to and including the deadline.  (action: the moment a call times out)
RefusalsAreJustified ==
  [][\A r \in Requests :
       (acq[r].pc # "timed_out" /\ acq'[r].pc = "timed_out")
         => \A t \in now..acq[r].deadline :
              ~Room(Live(granted[acq[r].scope], t), acq[r].tokens)]_limiterVars
=============================================================================
