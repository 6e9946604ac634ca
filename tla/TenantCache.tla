---------------------------- MODULE TenantCache ----------------------------
(***************************************************************************)
(* BoundedTenantCache of src/src/core/tenant/cache.py: a bounded LRU cache *)
(* with pinned entries, filled by one creator per key while other callers  *)
(* wait on its future.  No await happens inside a critical section, so the *)
(* asyncio lock is never contended and code between two awaits is one step.*)
(*                                                                         *)
(* A caller makes one call of get_or_set; the value it creates is named    *)
(* after it.  A user pins a key, works with the value and unpins the key.  *)
(***************************************************************************)
EXTENDS Naturals, SequencesExt

CONSTANTS
  Callers,   \* calls of get_or_set
  Users,     \* holders of a pin
  Keys,      \* cache keys, one per tenant
  Capacity,  \* max_capacity
  NoCall     \* neither a caller nor a key: no future in flight, no pin

ASSUME CacheAssumption ==
  /\ Capacity \in Nat \ {0} \* cache.py:32
  /\ IsFiniteSet(Users)
  /\ NoCall \notin Callers \cup Keys

VARIABLES
  entries,   \* _cache: from least to most recently used
  inflight,  \* _inflight: key -> the caller whose future is registered
  call,      \* caller -> [pc, key, of], of: the creator whose future is awaited
  future,    \* creator -> the state of the future it registered
  pinned,    \* user -> the pin it holds
  strayed    \* keys whose pin count a foreign unpin has lowered

cacheVars == <<entries, inflight, call, future, pinned, strayed>>

CallPCs == {"idle", "waiting", "creating", "returned", "raised", "cancelled"}
NoPin == [key |-> NoCall, value |-> NoCall, cleared |-> FALSE]

CacheTypeOK ==
  /\ entries \in Seq([key : Keys, value : Callers, refs : 0..Cardinality(Users)])
  /\ Len(entries) <= Capacity
  /\ \A i, j \in DOMAIN entries : entries[i].key = entries[j].key => i = j
  /\ inflight \in [Keys -> Callers \cup {NoCall}]
  /\ call \in [Callers -> [pc : CallPCs, key : Keys \cup {NoCall}, of : Callers \cup {NoCall}]]
  /\ future \in [Callers -> {"none", "pending", "result", "exception", "cancelled"}]
  /\ pinned \in [Users -> [key : Keys \cup {NoCall}, value : Callers \cup {NoCall},
                            cleared : BOOLEAN]]
  /\ strayed \subseteq Keys

CacheInit ==
  /\ entries = <<>>
  /\ inflight = [k \in Keys |-> NoCall]
  /\ call = [c \in Callers |-> [pc |-> "idle", key |-> NoCall, of |-> NoCall]]
  /\ future = [c \in Callers |-> "none"]
  /\ pinned = [u \in Users |-> NoPin]
  /\ strayed = {}

At(key) == {i \in DOMAIN entries : entries[i].key = key}
Place(key) == CHOOSE i \in At(key) : TRUE
Entry(key) == entries[Place(key)]
\* move_to_end, with the entry as it is then.
ToEnd(key, entry) == Append(RemoveAt(entries, Place(key)), entry)

(***************************************************************************)
(* _pop_lru_unlocked: what remains after the pop, if anything can go.      *)
(***************************************************************************)
\* Mutant: the reference count is not looked at.
UnpinnedOrNot == DOMAIN entries
Unpinned == {i \in DOMAIN entries : entries[i].refs = 0}
Full == Len(entries) >= Capacity
CanPop == ~Full \/ Unpinned # {}
\* Mutant: the second pop is left out, another creator may have filled the cache.
PoppedNever == entries
Popped == IF Full THEN RemoveAt(entries, Min(Unpinned)) ELSE entries

(***************************************************************************)
(* get_or_set                                                              *)
(***************************************************************************)
\* The value is there: it becomes the most recently used.
Hit(c, k) ==
  /\ call[c].pc = "idle" /\ At(k) # {}
  /\ entries' = ToEnd(k, Entry(k))
  /\ call' = [call EXCEPT ![c] = [pc |-> "returned", key |-> k, of |-> NoCall]]
  /\ UNCHANGED <<inflight, future, pinned, strayed>>

\* Another call is creating the value.  A future that was cancelled under its
\* creator is still registered and raises in whoever awaits it.
Join(c, k) ==
  /\ call[c].pc = "idle" /\ At(k) = {} /\ inflight[k] # NoCall
  /\ call' = [call EXCEPT ![c] =
       [pc |-> IF future[inflight[k]] = "cancelled" THEN "cancelled" ELSE "waiting",
        key |-> k, of |-> inflight[k]]]
  /\ UNCHANGED <<entries, inflight, future, pinned, strayed>>

\* A miss: register the future, make room, release what went and start the
\* factory.  With every entry pinned the call raises and unregisters at once.
Create(c, k) ==
  /\ call[c].pc = "idle" /\ At(k) = {} /\ inflight[k] = NoCall
  /\ IF CanPop
     THEN /\ entries' = Popped
          /\ inflight' = [inflight EXCEPT ![k] = c]
          /\ future' = [future EXCEPT ![c] = "pending"]
          /\ call' = [call EXCEPT ![c] = [pc |-> "creating", key |-> k, of |-> c]]
     ELSE /\ future' = [future EXCEPT ![c] = "exception"]
          /\ call' = [call EXCEPT ![c] = [pc |-> "raised", key |-> k, of |-> c]]
          /\ UNCHANGED <<entries, inflight>>
  /\ UNCHANGED <<pinned, strayed>>

\* set_result and set_exception, unless a waiter has cancelled the future.
Settled(c, how) == IF future[c] = "pending" THEN [future EXCEPT ![c] = how] ELSE future

\* The waiters of c's future resume with it.
Resumed(c, how) ==
  [d \in Callers |->
     CASE d = c -> [call[d] EXCEPT !.pc = how]
       [] d # c /\ call[d].pc = "waiting" /\ call[d].of = c -> [call[d] EXCEPT !.pc = how]
       [] OTHER -> call[d]]

\* except Exception: unregister the future and pass the exception on.
\* Mutant: the future is unregistered but nobody is told.
FailQuietly(c) ==
  /\ inflight' = [inflight EXCEPT ![call[c].key] = NoCall]
  /\ call' = [call EXCEPT ![c].pc = "raised"]
  /\ UNCHANGED <<entries, future, pinned, strayed>>
Fail(c) ==
  /\ inflight' = [inflight EXCEPT ![call[c].key] = NoCall]
  /\ future' = Settled(c, "exception")
  /\ call' = Resumed(c, "raised")
  /\ UNCHANGED <<entries, pinned, strayed>>

FactoryRaises(c) == call[c].pc = "creating" /\ Fail(c)

\* The factory is through: make room again, insert, wake the waiters.  If every
\* entry has been pinned meanwhile the new value is dropped.
FactoryReturns(c) ==
  /\ call[c].pc = "creating"
  /\ IF CanPop
     THEN /\ entries' = Append(Popped, [key |-> call[c].key, value |-> c, refs |-> 0])
          /\ inflight' = [inflight EXCEPT ![call[c].key] = NoCall]
          /\ future' = Settled(c, "result")
          /\ call' = Resumed(c, "returned")
          /\ UNCHANGED <<pinned, strayed>>
     ELSE Fail(c)

\* The creating task is cancelled: CancelledError is no Exception, so the
\* future stays registered and pending.
CancelCreator(c) ==
  /\ call[c].pc = "creating"
  /\ call' = [call EXCEPT ![c].pc = "cancelled"]
  /\ UNCHANGED <<entries, inflight, future, pinned, strayed>>

\* A waiting task is cancelled and takes the shared future with it: every
\* waiter is cancelled.  The creator goes on.
CancelWaiter(c) ==
  /\ call[c].pc = "waiting" /\ future[call[c].of] = "pending"
  /\ future' = [future EXCEPT ![call[c].of] = "cancelled"]
  /\ call' = [d \in Callers |->
                IF call[d].pc = "waiting" /\ call[d].of = call[c].of
                THEN [call[d] EXCEPT !.pc = "cancelled"] ELSE call[d]]
  /\ UNCHANGED <<entries, inflight, pinned, strayed>>

(***************************************************************************)
(* pin, unpin, clear                                                       *)
(***************************************************************************)
Pin(u, k) ==
  /\ pinned[u] = NoPin /\ At(k) # {}
  /\ entries' = ToEnd(k, [Entry(k) EXCEPT !.refs = @ + 1])
  /\ pinned' = [pinned EXCEPT ![u] = [key |-> k, value |-> Entry(k).value, cleared |-> FALSE]]
  /\ UNCHANGED <<inflight, call, future, strayed>>

\* unpin goes by the key: after a clear it lowers the count of whatever was
\* created under the key since.
Unpin(u) ==
  /\ pinned[u] # NoPin
  /\ LET k == pinned[u].key IN
     /\ entries' = [i \in DOMAIN entries |->
          IF entries[i].key = k /\ entries[i].refs > 0
          THEN [entries[i] EXCEPT !.refs = @ - 1] ELSE entries[i]]
     /\ strayed' = IF At(k) # {} /\ Entry(k).value # pinned[u].value
                   THEN strayed \cup {k} ELSE strayed
  /\ pinned' = [pinned EXCEPT ![u] = NoPin]
  /\ UNCHANGED <<inflight, call, future>>

\* clear drops pinned entries too and leaves the calls in flight alone.
Clear ==
  /\ entries # <<>>
  /\ entries' = <<>>
  /\ pinned' = [u \in Users |-> IF pinned[u] = NoPin THEN NoPin
                                ELSE [pinned[u] EXCEPT !.cleared = TRUE]]
  /\ UNCHANGED <<inflight, call, future, strayed>>

CacheNext ==
  \/ \E c \in Callers, k \in Keys : Hit(c, k) \/ Join(c, k) \/ Create(c, k)
  \/ \E c \in Callers :
       FactoryReturns(c) \/ FactoryRaises(c) \/ CancelCreator(c) \/ CancelWaiter(c)
  \/ \E u \in Users, k \in Keys : Pin(u, k)
  \/ \E u \in Users : Unpin(u)
  \/ Clear

CacheSpec == CacheInit /\ [][CacheNext]_cacheVars

(***************************************************************************)
(* Properties                                                              *)
(***************************************************************************)

\* While a request holds a pin, the value it works with stays in the cache and
\* is not released under it, whatever is created beside it; only clear, or an
\* unpin that outlived a clear and hit the wrong entry, takes it away.
PinnedEntriesStay ==
  \A u \in Users :
    (pinned[u] # NoPin /\ ~pinned[u].cleared /\ pinned[u].key \notin strayed)
      => \E i \in DOMAIN entries :
           /\ entries[i].key = pinned[u].key /\ entries[i].value = pinned[u].value
           /\ entries[i].refs > 0

\* Nobody waits for ever: a call that waits has a creator that is still at
\* work.  The exception is a creator whose task was cancelled (cache.py:79
\* catches no CancelledError): its key stays blocked from then on.
WaitersHaveACreator ==
  \A c \in Callers :
    call[c].pc = "waiting"
      => /\ future[call[c].of] = "pending"
         /\ call[call[c].of].pc \in {"creating", "cancelled"}
=============================================================================
