------------------------- MODULE QueryServiceProofs -------------------------
(***************************************************************************)
(* Theorems about QueryService, for any number of questions, sessions,     *)
(* owners and processes and any size of the cache.                         *)
(*                                                                         *)
(* Messages are written by Commit alone, and taken away by the deletion of *)
(* a knowledge base alone.  Lemma Moves reduces the other actions to what  *)
(* they do to one request; the invariants are proved against it.           *)
(***************************************************************************)
EXTENDS QueryService, SequenceTheorems, FiniteSetTheorems, TLAPS

(***************************************************************************)
(* Sequences and numbers                                                   *)
(***************************************************************************)

\* A frame at the end of a stream.
LEMMA AppendedFrame ==
  ASSUME NEW S, NEW frames \in Seq(S), NEW frame \in S
  PROVE  /\ Append(frames, frame) \in Seq(S)
         /\ Len(Append(frames, frame)) = Len(frames) + 1
         /\ Last(Append(frames, frame)) = frame
         /\ \A x : x \in Range(Append(frames, frame)) <=> x \in Range(frames) \/ x = frame
  <1> DEFINE longer == Append(frames, frame)
             n == Len(frames)
  <1>1. /\ longer \in Seq(S) /\ Len(longer) = n + 1 /\ longer[n + 1] = frame
        /\ \A i \in 1 .. n : longer[i] = frames[i]
        /\ n \in Nat
    OBVIOUS
  <1>2. DOMAIN frames = 1 .. n /\ DOMAIN longer = 1 .. n + 1
    BY <1>1, LenProperties
  <1>3. ASSUME NEW x
        PROVE  x \in Range(longer) <=> x \in Range(frames) \/ x = frame
    <2>1. x \in Range(longer) <=> \E i \in 1 .. n + 1 : longer[i] = x
      BY <1>2 DEF Range
    <2>2. x \in Range(frames) <=> \E i \in 1 .. n : frames[i] = x
      BY <1>2 DEF Range
    <2>3. \A i : i \in 1 .. n + 1 <=> i \in 1 .. n \/ i = n + 1
      BY <1>1
    <2> HIDE DEF longer, n
    <2> QED
      BY <1>1, <2>1, <2>2, <2>3
  <1> QED
    BY <1>1, <1>3 DEF Last

\* A set of numbers that has a bound has a greatest one.
LEMMA MaxOfBounded ==
  ASSUME NEW S \in SUBSET Nat, S # {}, NEW n \in Nat, \A x \in S : x <= n
  PROVE  Max(S) \in S /\ \A x \in S : x <= Max(S)
  <1> DEFINE bounds == { m \in Nat : \A x \in S : x <= m }
             Less == { xy \in Nat \X Nat : xy[1] < xy[2] }
  <1>1. PICK m \in bounds : \A k \in bounds : <<k, m>> \notin Less
    <2>1. bounds \subseteq Nat /\ bounds # {}
      OBVIOUS
    <2>2. IsWellFoundedOn(Less, Nat)
      BY NatLessThanWellFounded DEF OpToRel
    <2> HIDE DEF bounds, Less
    <2> QED
      BY <2>1, <2>2, WFMin
  <1>2. ASSUME NEW k \in bounds
        PROVE  m <= k
    <2>1. k \in Nat /\ m \in Nat
      OBVIOUS
    <2>2. \A i, j \in Nat : i < j => <<i, j>> \in Less
      OBVIOUS
    <2>3. <<k, m>> \notin Less
      BY <1>1
    <2> HIDE DEF bounds, Less
    <2> QED
      BY <2>1, <2>2, <2>3
  <1>3. m \in S
    <2> SUFFICES ASSUME m \notin S
                 PROVE  FALSE
      OBVIOUS
    <2>1. m \in Nat /\ \A x \in S : x \in Nat /\ x <= m /\ x # m
      OBVIOUS
    <2>2. m # 0
      <3>1. PICK x \in S : TRUE
        OBVIOUS
      <3> QED
        BY <2>1, <3>1
    <2>3. m - 1 \in Nat /\ \A x \in S : x <= m - 1
      BY <2>1, <2>2
    <2>4. m - 1 \in bounds
      BY <2>3
    <2> QED
      BY <1>2, <2>1, <2>4
  <1>4. \E x \in S : \A y \in S : x >= y
    BY <1>3
  <1> HIDE DEF bounds
  <1>5. Max(S) \in S /\ \A y \in S : Max(S) >= y
    BY <1>4 DEF Max
  <1> QED
    BY <1>5

(***************************************************************************)
(* The rows of a session in the order of their stamps                      *)
(***************************************************************************)

StampedOnce(rows) == \A m, n \in rows : m.at = n.at => m = n

\* How many rows are as old as this one or older: its place in the history.
Place(rows, m) == Cardinality({ n \in rows : n.at <= m.at })

LEMMA Places ==
  ASSUME NEW rows \in SUBSET Message, IsFiniteSet(rows), StampedOnce(rows)
  PROVE  /\ Cardinality(rows) \in Nat
         /\ \A m \in rows : Place(rows, m) \in 1 .. Cardinality(rows)
         /\ \A m, n \in rows : Place(rows, m) = Place(rows, n) => m = n
         /\ \A i \in 1 .. Cardinality(rows) : \E m \in rows : Place(rows, m) = i
  <1> DEFINE size == Cardinality(rows)
             upto(m) == { n \in rows : n.at <= m.at }
  <1>1. size \in Nat
    BY FS_CardinalityType
  <1>2. ASSUME NEW m \in rows
        PROVE  /\ IsFiniteSet(upto(m)) /\ Place(rows, m) = Cardinality(upto(m))
               /\ Place(rows, m) \in 1 .. size
    <2>1. upto(m) \in SUBSET rows /\ Place(rows, m) = Cardinality(upto(m))
      BY DEF Place
    <2>2. m \in upto(m)
      BY DEF Message
    <2> HIDE DEF upto
    <2>3. IsFiniteSet(upto(m)) /\ Cardinality(upto(m)) <= size
      BY <2>1, FS_Subset
    <2>4. Cardinality(upto(m)) \in Nat /\ Cardinality(upto(m)) # 0
      BY <2>2, <2>3, FS_CardinalityType, FS_EmptySet
    <2> QED
      BY <1>1, <2>1, <2>3, <2>4
  <1>3. ASSUME NEW m \in rows, NEW n \in rows, m.at < n.at
        PROVE  Place(rows, m) # Place(rows, n)
    <2>1. m.at \in Nat /\ n.at \in Nat /\ \A k \in rows : k.at \in Nat
      BY DEF Message
    <2>2. upto(m) \in SUBSET upto(n) /\ n \in upto(n) /\ n \notin upto(m)
      BY <1>3, <2>1
    <2> HIDE DEF upto
    <2>3. Cardinality(upto(m)) # Cardinality(upto(n))
      BY <1>2, <2>2, FS_Subset
    <2> QED
      BY <1>2, <2>3
  <1>4. ASSUME NEW m \in rows, NEW n \in rows, Place(rows, m) = Place(rows, n)
        PROVE  m = n
    <2>1. m.at \in Nat /\ n.at \in Nat
      BY DEF Message
    <2>2. m.at = n.at
      BY <1>3, <1>4, <2>1
    <2> QED
      BY <2>2 DEF StampedOnce
  <1> DEFINE place == [m \in rows |-> Place(rows, m)]
  <1>5. place \in Injection(rows, 1 .. size)
    BY <1>2, <1>4 DEF Injection, IsInjective
  <1>6. place \in Surjection(rows, 1 .. size)
    <2>1. IsFiniteSet(1 .. size) /\ Cardinality(1 .. size) = size
      BY <1>1, FS_Interval
    <2> HIDE DEF place
    <2> QED
      BY <1>5, <2>1, FS_Injection
  <1>7. \A i \in 1 .. size : \E m \in rows : Place(rows, m) = i
    BY <1>6 DEF Surjection
  <1> QED
    BY <1>1, <1>2, <1>4, <1>7

LEMMA SortedRows ==
  ASSUME NEW rows \in SUBSET Message, IsFiniteSet(rows), StampedOnce(rows)
  PROVE  /\ Sorted(rows) \in Seq(rows)
         /\ Len(Sorted(rows)) = Cardinality(rows)
         /\ \A i \in 1 .. Cardinality(rows) : Place(rows, Sorted(rows)[i]) = i
  <1> DEFINE size == Cardinality(rows)
  <1>1. size \in Nat
    BY Places
  <1>2. ASSUME NEW i \in 1 .. size
        PROVE  Sorted(rows)[i] \in rows /\ Place(rows, Sorted(rows)[i]) = i
    <2>1. Sorted(rows)[i] = CHOOSE m \in rows : Place(rows, m) = i
      BY DEF Sorted, Place
    <2>2. \E m \in rows : Place(rows, m) = i
      BY Places
    <2> QED
      BY <2>1, <2>2
  <1>3. Sorted(rows) \in [1 .. size -> rows]
    BY <1>2 DEF Sorted
  <1> HIDE DEF size
  <1>4. Sorted(rows) \in Seq(rows) /\ Len(Sorted(rows)) = size
    BY <1>1, <1>3, IsASeq
  <1> QED
    BY <1>2, <1>4 DEF size

\* A message later than all others comes last.
LEMMA SortedGrows ==
  ASSUME NEW rows \in SUBSET Message, IsFiniteSet(rows), StampedOnce(rows),
         NEW m \in Message, \A n \in rows : n.at < m.at
  PROVE  /\ IsFiniteSet(rows \cup {m}) /\ StampedOnce(rows \cup {m})
         /\ IsPrefix(Sorted(rows), Sorted(rows \cup {m}))
  <1> DEFINE more == rows \cup {m}
             size == Cardinality(rows)
             old == Sorted(rows)
             new == Sorted(more)
  <1>1. m \notin rows
    BY DEF Message
  <1>2. /\ more \in SUBSET Message /\ IsFiniteSet(more)
        /\ Cardinality(more) = size + 1 /\ size \in Nat
    BY <1>1, FS_AddElement, FS_CardinalityType
  <1>3. StampedOnce(more)
    BY DEF StampedOnce, Message
  <1>4. /\ old \in Seq(rows) /\ Len(old) = size
        /\ \A i \in 1 .. size : old[i] \in rows /\ Place(rows, old[i]) = i
    BY SortedRows
  <1>5. /\ new \in Seq(more) /\ Len(new) = size + 1
        /\ \A i \in 1 .. size + 1 : new[i] \in more /\ Place(more, new[i]) = i
    <2> HIDE DEF more
    <2> QED
      BY <1>2, <1>3, SortedRows
  <1>6. Place(more, m) = size + 1
    <2>1. { n \in more : n.at <= m.at } = more
      BY DEF Message
    <2> QED
      BY <1>2, <2>1 DEF Place
  <1>7. ASSUME NEW n \in rows
        PROVE  Place(more, n) = Place(rows, n)
    <2>1. { k \in more : k.at <= n.at } = { k \in rows : k.at <= n.at }
      BY DEF Message
    <2> QED
      BY <2>1 DEF Place
  <1>8. ASSUME NEW i \in 1 .. size
        PROVE  new[i] = old[i]
    <2>1. i \in 1 .. size + 1 /\ i # size + 1
      BY <1>2
    <2>2. new[i] \in rows /\ Place(rows, new[i]) = i
      BY <1>5, <1>6, <1>7, <2>1
    <2> QED
      BY <1>4, <2>2, Places
  <1> HIDE DEF more, size, old, new
  <1>9. IsPrefix(old, new)
    <2>1. Len(old) <= Len(new)
      BY <1>2, <1>4, <1>5
    <2>2. SubSeq(old, 1, Len(old)) = SubSeq(new, 1, Len(old))
      BY <1>2, <1>4, <1>5, <1>8
    <2> QED
      BY <2>1, <2>2 DEF IsPrefix
  <1> QED
    BY <1>2, <1>3, <1>9 DEF more, old, new

(***************************************************************************)
(* The history that is remembered                                          *)
(***************************************************************************)

Entry == [role : {"user", "assistant"}, of : Queries]

LEMMA RecentOfHistory ==
  ASSUME NEW history \in Seq(Entry)
  PROVE  /\ Recent(history) \in Seq(Entry)
         /\ Len(Recent(history)) <= MaxCached
         /\ \A i \in DOMAIN Recent(history) :
              \E j \in DOMAIN history : Recent(history)[i] = history[j]
  <1> DEFINE n == Min({MaxCached, Len(history)})
  <1>1. MaxCached \in Nat /\ Len(history) \in Nat
    BY QueryServiceAssumption
  <1>2. n \in Nat /\ n <= MaxCached /\ n <= Len(history)
    BY <1>1 DEF Min
  <1>3. Recent(history) = SubSeq(history, Len(history) - n + 1, Len(history))
    BY DEF Recent
  <1> HIDE DEF n
  <1> DEFINE recent == Recent(history)
  <1>4. /\ recent \in Seq(Entry) /\ Len(recent) = n
        /\ \A i \in 1 .. n : recent[i] = history[Len(history) - n + i]
    BY <1>1, <1>2, <1>3
  <1>5. ASSUME NEW i \in DOMAIN recent
        PROVE  \E j \in DOMAIN history : recent[i] = history[j]
    <2>1. i \in 1 .. n
      BY <1>4
    <2>2. Len(history) - n + i \in DOMAIN history
      BY <1>1, <1>2, <2>1
    <2> QED
      BY <1>4, <2>1, <2>2
  <1> QED
    BY <1>2, <1>4, <1>5

\* The context of a question comes from what is remembered.
LEMMA ContextOfHistory ==
  ASSUME NEW history \in Seq(Entry)
  PROVE  \A r \in Context(history) : \E i \in DOMAIN history : r = history[i].of
  <1> DEFINE asked == { i \in DOMAIN history : history[i].role = "user" }
  <1>1. CASE asked = {}
    BY <1>1 DEF Context
  <1>2. CASE asked # {}
    <2>1. asked \in SUBSET Nat /\ Len(history) \in Nat /\ \A i \in asked : i <= Len(history)
      OBVIOUS
    <2>2. Max(asked) \in asked
      <3> HIDE DEF asked
      <3> QED
        BY <1>2, <2>1, MaxOfBounded
    <2>3. Context(history) = { history[Max(asked)].of }
      BY <1>2 DEF Context
    <2> QED
      BY <2>2, <2>3
  <1> QED
    BY <1>1, <1>2

\* What is read of a session's rows, and the context that comes of it.
LEMMA ReadOfRows ==
  ASSUME NEW rows \in SUBSET Message, IsFiniteSet(rows), StampedOnce(rows)
  PROVE  LET history == Recent(Cached(Sorted(rows)))
         IN  /\ history \in Seq(Entry) /\ Len(history) <= MaxCached
             /\ \A r \in Context(history) : \E m \in rows : r = m.of
  <1> DEFINE sorted == Sorted(rows)
             cached == Cached(sorted)
             history == Recent(cached)
  <1>1. sorted \in Seq(rows)
    BY SortedRows
  <1>2. /\ cached \in Seq(Entry) /\ DOMAIN cached = DOMAIN sorted
        /\ \A i \in DOMAIN cached : cached[i].of = sorted[i].of /\ sorted[i] \in rows
    <2> HIDE DEF sorted
    <2>1. DOMAIN cached = 1 .. Len(sorted) /\ Len(sorted) \in Nat
      BY <1>1, LenProperties DEF Cached
    <2>2. \A i \in 1 .. Len(sorted) : /\ sorted[i] \in rows
                                      /\ cached[i] \in Entry /\ cached[i].of = sorted[i].of
      BY <1>1 DEF Cached, Message, Entry
    <2>3. cached \in [1 .. Len(sorted) -> Entry]
      BY <2>1, <2>2 DEF Cached
    <2> QED
      BY <1>1, <2>1, <2>2, <2>3, IsASeq, LenProperties
  <1> HIDE DEF cached, sorted
  <1>3. /\ history \in Seq(Entry) /\ Len(history) <= MaxCached
        /\ \A i \in DOMAIN history : \E j \in DOMAIN cached : history[i] = cached[j]
    BY <1>2, RecentOfHistory
  <1> HIDE DEF history
  <1>4. \A r \in Context(history) : \E i \in DOMAIN history : r = history[i].of
    BY <1>3, ContextOfHistory
  <1>5. \A r \in Context(history) : \E m \in rows : r = m.of
    BY <1>2, <1>3, <1>4
  <1> QED
    BY <1>3, <1>5 DEF history, cached, sorted

(***************************************************************************)
(* Requests                                                                *)
(***************************************************************************)

Request ==
  [ pc : PCs, owner : Owners \cup {Nobody}, session : Sessions, process : Processes,
    streams : BOOLEAN, role : {"user", "assistant"}, at : Nat, frames : Seq(Frames),
    context : SUBSET Queries, replaced : BOOLEAN ]

RequestsType == query \in [Queries -> Request]

\* One request goes on; the others stay.
Only(q) ==
  /\ query' \in [Queries -> Request]
  /\ \A r \in Queries \ {q} : query'[r] = query[r]

\* It keeps who asks where.
Goes(q, from, to) ==
  /\ Only(q)
  /\ query[q].pc = from /\ query'[q].pc = to
  /\ query'[q].owner = query[q].owner /\ query'[q].session = query[q].session
  /\ query'[q].streams = query[q].streams /\ query'[q].replaced = query[q].replaced

SameText(q) == query'[q].role = query[q].role /\ query'[q].frames = query[q].frames
SameContext(q) == query'[q].context = query[q].context

\* It is over, but for who asked and the frames of a finished stream.
Ends(q, pc) ==
  /\ Only(q)
  /\ query'[q].pc = pc
  /\ query'[q].owner = query[q].owner /\ query'[q].streams = query[q].streams
  /\ query'[q].role = "user" /\ query'[q].context = {} /\ ~query'[q].replaced
  /\ query'[q].at = 0
  /\ query[q].role = "assistant" => query'[q].frames = query[q].frames

LEMMA NotAskedType == NotAsked \in Request
  <1>1. (CHOOSE s \in Sessions : TRUE) \in Sessions /\ (CHOOSE p \in Processes : TRUE) \in Processes
    BY QueryServiceAssumption
  <1>2. <<>> \in Seq(Frames)
    OBVIOUS
  <1> QED
    BY <1>1, <1>2 DEF NotAsked, Request, PCs

LEMMA OneRequest ==
  ASSUME RequestsType, NEW q \in Queries, NEW x \in Request, query' = [query EXCEPT ![q] = x]
  PROVE  Only(q) /\ query'[q] = x
  BY DEF RequestsType, Only

LEMMA GotoMoves ==
  ASSUME RequestsType, NEW q \in Queries, NEW pc \in PCs, Goto(q, pc)
  PROVE  Goes(q, query[q].pc, pc) /\ SameText(q) /\ SameContext(q) /\ query'[q].at = query[q].at
  <1> DEFINE x == [query[q] EXCEPT !.pc = pc]
  <1>1. query[q] \in Request
    BY DEF RequestsType
  <1>2. query' = [query EXCEPT ![q] = x]
    BY DEF Goto
  <1>3. /\ x \in Request /\ x.pc = pc /\ x.owner = query[q].owner /\ x.session = query[q].session
        /\ x.streams = query[q].streams /\ x.replaced = query[q].replaced
        /\ x.role = query[q].role /\ x.frames = query[q].frames
        /\ x.context = query[q].context /\ x.at = query[q].at
    BY <1>1 DEF Request
  <1> HIDE DEF x
  <1> QED
    BY <1>2, <1>3, OneRequest DEF Goes, SameText, SameContext

LEMMA EndMoves ==
  ASSUME RequestsType, NEW q \in Queries, NEW pc \in PCs, End(q, pc)
  PROVE  Ends(q, pc)
  <1> DEFINE frames == IF query[q].role = "assistant" THEN query[q].frames ELSE <<>>
             x == [NotAsked EXCEPT !.pc = pc, !.owner = query[q].owner,
                                   !.streams = query[q].streams, !.frames = frames]
  <1>1. query[q] \in Request
    BY DEF RequestsType
  <1>2. query' = [query EXCEPT ![q] = x]
    BY DEF End
  <1>3. frames \in Seq(Frames)
    BY <1>1 DEF Request
  <1> HIDE DEF frames
  <1>4. /\ x \in Request /\ x.pc = pc /\ x.owner = query[q].owner
        /\ x.streams = query[q].streams /\ x.frames = frames
    BY <1>1, <1>3, NotAskedType DEF Request
  <1>5. x.role = "user" /\ x.context = {} /\ ~x.replaced /\ x.at = 0
    BY DEF NotAsked
  <1>6. query[q].role = "assistant" => frames = query[q].frames
    BY DEF frames
  <1> HIDE DEF x
  <1> QED
    BY <1>2, <1>4, <1>5, <1>6, OneRequest DEF Ends

(***************************************************************************)
(* Stamps                                                                  *)
(***************************************************************************)

RowsType ==
  /\ messages \in [Sessions -> SUBSET Message]
  /\ \A s \in Sessions : IsFiniteSet(messages[s])

\* The stamps of a session, given and stored, have a bound.
BoundInv ==
  \A s \in Sessions : \E n \in Nat :
    /\ \A m \in messages[s] : m.at <= n
    /\ \A q \in Queries : query[q].session = s => query[q].at <= n

LEMMA StampIsLater ==
  ASSUME RequestsType, RowsType, BoundInv, NEW s \in Sessions
  PROVE  /\ UtcNow(s) \in Nat
         /\ \A m \in messages[s] : m.at < UtcNow(s)
         /\ \A q \in Queries : query[q].session = s => query[q].at <= UtcNow(s)
  <1> DEFINE stamps == {0} \cup {m.at : m \in messages[s]}
                           \cup {query[q].at : q \in {r \in Queries : query[r].session = s}}
  <1>1. PICK n \in Nat : /\ \A m \in messages[s] : m.at <= n
                         /\ \A q \in Queries : query[q].session = s => query[q].at <= n
    BY DEF BoundInv
  <1>2. /\ \A m \in messages[s] : m.at \in Nat
        /\ \A q \in Queries : query[q].at \in Nat
    BY DEF RequestsType, Request, RowsType, Message
  <1>3. stamps \in SUBSET Nat /\ stamps # {} /\ \A x \in stamps : x <= n
    BY <1>1, <1>2
  <1>4. UtcNow(s) = 1 + Max(stamps)
    BY DEF UtcNow
  <1>5. /\ \A m \in messages[s] : m.at \in stamps
        /\ \A q \in Queries : query[q].session = s => query[q].at \in stamps
    OBVIOUS
  <1> HIDE DEF stamps
  <1>6. Max(stamps) \in Nat /\ \A x \in stamps : x <= Max(stamps)
    BY <1>3, MaxOfBounded
  <1> QED
    BY <1>2, <1>4, <1>5, <1>6

(***************************************************************************)
(* What a step does to one request                                         *)
(***************************************************************************)

Over == { "ended", "failed", "cut" }
FramesGood(q) ==
  Answered(q) /\ Last(Sent(q)) = "done" /\ "error" \notin Range(Sent(q))

SameStamp(q) == query'[q].at = query[q].at
Same(q) == SameText(q) /\ SameContext(q) /\ SameStamp(q)

Asks(q) ==
  /\ Only(q)
  /\ query[q].pc = "idle" /\ query'[q].pc \in {"checked", "failed"}
  /\ query'[q].owner \in Owners /\ query'[q].role = "user" /\ query'[q].at = 0
  /\ query'[q].context = {} /\ query'[q].frames = <<>>

Leaves(q) == query[q].pc \notin Over \cup {"idle"} /\ \E pc \in Over : Ends(q, pc)

MayRead(q) ==
  /\ Goes(q, "checked", "reading") /\ Same(q)
  /\ session[query[q].session] = query[q].owner

Begins(q) ==
  /\ Goes(q, "checked", "append") /\ SameText(q) /\ SameStamp(q)
  /\ query'[q].context = {}

Reads(q) ==
  /\ Goes(q, "reading", "append") /\ SameText(q) /\ SameStamp(q)
  /\ \A r \in query'[q].context : \E m \in messages[query[q].session] : r = m.of

Stamps(q) ==
  /\ SameText(q) /\ SameContext(q)
  /\ query'[q].at = UtcNow(query[q].session)

Locks(q) ==
  /\ Goes(q, "append", "locked") /\ Stamps(q)
  /\ session[query[q].session] = query[q].owner
  /\ \A r \in Queries : query[r].pc = "locked" => query[r].session # query[q].session

Inserts(q) ==
  /\ Goes(q, "insert", "inserted") /\ Stamps(q)
  /\ session[query[q].session] = Nobody /\ query[q].owner \notin deleted
  /\ \A r \in Queries : query[r].pc = "inserted" => query[r].session # query[q].session

Proceeds(q) ==
  \/ Goes(q, "append", "insert") /\ Same(q)
  \/ /\ Goes(q, "committed", "retrieve") /\ query[q].role = "user"
     /\ SameText(q) /\ SameContext(q) /\ query'[q].at = 0
  \/ Goes(q, "retrieve", "complete") /\ Same(q) /\ ~query[q].streams
  \/ Goes(q, "retrieve", "stream") /\ Same(q)
  \/ /\ Goes(q, "complete", "append") /\ SameContext(q) /\ SameStamp(q)
     /\ query'[q].role = "assistant" /\ query'[q].frames = query[q].frames

\* Frames of a stream that is not over.
Streams(q) ==
  /\ Goes(q, "stream", "stream") /\ SameContext(q) /\ SameStamp(q)
  /\ query'[q].role = query[q].role
  /\ \E frame \in Frames \ {"error"} : query'[q].frames = Append(query[q].frames, frame)

Breaks(q) ==
  /\ Goes(q, "stream", "cut") /\ SameContext(q) /\ SameStamp(q)
  /\ query'[q].role = query[q].role

Finishes(q) ==
  /\ \/ Goes(q, "stream", "append") /\ Answered(q)
     \/ Goes(q, "stream", "ended")
  /\ SameContext(q) /\ SameStamp(q)
  /\ query'[q].role = "assistant"
  /\ query'[q].frames = Append(query[q].frames, "done")

RequestStep(q) ==
  \/ Asks(q) \/ Leaves(q)
  \/ MayRead(q) \/ Begins(q) \/ Reads(q)
  \/ Locks(q) \/ Inserts(q) \/ Proceeds(q)
  \/ Streams(q) \/ Breaks(q) \/ Finishes(q)

rowVars == <<deleted, session, messages>>

CacheType == cache \in [Processes -> [Sessions -> Seq(Entry)]]

LEMMA AskMoves ==
  ASSUME RequestsType, NEW q \in Queries, NEW o \in Owners, NEW s \in Sessions,
         NEW p \in Processes, NEW b \in BOOLEAN, Ask(q, o, s, p, b)
  PROVE  Asks(q)
  <1> DEFINE pc == IF o \in deleted THEN "failed" ELSE "checked"
             x == [NotAsked EXCEPT !.owner = o, !.session = s, !.process = p,
                                   !.streams = b, !.pc = pc]
  <1>1. pc \in {"checked", "failed"} /\ pc \in PCs
    BY DEF PCs
  <1>2. query' = [query EXCEPT ![q] = x] /\ query[q].pc = "idle"
    BY DEF Ask, IsAt
  <1> HIDE DEF pc
  <1>3. x \in Request /\ x.pc = pc /\ x.owner = o
    BY <1>1, NotAskedType DEF Request
  <1>4. x.role = "user" /\ x.at = 0 /\ x.context = {} /\ x.frames = <<>>
    BY DEF NotAsked
  <1> HIDE DEF x
  <1> QED
    BY <1>1, <1>2, <1>3, <1>4, OneRequest DEF Asks

\* The look at the session row and at its messages.
LEMMA HistoryMoves ==
  ASSUME QueryTypeOK, RequestsType, RowsType, CacheType, NEW q \in Queries
  PROVE  /\ CheckSession(q) => MayRead(q) \/ Begins(q) \/ Leaves(q)
         /\ ReadHistory(q) => Reads(q)
  <1> DEFINE s == query[q].session
             p == query[q].process
  <1>1. /\ query[q] \in Request /\ s \in Sessions /\ p \in Processes
        /\ "reading" \in PCs /\ "failed" \in PCs /\ "append" \in PCs
    BY DEF RequestsType, Request, PCs
  <1>2. ASSUME CheckSession(q)
        PROVE  MayRead(q) \/ Begins(q) \/ Leaves(q)
    <2>1. query[q].pc = "checked"
      BY <1>2 DEF CheckSession, IsAt
    <2>2. CASE session[s] = query[q].owner /\ Goto(q, "reading")
      BY <1>1, <2>1, <2>2, GotoMoves DEF MayRead, Same, SameStamp
    <2>3. CASE End(q, "failed")
      BY <1>1, <2>1, <2>3, EndMoves DEF Leaves, Over
    <2>4. ASSUME NEW context, context = {},
                 query' = [query EXCEPT ![q].pc = "append", ![q].context = context]
          PROVE  Begins(q)
      <3> DEFINE x == [query[q] EXCEPT !.pc = "append", !.context = context]
      <3>1. /\ x \in Request /\ x.pc = "append" /\ x.context = {}
            /\ x.owner = query[q].owner /\ x.session = query[q].session
            /\ x.streams = query[q].streams /\ x.replaced = query[q].replaced
            /\ x.role = query[q].role /\ x.frames = query[q].frames /\ x.at = query[q].at
        BY <1>1, <2>4 DEF Request
      <3>2. query' = [query EXCEPT ![q] = x]
        BY <2>4
      <3> HIDE DEF x
      <3> QED
        BY <2>1, <3>1, <3>2, OneRequest DEF Begins, Goes, SameText, SameStamp
    <2>5. ASSUME cache' = Forget(p, s),
                 query' = [query EXCEPT ![q].pc = "append",
                                        ![q].context = Context(Forget(p, s)[p][s])]
          PROVE  Begins(q)
      <3>1. Forget(p, s)[p][s] = <<>>
        BY <1>1 DEF Forget, CacheType
      <3>2. Context(<<>>) = {}
        BY DEF Context
      <3> QED
        BY <2>4, <2>5, <3>1, <3>2
    <2> QED
      BY <1>2, <2>2, <2>3, <2>5 DEF CheckSession
  <1>3. ASSUME ReadHistory(q)
        PROVE  Reads(q)
    <2> DEFINE context == Context(Recent(Cached(Sorted(messages[s]))))
               x == [query[q] EXCEPT !.pc = "append", !.context = context]
    <2>1. query[q].pc = "reading" /\ query' = [query EXCEPT ![q] = x]
      BY <1>3 DEF ReadHistory, IsAt
    <2>2. /\ messages[s] \in SUBSET Message /\ IsFiniteSet(messages[s])
          /\ StampedOnce(messages[s])
      BY <1>1 DEF RowsType, QueryTypeOK, StampedOnce
    <2>3. \A r \in context : \E m \in messages[s] : r = m.of
      BY <2>2, ReadOfRows
    <2> HIDE DEF context
    <2>4. context \in SUBSET Queries
      BY <2>2, <2>3 DEF Message
    <2>5. /\ x \in Request /\ x.pc = "append" /\ x.context = context
          /\ x.owner = query[q].owner /\ x.session = query[q].session
          /\ x.streams = query[q].streams /\ x.replaced = query[q].replaced
          /\ x.role = query[q].role /\ x.frames = query[q].frames /\ x.at = query[q].at
      BY <1>1, <2>4 DEF Request
    <2> HIDE DEF x
    <2> QED
      BY <2>1, <2>3, <2>5, OneRequest, ZenonT(40) DEF Reads, Goes, SameText, SameStamp
  <1> QED
    BY <1>2, <1>3

\* append_message_db up to the commit, and what follows it.
LEMMA AppendMoves ==
  ASSUME RequestsType, RowsType, BoundInv, NEW q \in Queries
  PROVE  /\ LockSession(q) => Locks(q) \/ Leaves(q)
         /\ FindNoSession(q) => Proceeds(q)
         /\ InsertSession(q) => Inserts(q) \/ Leaves(q)
         /\ Commit(q) => Goes(q, query[q].pc, "committed") /\ Same(q)
         /\ CommitFails(q) => Leaves(q)
         /\ CacheMessage(q) => Proceeds(q) \/ Leaves(q)
  <1> DEFINE s == query[q].session
  <1>1. query[q] \in Request /\ s \in Sessions /\ UtcNow(s) \in Nat
    BY StampIsLater DEF RequestsType, Request
  <1>2. /\ "locked" \in PCs /\ "failed" \in PCs /\ "insert" \in PCs /\ "inserted" \in PCs
        /\ "committed" \in PCs /\ "ended" \in PCs /\ "retrieve" \in PCs
    BY DEF PCs
  <1>3. ASSUME NEW pc \in PCs, NEW n \in Nat, query' = [query EXCEPT ![q].pc = pc, ![q].at = n]
        PROVE  Goes(q, query[q].pc, pc) /\ SameText(q) /\ SameContext(q) /\ query'[q].at = n
    <2> DEFINE x == [query[q] EXCEPT !.pc = pc, !.at = n]
    <2>1. query' = [query EXCEPT ![q] = x]
      BY <1>3
    <2>2. /\ x \in Request /\ x.pc = pc /\ x.at = n /\ x.context = query[q].context
          /\ x.owner = query[q].owner /\ x.session = query[q].session
          /\ x.streams = query[q].streams /\ x.replaced = query[q].replaced
          /\ x.role = query[q].role /\ x.frames = query[q].frames
      BY <1>1 DEF Request
    <2> HIDE DEF x
    <2> QED
      BY <2>1, <2>2, OneRequest DEF Goes, SameText, SameContext
  <1>4. LockSession(q) => Locks(q) \/ Leaves(q)
    <2>1. ASSUME LockSession(q), MayAppend(q)
          PROVE  Locks(q)
      BY <1>1, <1>2, <1>3, <2>1
      DEF LockSession, MayAppend, RowIsFree, IsAt, Locks, Stamps
    <2>2. ASSUME LockSession(q), ~MayAppend(q)
          PROVE  Leaves(q)
      BY <1>2, <2>2, EndMoves DEF LockSession, IsAt, Leaves, Over
    <2> QED
      BY <2>1, <2>2
  <1>5. FindNoSession(q) => Proceeds(q)
    BY <1>2, GotoMoves DEF FindNoSession, IsAt, Proceeds, Same, SameStamp
  <1>6. InsertSession(q) => Inserts(q) \/ Leaves(q)
    <2>1. ASSUME InsertSession(q), session[s] = Nobody /\ query[q].owner \notin deleted
          PROVE  Inserts(q)
      BY <1>1, <1>2, <1>3, <2>1 DEF InsertSession, IsAt, Inserts, Stamps
    <2>2. ASSUME InsertSession(q), ~(session[s] = Nobody /\ query[q].owner \notin deleted)
          PROVE  Leaves(q)
      BY <1>2, <2>2, EndMoves DEF InsertSession, IsAt, Leaves, Over
    <2> QED
      BY <2>1, <2>2
  <1>7. Commit(q) => Goes(q, query[q].pc, "committed") /\ Same(q)
    BY <1>2, GotoMoves DEF Commit, Same, SameStamp
  <1>8. CommitFails(q) => Leaves(q)
    BY <1>2, EndMoves DEF CommitFails, Uncommitted, Leaves, Over
  <1>9. CacheMessage(q) => Proceeds(q) \/ Leaves(q)
    <2>1. ASSUME CacheMessage(q), query[q].role = "user"
          PROVE  Proceeds(q)
      BY <1>2, <1>3, <2>1 DEF CacheMessage, IsAt, Proceeds
    <2>2. ASSUME CacheMessage(q), query[q].role # "user"
          PROVE  Leaves(q)
      BY <1>2, <2>2, EndMoves DEF CacheMessage, IsAt, Leaves, Over
    <2> QED
      BY <2>1, <2>2
  <1> QED
    BY <1>4, <1>5, <1>6, <1>7, <1>8, <1>9

\* Retrieval, completion and the stream.
LEMMA AnswerMoves ==
  ASSUME RequestsType, NEW q \in Queries
  PROVE  /\ \A mode \in Modes : Retrieve(q, mode) => Proceeds(q) \/ Leaves(q)
         /\ EmbeddingFails(q) \/ CompletionFails(q) \/ QuotaRefused(q) \/ Disconnect(q) => Leaves(q)
         /\ Complete(q) => Proceeds(q)
         /\ SendOpening(q) \/ SendToken(q) => Streams(q)
         /\ ProviderFails(q) => Breaks(q)
         /\ Finish(q) => Finishes(q)
  <1>1. query[q] \in Request /\ query[q].frames \in Seq(Frames)
    BY DEF RequestsType, Request
  <1>2. /\ "stream" \in PCs /\ "failed" \in PCs /\ "complete" \in PCs /\ "append" \in PCs
        /\ "cut" \in PCs /\ "ended" \in PCs
    BY DEF PCs
  <1>3. ASSUME NEW mode \in Modes, Retrieve(q, mode)
        PROVE  Proceeds(q) \/ Leaves(q)
    <2>1. query[q].pc = "retrieve"
      BY <1>3 DEF Retrieve, IsAt
    <2>2. CASE End(q, "failed")
      BY <1>2, <2>1, <2>2, EndMoves DEF Leaves, Over
    <2>3. CASE Goto(q, "stream")
      BY <1>2, <2>1, <2>3, GotoMoves DEF Proceeds, Same, SameStamp
    <2>4. CASE Goto(q, "complete") /\ ~query[q].streams
      BY <1>2, <2>1, <2>4, GotoMoves DEF Proceeds, Same, SameStamp
    <2> QED
      BY <1>3, <2>2, <2>3, <2>4 DEF Retrieve
  <1>4. EmbeddingFails(q) \/ CompletionFails(q) \/ QuotaRefused(q) \/ Disconnect(q) => Leaves(q)
    BY <1>2, EndMoves
    DEF EmbeddingFails, CompletionFails, QuotaRefused, Disconnect, IsAt, Leaves, Over
  <1> DEFINE Continues(x) == /\ x \in Request
                             /\ x.at = query[q].at /\ x.context = query[q].context
                             /\ x.owner = query[q].owner /\ x.session = query[q].session
                             /\ x.streams = query[q].streams /\ x.replaced = query[q].replaced
  <1>5. ASSUME NEW x, Continues(x), query' = [query EXCEPT ![q] = x]
        PROVE  /\ Goes(q, query[q].pc, x.pc) /\ SameContext(q) /\ SameStamp(q)
               /\ query'[q].role = x.role /\ query'[q].frames = x.frames
    BY <1>5, OneRequest DEF Goes, SameContext, SameStamp
  <1>6. ASSUME Complete(q)
        PROVE  Proceeds(q)
    <2> DEFINE x == [query[q] EXCEPT !.pc = "append", !.role = "assistant"]
    <2>1. query[q].pc = "complete" /\ query' = [query EXCEPT ![q] = x]
      BY <1>6 DEF Complete, IsAt
    <2>2. /\ Continues(x) /\ x.pc = "append" /\ x.role = "assistant"
          /\ x.frames = query[q].frames
      BY <1>1, <1>2 DEF Request
    <2> HIDE DEF x, Continues
    <2> QED
      BY <1>5, <2>1, <2>2 DEF Proceeds
  <1>7. ASSUME NEW frame \in Frames, query[q].pc = "stream", Send(q, frame), frame # "error"
        PROVE  Streams(q)
    <2> DEFINE x == [query[q] EXCEPT !.frames = Append(@, frame)]
    <2>1. query' = [query EXCEPT ![q] = x]
      BY <1>7 DEF Send
    <2>2. Append(query[q].frames, frame) \in Seq(Frames)
      BY <1>1
    <2>3. /\ Continues(x) /\ x.pc = query[q].pc /\ x.role = query[q].role
          /\ x.frames = Append(query[q].frames, frame)
      BY <1>1, <2>2 DEF Request
    <2> HIDE DEF x, Continues
    <2> QED
      BY <1>5, <1>7, <2>1, <2>3 DEF Streams
  <1>8. SendOpening(q) => Streams(q)
    <2> SUFFICES ASSUME SendOpening(q)
                 PROVE  Streams(q)
      OBVIOUS
    <2> DEFINE frame == <<"status", "sources", "generating">>[Len(Sent(q)) + 1]
    <2>1. Len(Sent(q)) \in Nat /\ ~(Len(Sent(q)) >= 3)
      BY <1>1, LenProperties DEF SendOpening, Opened, Sent
    <2>2. Len(Sent(q)) + 1 = 1 \/ Len(Sent(q)) + 1 = 2 \/ Len(Sent(q)) + 1 = 3
      BY <2>1
    <2>3. frame = "status" \/ frame = "sources" \/ frame = "generating"
      BY <2>2
    <2>4. query[q].pc = "stream" /\ Send(q, frame)
      BY DEF SendOpening, IsAt
    <2> HIDE DEF frame
    <2>5. frame \in Frames /\ frame # "error"
      BY <2>3 DEF Frames
    <2> QED
      BY <1>7, <2>4, <2>5
  <1>9. SendToken(q) => Streams(q)
    BY <1>7 DEF SendToken, IsAt, Frames
  <1>10. ASSUME ProviderFails(q)
         PROVE  Breaks(q)
    <2> DEFINE x == [query[q] EXCEPT !.frames = Append(@, "error"), !.pc = "cut"]
    <2>1. query[q].pc = "stream" /\ query' = [query EXCEPT ![q] = x]
      BY <1>10 DEF ProviderFails, IsAt
    <2>2. Append(query[q].frames, "error") \in Seq(Frames)
      BY <1>1 DEF Frames
    <2>3. Continues(x) /\ x.pc = "cut" /\ x.role = query[q].role
      BY <1>1, <1>2, <2>2 DEF Request
    <2> HIDE DEF x, Continues
    <2> QED
      BY <1>5, <2>1, <2>3 DEF Breaks
  <1>11. ASSUME Finish(q)
         PROVE  Finishes(q)
    <2> DEFINE pc == IF Answered(q) THEN "append" ELSE "ended"
               x == [query[q] EXCEPT !.frames = Append(@, "done"), !.role = "assistant", !.pc = pc]
    <2>1. query[q].pc = "stream" /\ query' = [query EXCEPT ![q] = x]
      BY <1>11 DEF Finish, IsAt
    <2>2. Append(query[q].frames, "done") \in Seq(Frames) /\ pc \in PCs
      BY <1>1, <1>2 DEF Frames
    <2>3. \/ pc = "append" /\ Answered(q)
          \/ pc = "ended"
      OBVIOUS
    <2> HIDE DEF pc
    <2>4. /\ Continues(x) /\ x.pc = pc /\ x.role = "assistant"
          /\ x.frames = Append(query[q].frames, "done")
      BY <1>1, <2>2 DEF Request
    <2> HIDE DEF x, Continues
    <2> QED
      BY <1>5, <2>1, <2>3, <2>4 DEF Finishes
  <1> QED
    BY <1>3, <1>4, <1>6, <1>8, <1>9, <1>10, <1>11

\* A step commits a message, deletes a knowledge base, or moves one request.
LEMMA Moves ==
  ASSUME QueryTypeOK, RequestsType, RowsType, CacheType, BoundInv, [QueryNext]_queryVars
  PROVE  \/ UNCHANGED <<rowVars, query>>
         \/ UNCHANGED rowVars /\ \E q \in Queries : RequestStep(q)
         \/ \E q \in Queries : Commit(q)
         \/ \E o \in Owners : DeleteKnowledgeBase(o)
  <1>1. ASSUME NEW q \in Queries, NEW o \in Owners, NEW s \in Sessions, NEW p \in Processes,
               NEW b \in BOOLEAN, Ask(q, o, s, p, b)
        PROVE  UNCHANGED rowVars /\ RequestStep(q)
    BY <1>1, AskMoves DEF Ask, RequestStep, rowVars
  <1>2. ASSUME NEW q \in Queries, CheckSession(q) \/ ReadHistory(q)
        PROVE  UNCHANGED rowVars /\ RequestStep(q)
    BY <1>2, HistoryMoves DEF CheckSession, ReadHistory, RequestStep, rowVars
  <1>3. ASSUME NEW q \in Queries,
               \/ LockSession(q) \/ FindNoSession(q) \/ InsertSession(q)
               \/ CommitFails(q) \/ CacheMessage(q)
        PROVE  UNCHANGED rowVars /\ RequestStep(q)
    BY <1>3, AppendMoves
    DEF LockSession, FindNoSession, InsertSession, CommitFails, CacheMessage, RequestStep, rowVars
  <1>4. ASSUME NEW q \in Queries,
               \/ (\E mode \in Modes : Retrieve(q, mode))
               \/ EmbeddingFails(q) \/ Complete(q) \/ CompletionFails(q)
               \/ SendOpening(q) \/ QuotaRefused(q) \/ SendToken(q) \/ ProviderFails(q)
               \/ Finish(q) \/ Disconnect(q)
        PROVE  UNCHANGED rowVars /\ RequestStep(q)
    <2>1. RequestStep(q)
      BY <1>4, AnswerMoves DEF RequestStep
    <2>2. UNCHANGED rowVars
      BY <1>4
      DEF Retrieve, EmbeddingFails, Complete, CompletionFails, SendOpening, QuotaRefused,
          SendToken, Send, ProviderFails, Finish, Disconnect, rowVars
    <2> QED
      BY <2>1, <2>2
  <1>5. UNCHANGED queryVars => UNCHANGED <<rowVars, query>>
    BY DEF queryVars, rowVars
  <1> QED
    BY <1>1, <1>2, <1>3, <1>4, <1>5 DEF QueryNext

(***************************************************************************)
(* The inductive invariant                                                 *)
(***************************************************************************)

Writing == { "append", "insert", "locked", "inserted", "committed" }

\* Its question is stored.
Stored(q) ==
  \/ query[q].pc \in { "committed", "retrieve", "complete", "stream" }
  \/ query[q].role = "assistant" /\ query[q].pc \in Writing

\* A stored question stays in its session until its knowledge base goes.
Remembered(q) ==
  \/ query[q].owner \in deleted
  \/ /\ session[query[q].session] = query[q].owner
     /\ \E m \in messages[query[q].session] : m.role = "user" /\ m.of = q

\* Whose session a request works on: the check of its row holds as long as the
\* row is locked, and until the messages are read unless it is deleted.
SessionOk(q) ==
  LET s == query[q].session IN
  /\ query[q].pc # "idle" => query[q].owner \in Owners
  /\ (query[q].pc = "reading" /\ ~query[q].replaced) => session[s] = query[q].owner
  /\ query[q].pc = "locked" => session[s] = query[q].owner
  /\ query[q].pc = "inserted" => session[s] = Nobody /\ query[q].owner \notin deleted
  /\ Stored(q) => Remembered(q)
SessionInv == \A q \in Queries : SessionOk(q)

\* A message that is not committed is the only one of its session and has the
\* latest stamp.
StampInv ==
  \A q \in Queries : query[q].pc \in { "locked", "inserted" } =>
    /\ \A m \in messages[query[q].session] : m.at < query[q].at
    /\ \A r \in Queries :
         (query[r].pc \in { "locked", "inserted" } /\ query[r].session = query[q].session) => r = q

\* What has been said of an answer: a message of the assistant is begun once
\* the completion is done or the stream has ended well.
AnswerOk(q) ==
  /\ query[q].role = "assistant" => query[q].pc \in Writing \cup { "ended" }
  /\ query[q].pc = "complete" => ~query[q].streams
  /\ query[q].pc \notin Over => "error" \notin Range(query[q].frames)
  /\ (query[q].role = "assistant" /\ query[q].streams /\ query[q].pc \in Writing)
       => FramesGood(q)
AnswerInv == \A q \in Queries : AnswerOk(q)

\* The messages of a session are its owner's, and those of the assistant answer
\* an earlier one.
MessagesInv ==
  \A s \in Sessions : \A m \in messages[s] :
    /\ query[m.of].pc # "idle" /\ query[m.of].owner = session[s]
    /\ m.role = "assistant" =>
         /\ \E n \in messages[s] : n.role = "user" /\ n.of = m.of /\ n.at < m.at
         /\ \/ query[m.of].pc \in Over
            \/ query[m.of].pc = "committed" /\ query[m.of].role = "assistant"
         /\ query[m.of].streams => FramesGood(m.of)

\* The context of a question comes from its owner's questions.
ContextInv ==
  \A q \in Queries : \A r \in query[q].context :
    /\ query[r].pc # "idle"
    /\ query[q].replaced \/ query[r].owner = query[q].owner

QueryInv ==
  /\ QueryTypeOK /\ RequestsType /\ RowsType /\ CacheType /\ BoundInv
  /\ SessionInv /\ StampInv /\ AnswerInv /\ MessagesInv /\ ContextInv

(***************************************************************************)
(* A step of one request                                                   *)
(***************************************************************************)

LEMMA RequestKeepsSession ==
  ASSUME RequestsType, SessionInv, AnswerInv, UNCHANGED rowVars, NEW q \in Queries, RequestStep(q)
  PROVE  SessionInv'
  <1>1. ASSUME NEW r \in Queries, query'[r] = query[r]
        PROVE  SessionOk(r)'
    BY <1>1 DEF SessionInv, SessionOk, Stored, Remembered, rowVars
  <1>2. Only(q)
    BY DEF RequestStep, Asks, Leaves, Ends, MayRead, Begins, Reads, Locks, Inserts, Proceeds,
           Streams, Breaks, Finishes, Goes
  <1>3. SessionOk(q) /\ AnswerOk(q)
    BY DEF SessionInv, AnswerInv
  <1>4. ASSUME Asks(q) \/ Leaves(q)
        PROVE  SessionOk(q)'
    BY <1>3, <1>4 DEF Asks, Leaves, Ends, Over, SessionOk, Stored, Writing
  <1>5. ASSUME MayRead(q) \/ Begins(q) \/ Reads(q)
        PROVE  SessionOk(q)'
    BY <1>3, <1>5
    DEF MayRead, Begins, Reads, Goes, Same, SameText, SessionOk, AnswerOk, Stored, Writing,
        rowVars
  <1>6. ASSUME Locks(q) \/ Inserts(q)
        PROVE  SessionOk(q)'
    BY <1>3, <1>6
    DEF Locks, Inserts, Stamps, Goes, SameText, SessionOk, Stored, Remembered, Writing, rowVars
  <1>7. ASSUME Proceeds(q) \/ Streams(q)
        PROVE  SessionOk(q)'
    BY <1>3, <1>7
    DEF Proceeds, Streams, Goes, Same, SameText, SessionOk, Stored, Remembered, Writing, rowVars
  <1>8. ASSUME Breaks(q) \/ Finishes(q)
        PROVE  SessionOk(q)'
    BY <1>3, <1>8
    DEF Breaks, Finishes, Goes, SessionOk, AnswerOk, Stored, Remembered, Writing, rowVars
  <1>9. SessionOk(q)'
    BY <1>4, <1>5, <1>6, <1>7, <1>8 DEF RequestStep
  <1> QED
    BY <1>1, <1>2, <1>9 DEF SessionInv, Only

LEMMA RequestKeepsStamps ==
  ASSUME RequestsType, RowsType, BoundInv, SessionInv, StampInv, QueryTypeOK,
         UNCHANGED rowVars, NEW q \in Queries, RequestStep(q)
  PROVE  StampInv' /\ BoundInv'
  <1> DEFINE late == { "locked", "inserted" }
             s == query[q].session
  <1>1. Only(q)
    BY DEF RequestStep, Asks, Leaves, Ends, MayRead, Begins, Reads, Locks, Inserts, Proceeds,
           Streams, Breaks, Finishes, Goes
  <1>2. /\ query[q] \in Request /\ s \in Sessions /\ query'[q] \in Request
        /\ \A r \in Queries \ {q} : query'[r] = query[r]
    BY <1>1 DEF Only, RequestsType, Request
  <1>3. messages' = messages
    BY DEF rowVars
  <1>4. \/ query'[q].at = 0
        \/ query'[q].at = query[q].at /\ query'[q].session = s
        \/ query'[q].at = UtcNow(s) /\ query'[q].session = s
    BY DEF RequestStep, Asks, Leaves, Ends, MayRead, Begins, Reads, Locks, Inserts, Proceeds,
           Streams, Breaks, Finishes, Goes, Same, SameStamp, Stamps
  <1>5. BoundInv'
    <2> SUFFICES ASSUME NEW t \in Sessions
                 PROVE  \E n \in Nat :
                          /\ \A m \in messages[t] : m.at <= n
                          /\ \A r \in Queries : query'[r].session = t => query'[r].at <= n
      BY <1>3 DEF BoundInv
    <2>1. PICK n \in Nat : /\ \A m \in messages[t] : m.at <= n
                           /\ \A r \in Queries : query[r].session = t => query[r].at <= n
      BY DEF BoundInv
    <2>2. UtcNow(s) \in Nat
      BY <1>2, StampIsLater
    <2>3. /\ \A m \in messages[t] : m.at \in Nat
          /\ \A r \in Queries : query[r].at \in Nat /\ query'[r].at \in Nat
      BY <1>1 DEF Only, RequestsType, Request, RowsType, Message
    <2> DEFINE N == n + UtcNow(s)
    <2>4. N \in Nat /\ \A i \in Nat : i <= n => i <= N
      BY <2>2
    <2>5. \A m \in messages[t] : m.at <= N
      BY <2>1, <2>3, <2>4
    <2>6. query'[q].session = t => query'[q].at <= N
      BY <1>4, <2>1, <2>2, <2>3
    <2> HIDE DEF N
    <2>7. \A r \in Queries : query'[r].session = t => query'[r].at <= N
      BY <1>2, <2>1, <2>3, <2>4, <2>6
    <2> QED
      BY <2>4, <2>5, <2>7
  <1>6. CASE query'[q].pc \notin late
    <2> QED
      BY <1>2, <1>3, <1>5, <1>6 DEF StampInv
  <1>7. CASE query'[q].pc \in late
    <2>1. Locks(q) \/ Inserts(q)
      BY <1>7 DEF RequestStep, Asks, Leaves, Ends, Over, MayRead, Begins, Reads, Proceeds,
                  Streams, Breaks, Finishes, Goes
    <2>2. query'[q].at = UtcNow(s) /\ query'[q].session = s
      BY <2>1 DEF Locks, Inserts, Stamps, Goes
    <2>3. \A m \in messages[s] : m.at < query'[q].at
      BY <1>2, <2>2, StampIsLater
    <2>4. ASSUME NEW r \in Queries, query[r].pc \in late, query[r].session = s
          PROVE  FALSE
      <3>1. SessionOk(r) /\ SessionOk(q)
        BY DEF SessionInv
      <3>2. /\ query[r].pc = "locked" => session[s] \in Owners /\ session[s] # Nobody
            /\ query[r].pc = "inserted" => session[s] = Nobody
        BY <2>4, <3>1, QueryServiceAssumption DEF SessionOk
      <3>3. query[q].owner # Nobody
        BY <2>1, <3>1, QueryServiceAssumption DEF SessionOk, Locks, Inserts, Goes
      <3> QED
        BY <2>1, <2>4, <3>2, <3>3 DEF Locks, Inserts
    <2> QED
      BY <1>2, <1>3, <1>5, <2>2, <2>3, <2>4 DEF StampInv
  <1> QED
    BY <1>6, <1>7

LEMMA RequestKeepsAnswer ==
  ASSUME RequestsType, AnswerInv, NEW q \in Queries, RequestStep(q)
  PROVE  AnswerInv'
  <1>1. ASSUME NEW r \in Queries, query'[r] = query[r]
        PROVE  AnswerOk(r)'
    BY <1>1 DEF AnswerInv, AnswerOk, FramesGood, Answered, Sent
  <1>2. Only(q)
    BY DEF RequestStep, Asks, Leaves, Ends, MayRead, Begins, Reads, Locks, Inserts, Proceeds,
           Streams, Breaks, Finishes, Goes
  <1>3. AnswerOk(q) /\ query[q].frames \in Seq(Frames)
    BY DEF AnswerInv, RequestsType, Request
  <1>4. "done" \in Frames /\ "error" # "done" /\ "append" \notin Over
    BY DEF Frames, Over
  <1>5. ASSUME Asks(q) \/ Leaves(q)
        PROVE  AnswerOk(q)'
    <2>1. "error" \notin Range(<<>>)
      BY DEF Range
    <2> QED
      BY <1>3, <1>5, <2>1 DEF Asks, Leaves, Ends, Over, AnswerOk, Writing
  <1>6. ASSUME MayRead(q) \/ Begins(q) \/ Reads(q) \/ Locks(q) \/ Inserts(q)
        PROVE  AnswerOk(q)'
    BY <1>3, <1>6
    DEF MayRead, Begins, Reads, Locks, Inserts, Stamps, Goes, Same, SameText, AnswerOk,
        Writing, Over, FramesGood, Answered, Sent
  <1>7. ASSUME Proceeds(q)
        PROVE  AnswerOk(q)'
    BY <1>3, <1>7
    DEF Proceeds, Goes, Same, SameText, AnswerOk, Writing, Over, FramesGood, Answered, Sent
  <1>8. ASSUME Streams(q) \/ Breaks(q)
        PROVE  AnswerOk(q)'
    <2>1. CASE Breaks(q)
      BY <1>3, <2>1 DEF Breaks, Goes, AnswerOk, Writing, Over
    <2>2. CASE Streams(q)
      <3>1. PICK frame \in Frames \ {"error"} : query'[q].frames = Append(query[q].frames, frame)
        BY <2>2 DEF Streams
      <3>2. "error" \notin Range(query'[q].frames)
        BY <1>3, <2>2, <3>1, AppendedFrame DEF Streams, Goes, AnswerOk, Over
      <3> QED
        BY <1>3, <2>2, <3>2 DEF Streams, Goes, AnswerOk, Writing, Over
    <2> QED
      BY <1>8, <2>1, <2>2
  <1>9. ASSUME Finishes(q)
        PROVE  AnswerOk(q)'
    <2> DEFINE frames == query'[q].frames
    <2>1. /\ frames = Append(query[q].frames, "done") /\ query'[q].role = "assistant"
          /\ query[q].pc = "stream" /\ query'[q].pc \in {"append", "ended"}
          /\ query'[q].pc = "append" => "token" \in Range(query[q].frames)
      BY <1>9 DEF Finishes, Goes, Answered, Sent
    <2>2. /\ Last(frames) = "done"
          /\ \A x : x \in Range(frames) <=> x \in Range(query[q].frames) \/ x = "done"
      BY <1>3, <1>4, <2>1, AppendedFrame
    <2>3. "error" \notin Range(frames)
      BY <1>3, <1>4, <2>1, <2>2 DEF AnswerOk, Over
    <2>4. query'[q].pc = "append" => "token" \in Range(frames)
      BY <2>1, <2>2
    <2> QED
      BY <2>1, <2>2, <2>3, <2>4 DEF AnswerOk, Writing, Over, FramesGood, Answered, Sent
  <1>10. AnswerOk(q)'
    BY <1>5, <1>6, <1>7, <1>8, <1>9 DEF RequestStep
  <1> QED
    BY <1>1, <1>2, <1>10 DEF AnswerInv, Only

\* What messages and contexts say of a request that has been asked.
LEMMA AskedStays ==
  ASSUME RequestsType, AnswerInv, NEW q \in Queries, RequestStep(q), query[q].pc # "idle"
  PROVE  /\ query'[q].pc # "idle" /\ query'[q].owner = query[q].owner
         /\ query'[q].streams = query[q].streams
         /\ query[q].pc \notin Over
         /\ (query[q].pc = "committed" /\ query[q].role = "assistant")
              => query'[q].pc \in Over /\ query'[q].frames = query[q].frames
  BY DEF RequestStep, Asks, Leaves, Ends, MayRead, Begins, Reads, Locks, Inserts, Proceeds,
         Streams, Breaks, Finishes, Goes, Over

LEMMA RequestKeepsMessages ==
  ASSUME RequestsType, RowsType, AnswerInv, MessagesInv, UNCHANGED rowVars,
         NEW q \in Queries, RequestStep(q)
  PROVE  MessagesInv'
  <1>1. \A r \in Queries \ {q} : query'[r] = query[r]
    BY DEF RequestStep, Asks, Leaves, Ends, MayRead, Begins, Reads, Locks, Inserts, Proceeds,
           Streams, Breaks, Finishes, Goes, Only
  <1>2. messages' = messages /\ session' = session
    BY DEF rowVars
  <1> SUFFICES ASSUME NEW s \in Sessions, NEW m \in messages[s]
               PROVE  /\ query'[m.of].pc # "idle" /\ query'[m.of].owner = session[s]
                      /\ m.role = "assistant" =>
                           /\ \E n \in messages[s] : n.role = "user" /\ n.of = m.of /\ n.at < m.at
                           /\ \/ query'[m.of].pc \in Over
                              \/ /\ query'[m.of].pc = "committed"
                                 /\ query'[m.of].role = "assistant"
                           /\ query'[m.of].streams => FramesGood(m.of)'
    BY <1>2 DEF MessagesInv
  <1>3. /\ m.of \in Queries
        /\ query[m.of].pc # "idle" /\ query[m.of].owner = session[s]
        /\ m.role = "assistant" =>
             /\ \E n \in messages[s] : n.role = "user" /\ n.of = m.of /\ n.at < m.at
             /\ \/ query[m.of].pc \in Over
                \/ query[m.of].pc = "committed" /\ query[m.of].role = "assistant"
             /\ query[m.of].streams => FramesGood(m.of)
    BY DEF RowsType, Message, MessagesInv
  <1>4. CASE m.of # q
    BY <1>1, <1>3, <1>4 DEF FramesGood, Answered, Sent
  <1>5. CASE m.of = q
    BY <1>3, <1>5, AskedStays DEF FramesGood, Answered, Sent
  <1> QED
    BY <1>4, <1>5

LEMMA RequestKeepsContext ==
  ASSUME RequestsType, RowsType, AnswerInv, SessionInv, MessagesInv, ContextInv,
         UNCHANGED rowVars, NEW q \in Queries, RequestStep(q)
  PROVE  ContextInv'
  <1>1. Only(q)
    BY DEF RequestStep, Asks, Leaves, Ends, MayRead, Begins, Reads, Locks, Inserts, Proceeds,
           Streams, Breaks, Finishes, Goes
  <1>2. ASSUME NEW r \in Queries, query[r].pc # "idle"
        PROVE  query'[r].pc # "idle" /\ query'[r].owner = query[r].owner
    BY <1>1, <1>2, AskedStays DEF Only
  <1>3. ASSUME NEW a \in Queries \ {q}, NEW r \in query'[a].context
        PROVE  /\ query'[r].pc # "idle"
               /\ query'[a].replaced \/ query'[r].owner = query'[a].owner
    <2>1. query'[a] = query[a] /\ r \in query[a].context /\ r \in Queries
      BY <1>1, <1>3 DEF Only, RequestsType, Request
    <2> QED
      BY <1>2, <2>1 DEF ContextInv
  <1>4. ASSUME NEW r \in query'[q].context
        PROVE  /\ query'[r].pc # "idle"
               /\ query'[q].replaced \/ query'[r].owner = query'[q].owner
    <2>1. r \in Queries
      BY <1>1, <1>4 DEF Only, Request
    <2>2. CASE Asks(q) \/ Leaves(q) \/ Begins(q)
      BY <1>4, <2>2 DEF Asks, Leaves, Ends, Begins
    <2>3. CASE Reads(q)
      <3>1. PICK m \in messages[query[q].session] : r = m.of
        BY <1>4, <2>3 DEF Reads
      <3>2. query[q].session \in Sessions
        BY DEF RequestsType, Request
      <3>3. query[r].pc # "idle" /\ query[r].owner = session[query[q].session]
        BY <3>1, <3>2 DEF MessagesInv
      <3>4. query[q].replaced \/ session[query[q].session] = query[q].owner
        BY <2>3 DEF SessionInv, SessionOk, Reads, Goes
      <3> QED
        BY <1>2, <2>1, <2>3, <3>3, <3>4 DEF Reads, Goes
    <2>4. CASE MayRead(q) \/ Locks(q) \/ Inserts(q) \/ Proceeds(q) \/ Streams(q) \/ Breaks(q)
               \/ Finishes(q)
      <3>1. /\ query'[q].context = query[q].context /\ query'[q].owner = query[q].owner
            /\ query'[q].replaced = query[q].replaced
        BY <2>4 DEF MayRead, Locks, Inserts, Stamps, Proceeds, Streams, Breaks, Finishes, Goes,
                    Same, SameContext
      <3> QED
        BY <1>2, <1>4, <2>1, <3>1 DEF ContextInv
    <2> QED
      BY <2>2, <2>3, <2>4 DEF RequestStep
  <1> QED
    BY <1>3, <1>4 DEF ContextInv

(***************************************************************************)
(* The cache of a process                                                  *)
(***************************************************************************)

CacheBound == \A p \in Processes, s \in Sessions : Len(cache[p][s]) <= MaxCached

LEMMA OneCached ==
  ASSUME CacheType, CacheBound, NEW p \in Processes, NEW s \in Sessions,
         NEW history \in Seq(Entry), Len(history) <= MaxCached,
         cache' = [cache EXCEPT ![p][s] = history]
  PROVE  CacheType' /\ CacheBound'
  <1>1. CacheType'
    BY DEF CacheType
  <1>2. ASSUME NEW a \in Processes, NEW t \in Sessions
        PROVE  cache'[a][t] = IF a = p /\ t = s THEN history ELSE cache[a][t]
    BY DEF CacheType
  <1> QED
    BY <1>1, <1>2 DEF CacheBound

LEMMA CacheIsBounded ==
  ASSUME QueryTypeOK, RequestsType, RowsType, CacheType, [QueryNext]_queryVars
  PROVE  CacheType' /\ CacheBound'
  <1>1. CacheBound
    BY DEF QueryTypeOK, CacheBound
  <1>2. UNCHANGED cache => CacheType' /\ CacheBound'
    BY <1>1 DEF CacheType, CacheBound
  <1>3. ASSUME NEW q \in Queries
        PROVE  /\ query[q].session \in Sessions /\ query[q].process \in Processes
               /\ query[q].role \in {"user", "assistant"}
    BY DEF RequestsType, Request
  <1>4. ASSUME NEW q \in Queries, CheckSession(q)
        PROVE  CacheType' /\ CacheBound'
    <2>1. <<>> \in Seq(Entry) /\ Len(<<>>) <= MaxCached
      BY QueryServiceAssumption
    <2>2. UNCHANGED cache \/ cache' = Forget(query[q].process, query[q].session)
      BY <1>4 DEF CheckSession
    <2> QED
      BY <1>1, <1>2, <1>3, <2>1, <2>2, OneCached DEF Forget
  <1>5. ASSUME NEW q \in Queries, ReadHistory(q)
        PROVE  CacheType' /\ CacheBound'
    <2> DEFINE s == query[q].session
               history == Recent(Cached(Sorted(messages[s])))
    <2>1. /\ messages[s] \in SUBSET Message /\ IsFiniteSet(messages[s])
          /\ StampedOnce(messages[s])
      BY <1>3 DEF RowsType, QueryTypeOK, StampedOnce
    <2>2. history \in Seq(Entry) /\ Len(history) <= MaxCached
      BY <2>1, ReadOfRows
    <2>3. cache' = [cache EXCEPT ![query[q].process][s] = history]
      BY <1>5 DEF ReadHistory
    <2> HIDE DEF history
    <2> QED
      BY <1>1, <1>3, <2>2, <2>3, OneCached
  <1>6. ASSUME NEW q \in Queries, CacheMessage(q)
        PROVE  CacheType' /\ CacheBound'
    <2> DEFINE s == query[q].session
               p == query[q].process
               m == [role |-> query[q].role, of |-> q]
               history == Recent(Append(cache[p][s], m))
    <2>1. Append(cache[p][s], m) \in Seq(Entry)
      <3>1. cache[p][s] \in Seq(Entry) /\ m \in Entry
        BY <1>3 DEF CacheType, Entry
      <3> HIDE DEF m
      <3> QED
        BY <3>1
    <2>2. history \in Seq(Entry) /\ Len(history) <= MaxCached
      BY <2>1, RecentOfHistory
    <2>3. cache' = [cache EXCEPT ![p][s] = history]
      BY <1>6 DEF CacheMessage
    <2> HIDE DEF history
    <2> QED
      BY <1>1, <1>3, <2>2, <2>3, OneCached
  <1>7. \/ UNCHANGED cache
        \/ \E q \in Queries : CheckSession(q) \/ ReadHistory(q) \/ CacheMessage(q)
    BY DEF QueryNext, queryVars, Ask, LockSession, FindNoSession, InsertSession,
       Commit, CommitFails,
           EmbeddingFails, Complete, CompletionFails, SendOpening, QuotaRefused, SendToken, Send,
           ProviderFails, Finish, Disconnect, Retrieve, DeleteKnowledgeBase
  <1> QED
    BY <1>2, <1>4, <1>5, <1>6, <1>7

(***************************************************************************)
(* A message is committed                                                  *)
(***************************************************************************)

\* What Commit does.
Stores(q) ==
  LET s == query[q].session
      m == [role |-> query[q].role, of |-> q, at |-> query[q].at]
  IN
  /\ query[q].pc \in {"locked", "inserted"}
  /\ Goes(q, query[q].pc, "committed") /\ Same(q)
  /\ UNCHANGED deleted
  /\ messages' = [messages EXCEPT ![s] = @ \cup {m}]
  /\ session' = [session EXCEPT ![s] = query[q].owner]
  /\ query[q].owner \in Owners \ deleted
  /\ session[s] \in {query[q].owner, Nobody}

LEMMA CommitStores ==
  ASSUME QueryTypeOK, RequestsType, RowsType, BoundInv, SessionInv, NEW q \in Queries, Commit(q)
  PROVE  Stores(q)
  <1> DEFINE s == query[q].session
  <1>1. Goes(q, query[q].pc, "committed") /\ Same(q)
    BY AppendMoves
  <1>2. /\ query[q].pc \in {"locked", "inserted"} /\ UNCHANGED deleted
        /\ messages' = [messages EXCEPT ![s] =
                          @ \cup {[role |-> query[q].role, of |-> q, at |-> query[q].at]}]
        /\ session' = IF query[q].pc = "inserted" THEN [session EXCEPT ![s] = query[q].owner]
                                                  ELSE session
    BY DEF Commit, Uncommitted, IsAt
  <1>3. /\ s \in Sessions /\ SessionOk(q) /\ query[q].owner \in Owners
        /\ session \in [Sessions -> (Owners \ deleted) \cup {Nobody}]
    BY <1>2 DEF SessionInv, SessionOk, RequestsType, Request, QueryTypeOK
  <1>4. CASE query[q].pc = "inserted"
    BY <1>1, <1>2, <1>3, <1>4 DEF Stores, SessionOk
  <1>5. CASE query[q].pc = "locked"
    <2>1. session[s] = query[q].owner
      BY <1>3, <1>5 DEF SessionOk
    <2>2. session' = [session EXCEPT ![s] = query[q].owner]
      BY <1>2, <1>3, <1>5, <2>1
    <2>3. query[q].owner \notin deleted
      BY <1>3, <2>1, QueryServiceAssumption
    <2> QED
      BY <1>1, <1>2, <1>3, <2>1, <2>2, <2>3 DEF Stores
  <1> QED
    BY <1>2, <1>4, <1>5

\* The rows of the session grow by one message, later than the others.
LEMMA CommitKeepsRows ==
  ASSUME QueryTypeOK, RequestsType, RowsType, BoundInv, StampInv, NEW q \in Queries, Stores(q)
  PROVE  LET s == query[q].session
             m == [role |-> query[q].role, of |-> q, at |-> query[q].at]
         IN  /\ s \in Sessions /\ m \in Message
             /\ messages'[s] = messages[s] \cup {m}
             /\ \A t \in Sessions \ {s} : messages'[t] = messages[t]
             /\ \A t \in Sessions \ {s} : session'[t] = session[t]
             /\ session'[s] = query[q].owner
             /\ \A n \in messages[s] : n.at < m.at
             /\ RowsType' /\ \A t \in Sessions : StampedOnce(messages'[t])
             /\ \A t \in Sessions : IsPrefix(Sorted(messages[t]), Sorted(messages'[t]))
  <1> DEFINE s == query[q].session
             m == [role |-> query[q].role, of |-> q, at |-> query[q].at]
  <1>1. s \in Sessions /\ m \in Message
    BY DEF RequestsType, Request, Message
  <1>2. /\ messages'[s] = messages[s] \cup {m}
        /\ \A t \in Sessions \ {s} : messages'[t] = messages[t]
        /\ \A t \in Sessions \ {s} : session'[t] = session[t]
        /\ session'[s] = query[q].owner
    BY <1>1 DEF Stores, RowsType, QueryTypeOK
  <1>3. \A n \in messages[s] : n.at < m.at
    BY DEF StampInv, Stores
  <1>4. ASSUME NEW t \in Sessions
        PROVE  /\ messages[t] \in SUBSET Message /\ IsFiniteSet(messages[t])
               /\ StampedOnce(messages[t])
    BY DEF RowsType, QueryTypeOK, StampedOnce
  <1>5. messages' \in [Sessions -> SUBSET Message]
    BY <1>1 DEF Stores, RowsType
  <1> HIDE DEF m, s
  <1>6. /\ IsFiniteSet(messages'[s]) /\ StampedOnce(messages'[s])
        /\ IsPrefix(Sorted(messages[s]), Sorted(messages'[s]))
    BY <1>1, <1>2, <1>3, <1>4, SortedGrows
  <1>7. ASSUME NEW t \in Sessions \ {s}
        PROVE  IsPrefix(Sorted(messages[t]), Sorted(messages'[t]))
    <2>1. Sorted(messages[t]) \in Seq(messages[t])
      BY <1>4, SortedRows
    <2>2. Len(Sorted(messages[t])) <= Len(Sorted(messages[t]))
      BY <2>1, LenProperties
    <2> QED
      BY <1>2, <2>2 DEF IsPrefix
  <1>8. RowsType' /\ \A t \in Sessions : StampedOnce(messages'[t])
    BY <1>2, <1>4, <1>5, <1>6 DEF RowsType
  <1> QED
    BY <1>1, <1>2, <1>3, <1>6, <1>7, <1>8 DEF m, s

LEMMA CommitKeepsTypes ==
  ASSUME QueryTypeOK, RequestsType, RowsType, BoundInv, StampInv, NEW q \in Queries, Stores(q)
  PROVE  /\ session' \in [Sessions -> (Owners \ deleted') \cup {Nobody}]
         /\ \A s \in Sessions : session'[s] = Nobody => messages'[s] = {}
         /\ BoundInv'
  <1> DEFINE s == query[q].session
             m == [role |-> query[q].role, of |-> q, at |-> query[q].at]
  <1>1. session' \in [Sessions -> (Owners \ deleted') \cup {Nobody}]
    BY DEF Stores, QueryTypeOK
  <1>2. /\ s \in Sessions /\ session'[s] = query[q].owner /\ query[q].owner # Nobody
        /\ messages'[s] = messages[s] \cup {m}
        /\ \A t \in Sessions \ {s} : messages'[t] = messages[t] /\ session'[t] = session[t]
    BY CommitKeepsRows, QueryServiceAssumption DEF Stores
  <1>3. \A t \in Sessions : session'[t] = Nobody => messages'[t] = {}
    BY <1>2 DEF QueryTypeOK
  <1>4. \A r \in Queries : query'[r].at = query[r].at /\ query'[r].session = query[r].session
    BY DEF Stores, Goes, Only, Same, SameStamp
  <1>5. ASSUME NEW t \in Sessions, NEW n \in Nat, \A k \in messages[t] : k.at <= n,
               \A r \in Queries : query[r].session = t => query[r].at <= n
        PROVE  \A k \in messages'[t] : k.at <= n
    <2>1. m.at = query[q].at
      OBVIOUS
    <2> HIDE DEF m
    <2> QED
      BY <1>2, <1>5, <2>1
  <1>6. BoundInv'
    <2> HIDE DEF m, s
    <2> QED
      BY <1>4, <1>5 DEF BoundInv
  <1> QED
    BY <1>1, <1>3, <1>6

LEMMA CommitKeepsSession ==
  ASSUME QueryTypeOK, RequestsType, RowsType, BoundInv, StampInv, SessionInv,
         NEW q \in Queries, Stores(q)
  PROVE  SessionInv' /\ StampInv'
  <1> DEFINE s == query[q].session
             m == [role |-> query[q].role, of |-> q, at |-> query[q].at]
             late == {"locked", "inserted"}
  <1>1. /\ s \in Sessions /\ m.role = query[q].role /\ m.of = q
        /\ session'[s] = query[q].owner /\ query[q].owner # Nobody
        /\ session[s] \in {query[q].owner, Nobody}
        /\ messages'[s] = messages[s] \cup {m}
        /\ \A t \in Sessions \ {s} : messages'[t] = messages[t] /\ session'[t] = session[t]
        /\ deleted' = deleted
    BY CommitKeepsRows, QueryServiceAssumption DEF Stores
  <1>2. /\ query'[q].pc = "committed" /\ query[q].pc \in late
        /\ query'[q].owner = query[q].owner /\ query'[q].session = s
        /\ query'[q].role = query[q].role
        /\ \A r \in Queries \ {q} : query'[r] = query[r]
        /\ query[q].owner \in Owners
    BY DEF Stores, Goes, Only, Same, SameText
  <1>3. \A r \in Queries : query[r].session \in Sessions /\ query[r].role \in {"user", "assistant"}
    BY DEF RequestsType, Request
  <1> HIDE DEF m
  <1>4. ASSUME NEW r \in Queries \ {q}
        PROVE  SessionOk(r)'
    <2>1. SessionOk(r)
      BY DEF SessionInv
    <2>2. query[r].session = s => query[r].pc \notin late
      BY <1>2 DEF StampInv
    <2>3. Remembered(r) => Remembered(r)'
      <3>1. CASE query[r].owner \in deleted
        BY <1>1, <1>2, <3>1 DEF Remembered
      <3>2. ASSUME session[query[r].session] = query[r].owner, query[r].owner \notin deleted,
                   NEW n \in messages[query[r].session], n.role = "user", n.of = r
            PROVE  Remembered(r)'
        <4>1. session[query[r].session] # Nobody
          BY <1>3 DEF QueryTypeOK
        <4>2. session'[query[r].session] = session[query[r].session]
          BY <1>1, <1>3, <4>1
        <4>3. n \in messages'[query[r].session]
          BY <1>1, <1>3
        <4> QED
          BY <1>2, <3>2, <4>2, <4>3 DEF Remembered
      <3> QED
        BY <3>1, <3>2 DEF Remembered
    <2>4. Stored(r)' => Stored(r)
      BY <1>2 DEF Stored
    <2>5. ASSUME query[r].pc \in late
          PROVE  session'[query[r].session] = session[query[r].session]
      BY <1>1, <1>3, <2>2, <2>5
    <2>6. ASSUME query[r].pc = "reading", ~query[r].replaced
          PROVE  session'[query[r].session] = session[query[r].session]
      <3>1. session[query[r].session] \in Owners
        BY <2>1, <2>6 DEF SessionOk
      <3> QED
        BY <1>1, <1>3, <3>1, QueryServiceAssumption
    <2> QED
      BY <1>1, <1>2, <2>1, <2>3, <2>4, <2>5, <2>6 DEF SessionOk
  <1>5. SessionOk(q)'
    <2>1. Remembered(q)'
      <3>1. CASE query[q].role = "user"
        BY <1>1, <1>2, <3>1 DEF Remembered
      <3>2. CASE query[q].role = "assistant"
        <4>1. Remembered(q)
          BY <1>2, <3>2 DEF SessionInv, SessionOk, Stored, Writing
        <4> QED
          BY <1>1, <1>2, <4>1 DEF Remembered
      <3> QED
        BY <1>3, <3>1, <3>2
    <2> QED
      BY <1>2, <2>1 DEF SessionOk
  <1>6. StampInv'
    <2> SUFFICES ASSUME NEW r \in Queries, query'[r].pc \in late
                 PROVE  /\ \A n \in messages'[query'[r].session] : n.at < query'[r].at
                        /\ \A a \in Queries :
                             (query'[a].pc \in late /\ query'[a].session = query'[r].session)
                               => a = r
      BY DEF StampInv
    <2>1. r # q /\ query'[r] = query[r]
      BY <1>2
    <2>2. query[r].session # s
      BY <1>2, <2>1 DEF StampInv
    <2>3. messages'[query[r].session] = messages[query[r].session]
      BY <1>1, <1>3, <2>2
    <2>4. \A n \in messages[query[r].session] : n.at < query[r].at
      BY <2>1 DEF StampInv
    <2>5. \A a \in Queries :
            (query'[a].pc \in late /\ query'[a].session = query[r].session) => a = r
      BY <1>2, <2>1, <2>2 DEF StampInv
    <2> QED
      BY <2>1, <2>3, <2>4, <2>5
  <1> QED
    BY <1>4, <1>5, <1>6 DEF SessionInv

LEMMA CommitKeepsAnswer ==
  ASSUME RequestsType, AnswerInv, NEW q \in Queries, Stores(q)
  PROVE  AnswerInv'
  <1>1. ASSUME NEW r \in Queries \ {q}
        PROVE  AnswerOk(r)'
    BY DEF Stores, Goes, Only, AnswerInv, AnswerOk, FramesGood, Answered, Sent
  <1>2. AnswerOk(q)'
    BY DEF Stores, Goes, Same, SameText, AnswerInv, AnswerOk, Writing, Over, FramesGood,
           Answered, Sent
  <1> QED
    BY <1>1, <1>2 DEF AnswerInv

LEMMA CommitKeepsContext ==
  ASSUME RequestsType, ContextInv, NEW q \in Queries, Stores(q)
  PROVE  ContextInv'
  <1>1. ASSUME NEW r \in Queries
        PROVE  /\ query'[r].owner = query[r].owner /\ query'[r].replaced = query[r].replaced
               /\ query'[r].context = query[r].context
               /\ query[r].pc # "idle" => query'[r].pc # "idle"
    BY DEF Stores, Goes, Only, Same, SameContext
  <1>2. \A r \in Queries : query[r].context \in SUBSET Queries
    BY DEF RequestsType, Request
  <1> QED
    BY <1>1, <1>2 DEF ContextInv

\* An answer is stored behind its question, and was complete.
LEMMA CommitKeepsMessages ==
  ASSUME QueryTypeOK, RequestsType, RowsType, BoundInv, StampInv, SessionInv,
         AnswerInv, MessagesInv,
         NEW q \in Queries, Stores(q)
  PROVE  MessagesInv'
  <1> DEFINE s == query[q].session
             Fits(t, k, rows) ==
               /\ query'[k.of].pc # "idle" /\ query'[k.of].owner = session'[t]
               /\ k.role = "assistant" =>
                    /\ \E n \in rows : n.role = "user" /\ n.of = k.of /\ n.at < k.at
                    /\ \/ query'[k.of].pc \in Over
                       \/ query'[k.of].pc = "committed" /\ query'[k.of].role = "assistant"
                    /\ query'[k.of].streams => FramesGood(k.of)'
  <1>1. PICK m : m = [role |-> query[q].role, of |-> q, at |-> query[q].at]
    OBVIOUS
  <1>2. /\ s \in Sessions /\ m.role = query[q].role /\ m.of = q /\ m.at = query[q].at
        /\ session'[s] = query[q].owner /\ query[q].owner \in Owners \ deleted
        /\ session[s] \in {query[q].owner, Nobody}
        /\ messages'[s] = messages[s] \cup {m} /\ \A n \in messages[s] : n.at < m.at
        /\ \A t \in Sessions \ {s} : messages'[t] = messages[t] /\ session'[t] = session[t]
    BY <1>1, CommitKeepsRows DEF Stores
  <1>3. /\ query'[q].pc = "committed" /\ query[q].pc \in {"locked", "inserted"}
        /\ query'[q].owner = query[q].owner /\ query'[q].streams = query[q].streams
        /\ query'[q].role = query[q].role /\ query'[q].frames = query[q].frames
        /\ \A r \in Queries \ {q} : query'[r] = query[r]
    BY DEF Stores, Goes, Only, Same, SameText
  <1>4. ASSUME NEW t \in Sessions, NEW k \in messages[t]
        PROVE  Fits(t, k, messages[t])
    <2>1. k.of \in Queries /\ session[t] # Nobody
      BY DEF RowsType, Message, QueryTypeOK
    <2>2. session'[t] = session[t]
      BY <1>2, <2>1
    <2>3. k.of = q => k.role # "assistant"
      BY <1>3 DEF MessagesInv, Over
    <2>4. CASE k.of # q
      BY <1>3, <2>1, <2>2, <2>4 DEF MessagesInv, FramesGood, Answered, Sent
    <2>5. CASE k.of = q
      BY <1>3, <2>2, <2>3, <2>5 DEF MessagesInv
    <2> QED
      BY <2>4, <2>5
  <1>5. Fits(s, m, messages[s])
    <2>1. query'[q].pc # "idle" /\ query'[q].owner = session'[s]
      BY <1>2, <1>3
    <2>2. ASSUME query[q].role = "assistant"
          PROVE  /\ \E n \in messages[s] : n.role = "user" /\ n.of = q /\ n.at < m.at
                 /\ query'[q].streams => FramesGood(q)'
      <3>1. Remembered(q)
        BY <1>3, <2>2 DEF SessionInv, SessionOk, Stored, Writing
      <3>2. \E n \in messages[s] : n.role = "user" /\ n.of = q /\ n.at < m.at
        BY <1>2, <3>1 DEF Remembered
      <3>3. query[q].streams => FramesGood(q)
        BY <1>3, <2>2 DEF AnswerInv, AnswerOk, Writing
      <3> QED
        BY <1>3, <3>2, <3>3 DEF FramesGood, Answered, Sent
    <2> QED
      BY <1>2, <1>3, <2>1, <2>2
  <1>6. ASSUME NEW t \in Sessions, NEW k \in messages'[t]
        PROVE  Fits(t, k, messages'[t])
    <2>1. messages[t] \subseteq messages'[t]
      BY <1>2
    <2>2. Fits(t, k, messages[t])
      <3>1. CASE k \in messages[t]
        BY <1>4, <3>1
      <3>2. CASE k \notin messages[t]
        <4>1. t = s /\ k = m
          BY <1>2, <3>2
        <4> HIDE DEF Fits
        <4> QED
          BY <1>5, <4>1
      <3> QED
        BY <3>1, <3>2
    <2> QED
      BY <2>1, <2>2
  <1> QED
    BY <1>6 DEF MessagesInv

(***************************************************************************)
(* A knowledge base is deleted                                             *)
(***************************************************************************)

LEMMA ReplacedRequest ==
  ASSUME NEW x \in Request, NEW y, y = [x EXCEPT !.replaced = TRUE]
  PROVE  /\ y \in Request /\ y.replaced
         /\ y.pc = x.pc /\ y.owner = x.owner /\ y.session = x.session /\ y.role = x.role
         /\ y.streams = x.streams /\ y.at = x.at /\ y.frames = x.frames
         /\ y.context = x.context
  BY DEF Request

\* Its sessions go, with their messages; requests that were about to read one
\* have lost it.
LEMMA Deletion ==
  ASSUME QueryTypeOK, RequestsType, RowsType, NEW o \in Owners, DeleteKnowledgeBase(o)
  PROVE  /\ deleted' = deleted \cup {o} /\ UNCHANGED cache
         /\ \A s \in Sessions :
              \/ session[s] = o /\ session'[s] = Nobody /\ messages'[s] = {}
              \/ session[s] # o /\ session'[s] = session[s] /\ messages'[s] = messages[s]
         /\ session' \in [Sessions -> (Owners \ deleted') \cup {Nobody}]
         /\ RequestsType' /\ RowsType'
         /\ \A q \in Queries :
              \/ /\ query'[q] = query[q]
                 /\ query[q].pc = "reading" => session[query[q].session] # o
              \/ query[q].pc = "reading" /\ query'[q] = [query[q] EXCEPT !.replaced = TRUE]
         /\ \A q \in Queries :
              /\ query[q].pc = "locked" => session[query[q].session] # o
              /\ query[q].pc = "inserted" => query[q].owner # o
  <1>1. /\ session' = [s \in Sessions |-> IF session[s] = o THEN Nobody ELSE session[s]]
        /\ messages' = [s \in Sessions |-> IF session[s] = o THEN {} ELSE messages[s]]
        /\ deleted' = deleted \cup {o} /\ UNCHANGED cache
    BY DEF DeleteKnowledgeBase
  <1>2. \A q \in Queries : query[q] \in Request /\ query[q].session \in Sessions
    BY DEF RequestsType, Request
  <1>3. query' = [q \in Queries |-> IF query[q].pc = "reading" /\ session[query[q].session] = o
                                    THEN [query[q] EXCEPT !.replaced = TRUE] ELSE query[q]]
    BY <1>2 DEF DeleteKnowledgeBase, IsAt
  <1>4. \A q \in Queries : [query[q] EXCEPT !.replaced = TRUE] \in Request
    BY <1>2, ReplacedRequest
  <1>5. RequestsType'
    BY <1>2, <1>3, <1>4 DEF RequestsType
  <1>6. RowsType'
    BY <1>1, FS_EmptySet DEF RowsType
  <1>7. session' \in [Sessions -> (Owners \ deleted') \cup {Nobody}]
    BY <1>1 DEF QueryTypeOK
  <1>8. \A q \in Queries :
          /\ query[q].pc = "locked" => session[query[q].session] # o
          /\ query[q].pc = "inserted" => query[q].owner # o
    BY <1>2 DEF DeleteKnowledgeBase, IsAt
  <1> QED
    BY <1>1, <1>3, <1>5, <1>6, <1>7, <1>8

LEMMA DeletionKeepsRest ==
  ASSUME QueryInv, NEW o \in Owners, DeleteKnowledgeBase(o)
  PROVE  /\ BoundInv' /\ SessionInv' /\ StampInv' /\ AnswerInv' /\ MessagesInv' /\ ContextInv'
         /\ \A s \in Sessions : /\ session'[s] = Nobody => messages'[s] = {}
                                /\ StampedOnce(messages'[s])
  <1>1. /\ QueryTypeOK /\ RequestsType /\ RowsType /\ BoundInv /\ SessionInv /\ StampInv
        /\ AnswerInv
        /\ MessagesInv /\ ContextInv
    BY DEF QueryInv
  <1>2. /\ deleted' = deleted \cup {o}
        /\ \A s \in Sessions :
             \/ session[s] = o /\ session'[s] = Nobody /\ messages'[s] = {}
             \/ session[s] # o /\ session'[s] = session[s] /\ messages'[s] = messages[s]
    BY <1>1, Deletion
  <1>3. ASSUME NEW q \in Queries
        PROVE  /\ query'[q].pc = query[q].pc /\ query'[q].owner = query[q].owner
               /\ query'[q].session = query[q].session /\ query'[q].role = query[q].role
               /\ query'[q].streams = query[q].streams /\ query'[q].at = query[q].at
               /\ query'[q].frames = query[q].frames /\ query'[q].context = query[q].context
               /\ query[q].replaced => query'[q].replaced
               /\ (query[q].pc = "reading" /\ session[query[q].session] = o) => query'[q].replaced
               /\ query[q].pc = "locked" => session[query[q].session] # o
               /\ query[q].pc = "inserted" => query[q].owner # o
               /\ query[q] \in Request /\ query[q].session \in Sessions
    <2>1. query[q] \in Request /\ query[q].session \in Sessions
      BY <1>1 DEF RequestsType, Request
    <2>2. /\ \/ /\ query'[q] = query[q]
                /\ query[q].pc = "reading" => session[query[q].session] # o
             \/ query[q].pc = "reading" /\ query'[q] = [query[q] EXCEPT !.replaced = TRUE]
          /\ query[q].pc = "locked" => session[query[q].session] # o
          /\ query[q].pc = "inserted" => query[q].owner # o
      BY <1>1, Deletion
    <2> QED
      BY <2>1, <2>2, ReplacedRequest
  <1>4. o # Nobody
    BY QueryServiceAssumption
  <1>5. BoundInv'
    <2>1. ASSUME NEW s \in Sessions
          PROVE  messages'[s] \subseteq messages[s]
      BY <1>2
    <2>2. ASSUME NEW s \in Sessions
          PROVE  \E n \in Nat :
                   /\ \A m \in messages'[s] : m.at <= n
                   /\ \A q \in Queries : query'[q].session = s => query'[q].at <= n
      <3>1. PICK n \in Nat : /\ \A m \in messages[s] : m.at <= n
                             /\ \A q \in Queries : query[q].session = s => query[q].at <= n
        BY <1>1 DEF BoundInv
      <3> QED
        BY <1>3, <2>1, <3>1
    <2> QED
      BY <2>2 DEF BoundInv
  <1>6. SessionInv'
    <2> SUFFICES ASSUME NEW q \in Queries
                 PROVE  SessionOk(q)'
      BY DEF SessionInv
    <2>1. SessionOk(q)
      BY <1>1 DEF SessionInv
    <2>2. Stored(q)' = Stored(q)
      BY <1>3 DEF Stored
    <2>3. Remembered(q) => Remembered(q)'
      BY <1>2, <1>3 DEF Remembered
    <2> QED
      BY <1>2, <1>3, <2>1, <2>2, <2>3 DEF SessionOk
  <1>7. StampInv'
    BY <1>1, <1>2, <1>3 DEF StampInv
  <1>8. AnswerInv'
    BY <1>1, <1>3 DEF AnswerInv, AnswerOk, FramesGood, Answered, Sent
  <1>9. MessagesInv'
    <2> SUFFICES ASSUME NEW s \in Sessions, NEW m \in messages'[s]
                 PROVE  /\ query'[m.of].pc # "idle" /\ query'[m.of].owner = session'[s]
                        /\ m.role = "assistant" =>
                             /\ \E n \in messages'[s] : /\ n.role = "user" /\ n.of = m.of
                                                        /\ n.at < m.at
                             /\ \/ query'[m.of].pc \in Over
                                \/ /\ query'[m.of].pc = "committed"
                                   /\ query'[m.of].role = "assistant"
                             /\ query'[m.of].streams => FramesGood(m.of)'
      BY DEF MessagesInv
    <2>1. m \in messages[s] /\ messages'[s] = messages[s] /\ session'[s] = session[s]
      BY <1>2
    <2>2. m.of \in Queries
      BY <1>1, <2>1 DEF RowsType, Message
    <2> QED
      BY <1>1, <1>3, <2>1, <2>2 DEF MessagesInv, FramesGood, Answered, Sent
  <1>10. ContextInv'
    <2>1. \A q \in Queries : query[q].context \in SUBSET Queries
      BY <1>3 DEF Request
    <2> QED
      BY <1>1, <1>3, <2>1 DEF ContextInv
  <1>11. ASSUME NEW s \in Sessions
         PROVE  /\ session'[s] = Nobody => messages'[s] = {}
                /\ StampedOnce(messages'[s])
    BY <1>1, <1>2, <1>4 DEF QueryTypeOK, StampedOnce
  <1> QED
    BY <1>5, <1>6, <1>7, <1>8, <1>9, <1>10, <1>11

(***************************************************************************)
(* The invariant holds                                                     *)
(***************************************************************************)

LEMMA QueryInvInit == QueryInit => QueryInv
  <1> SUFFICES ASSUME QueryInit
               PROVE  QueryInv
    OBVIOUS
  <1>1. /\ session = [s \in Sessions |-> Nobody] /\ messages = [s \in Sessions |-> {}]
        /\ cache = [p \in Processes |-> [s \in Sessions |-> <<>>]]
        /\ query = [q \in Queries |-> NotAsked] /\ deleted = {}
    BY DEF QueryInit
  <1>2. /\ NotAsked.pc = "idle" /\ NotAsked.role = "user" /\ NotAsked.at = 0
        /\ NotAsked.frames = <<>> /\ NotAsked.context = {} /\ NotAsked \in Request
    BY NotAskedType DEF NotAsked
  <1>3. RequestsType
    BY <1>1, <1>2 DEF RequestsType
  <1>4. RowsType
    BY <1>1, FS_EmptySet DEF RowsType
  <1>5. <<>> \in Seq(Entry) /\ Len(<<>>) = 0 /\ <<>> \in Seq(Frames) /\ "error" \notin Range(<<>>)
    BY DEF Range
  <1>6. CacheType
    BY <1>1, <1>5 DEF CacheType
  <1>7. QueryTypeOK
    <2>1. \A p \in Processes, s \in Sessions : Len(cache[p][s]) <= MaxCached
      BY <1>1, <1>5, QueryServiceAssumption
    <2>2. \A q \in Queries : query[q].pc \in PCs /\ query[q].frames \in Seq(Frames)
      BY <1>1, <1>2, <1>5 DEF PCs
    <2> QED
      BY <1>1, <2>1, <2>2 DEF QueryTypeOK
  <1>8. BoundInv
    <2>1. \A q \in Queries : query[q].at <= 0
      BY <1>1, <1>2
    <2> QED
      BY <1>1, <2>1 DEF BoundInv
  <1>9. SessionInv /\ StampInv
    BY <1>1, <1>2 DEF SessionInv, SessionOk, Stored, StampInv
  <1>10. AnswerInv
    BY <1>1, <1>2, <1>5 DEF AnswerInv, AnswerOk
  <1>11. MessagesInv /\ ContextInv
    BY <1>1, <1>2 DEF MessagesInv, ContextInv
  <1> QED
    BY <1>3, <1>4, <1>6, <1>7, <1>8, <1>9, <1>10, <1>11 DEF QueryInv

\* The parts of QueryTypeOK.
LEMMA TypeParts ==
  ASSUME RequestsType', RowsType', CacheBound', deleted' \in SUBSET Owners,
         session' \in [Sessions -> (Owners \ deleted') \cup {Nobody}],
         \A s \in Sessions : /\ session'[s] = Nobody => messages'[s] = {}
                             /\ StampedOnce(messages'[s])
  PROVE  QueryTypeOK'
  BY DEF QueryTypeOK, RequestsType, Request, RowsType, CacheBound, StampedOnce

LEMMA QueryInvStep ==
  ASSUME QueryInv, [QueryNext]_queryVars
  PROVE  QueryInv'
  <1>1. /\ QueryTypeOK /\ RequestsType /\ RowsType /\ CacheType /\ BoundInv /\ SessionInv
        /\ StampInv
        /\ AnswerInv /\ MessagesInv /\ ContextInv
    BY DEF QueryInv
  <1>2. CacheType' /\ CacheBound'
    BY <1>1, CacheIsBounded
  <1>3. ASSUME UNCHANGED rowVars
        PROVE  /\ RowsType' /\ deleted' \in SUBSET Owners
               /\ session' \in [Sessions -> (Owners \ deleted') \cup {Nobody}]
               /\ \A s \in Sessions : /\ session'[s] = Nobody => messages'[s] = {}
                                      /\ StampedOnce(messages'[s])
    BY <1>1, <1>3 DEF rowVars, RowsType, QueryTypeOK, StampedOnce
  <1>4. CASE UNCHANGED <<rowVars, query>>
    <2>1. /\ RequestsType' /\ BoundInv' /\ SessionInv' /\ StampInv' /\ AnswerInv' /\ MessagesInv'
          /\ ContextInv'
      BY <1>1, <1>4
      DEF rowVars, RequestsType, BoundInv, SessionInv, SessionOk, Stored, Remembered, StampInv,
          AnswerInv, AnswerOk, FramesGood, Answered, Sent, MessagesInv, ContextInv
    <2> QED
      BY <1>2, <1>3, <1>4, <2>1, TypeParts DEF QueryInv
  <1>5. ASSUME UNCHANGED rowVars, NEW q \in Queries, RequestStep(q)
        PROVE  QueryInv'
    <2>1. RequestsType'
      BY <1>5 DEF RequestStep, Asks, Leaves, Ends, MayRead, Begins, Reads, Locks, Inserts,
                  Proceeds, Streams, Breaks, Finishes, Goes, Only, RequestsType
    <2>2. /\ BoundInv' /\ SessionInv' /\ StampInv' /\ AnswerInv' /\ MessagesInv' /\ ContextInv'
      BY <1>1, <1>5, RequestKeepsSession, RequestKeepsStamps, RequestKeepsAnswer,
         RequestKeepsMessages, RequestKeepsContext
    <2> QED
      BY <1>2, <1>3, <1>5, <2>1, <2>2, TypeParts DEF QueryInv
  <1>6. ASSUME NEW q \in Queries, Commit(q)
        PROVE  QueryInv'
    <2>1. Stores(q)
      BY <1>1, <1>6, CommitStores
    <2>2. RequestsType' /\ deleted' \in SUBSET Owners
      BY <1>1, <2>1 DEF Stores, Goes, Only, RequestsType, QueryTypeOK
    <2>3. RowsType' /\ \A s \in Sessions : StampedOnce(messages'[s])
      BY <1>1, <2>1, CommitKeepsRows
    <2>4. /\ session' \in [Sessions -> (Owners \ deleted') \cup {Nobody}] /\ BoundInv'
          /\ \A s \in Sessions : session'[s] = Nobody => messages'[s] = {}
      BY <1>1, <2>1, CommitKeepsTypes
    <2>5. SessionInv' /\ StampInv' /\ AnswerInv' /\ MessagesInv' /\ ContextInv'
      BY <1>1, <2>1, CommitKeepsSession, CommitKeepsAnswer, CommitKeepsMessages,
         CommitKeepsContext
    <2> QED
      BY <1>2, <2>2, <2>3, <2>4, <2>5, TypeParts DEF QueryInv
  <1>7. ASSUME NEW o \in Owners, DeleteKnowledgeBase(o)
        PROVE  QueryInv'
    <2>1. /\ RequestsType' /\ RowsType' /\ deleted' \in SUBSET Owners
          /\ session' \in [Sessions -> (Owners \ deleted') \cup {Nobody}]
      BY <1>1, <1>7, Deletion DEF QueryTypeOK
    <2>2. /\ BoundInv' /\ SessionInv' /\ StampInv' /\ AnswerInv' /\ MessagesInv' /\ ContextInv'
          /\ \A s \in Sessions : /\ session'[s] = Nobody => messages'[s] = {}
                                 /\ StampedOnce(messages'[s])
      BY <1>7, DeletionKeepsRest
    <2> QED
      BY <1>2, <2>1, <2>2, TypeParts DEF QueryInv
  <1> QED
    BY <1>1, <1>4, <1>5, <1>6, <1>7, Moves

LEMMA QueryInvHolds == QuerySpec => []QueryInv
  <1>1. QueryInv /\ [QueryNext]_queryVars => QueryInv'
    BY QueryInvStep
  <1> QED
    BY QueryInvInit, <1>1, PTL DEF QuerySpec

(***************************************************************************)
(* Theorems                                                                *)
(***************************************************************************)

\* Sessions belong to knowledge bases that exist, the messages of a session
\* have stamps of their own, the cache of a process keeps to its limit.
THEOREM TypeCorrect == QuerySpec => []QueryTypeOK
  <1>1. QueryInv => QueryTypeOK
    BY DEF QueryInv
  <1> QED
    BY QueryInvHolds, <1>1, PTL

\* However many clients ask, leave and fail in one session: an answer that is
\* stored (append_message_db) follows its question and had been completed.
THEOREM StoredAnswersAreComplete == QuerySpec => []AnswersAreComplete
  <1>1. QueryInv => AnswersAreComplete
    BY DEF QueryInv, MessagesInv, FramesGood, AnswersAreComplete
  <1> QED
    BY QueryInvHolds, <1>1, PTL

\* contextualize_query sees the questions of its own user only, whatever ids
\* the clients choose for their sessions.
THEOREM ContextsAreOwn == QuerySpec => []ContextIsOwn
  <1>1. QueryInv => ContextIsOwn
    BY DEF QueryInv, ContextInv, ContextIsOwn
  <1> QED
    BY QueryInvHolds, <1>1, PTL

\* A session that is read twice shows the same history, and perhaps more of it.
THEOREM HistoriesGrow == QuerySpec => HistoryOnlyGrows
  <1> DEFINE Grows == \A s \in Sessions : (session[s] # Nobody /\ session'[s] = session[s])
                        => IsPrefix(Sorted(messages[s]), Sorted(messages'[s]))
  <1>1. ASSUME QueryInv, [QueryNext]_queryVars
        PROVE  Grows
    <2>1. /\ QueryTypeOK /\ RequestsType /\ RowsType /\ CacheType /\ BoundInv /\ SessionInv
          /\ StampInv
      BY <1>1 DEF QueryInv
    <2>2. ASSUME NEW s \in Sessions, messages'[s] = messages[s]
          PROVE  IsPrefix(Sorted(messages[s]), Sorted(messages'[s]))
      <3>1. /\ messages[s] \in SUBSET Message /\ IsFiniteSet(messages[s])
            /\ StampedOnce(messages[s])
        BY <2>1 DEF RowsType, QueryTypeOK, StampedOnce
      <3>2. Len(Sorted(messages[s])) <= Len(Sorted(messages[s]))
        BY <3>1, SortedRows, LenProperties
      <3> QED
        BY <2>2, <3>2 DEF IsPrefix
    <2>3. CASE UNCHANGED rowVars
      BY <2>2, <2>3 DEF rowVars
    <2>4. ASSUME NEW q \in Queries, Commit(q)
          PROVE  Grows
      <3>1. Stores(q)
        BY <2>1, <2>4, CommitStores
      <3> QED
        BY <2>1, <3>1, CommitKeepsRows
    <2>5. ASSUME NEW o \in Owners, DeleteKnowledgeBase(o)
          PROVE  Grows
      <3>1. \A s \in Sessions : messages'[s] = messages[s] \/ session'[s] = Nobody
        BY <2>1, <2>5, Deletion
      <3> QED
        BY <2>2, <3>1
    <2> HIDE DEF Grows
    <2> QED
      BY <1>1, <2>1, <2>3, <2>4, <2>5, Moves
  <1>2. QueryInv /\ [QueryNext]_queryVars => [Grows]_queryVars
    BY <1>1
  <1>3. QuerySpec => [][Grows]_queryVars
    BY QueryInvHolds, <1>2, PTL DEF QuerySpec
  <1> QED
    BY <1>3 DEF HistoryOnlyGrows
=============================================================================
