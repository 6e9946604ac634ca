--------------------------- MODULE ThinkingFilter --------------------------
(***************************************************************************)
(* The filter of src/src/services/rag/stream.py that removes the model's   *)
(* <think>...</think> passages from deltas that may split a marker         *)
(* anywhere.  The markers are shortened to three symbols that overlap the  *)
(* way the real ones do: they share their first and their last symbol.     *)
(***************************************************************************)
EXTENDS Naturals, SequencesExt

CONSTANTS
  Symbols,    \* the alphabet of the deltas
  Opening,    \* <think>
  Closing,    \* </think>
  MaxDelta,   \* bound: symbols per delta
  MaxText     \* bound: symbols per answer

ASSUME FilterAssumption ==
  /\ Opening \in Seq(Symbols) /\ Closing \in Seq(Symbols) /\ Opening # <<>> /\ Closing # <<>>
  /\ MaxDelta \in Nat /\ MaxText \in Nat

VARIABLES
  text,      \* history: everything the provider has sent
  filter,    \* the filter's state: pending, thinking
  shown      \* what has been passed on to the client

thinkVars == <<text, filter, shown>>

Marker(thinking) == IF thinking THEN Closing ELSE Opening

FilterTypeOK ==
  /\ text \in Seq(Symbols) /\ shown \in Seq(Symbols) /\ Len(text) <= MaxText
  /\ filter \in [pending : Seq(Symbols), thinking : BOOLEAN]
  /\ Len(filter.pending) < Len(Marker(filter.thinking))

FilterInit == text = <<>> /\ shown = <<>> /\ filter = [pending |-> <<>>, thinking |-> FALSE]

\* str.find: where marker m first occurs in s, 0 if nowhere
Find(s, m) ==
  LET at == {i \in 1..(Len(s) + 1 - Len(m)) : SubSeq(s, i, i + Len(m) - 1) = m}
  IN  IF at = {} THEN 0 ELSE Min(at)
Drop(s, n) == SubSeq(s, n + 1, Len(s))

\* longest_prefix_suffix: the longest proper prefix of m that ends s.
\* Mutant: only whole markers are looked for.
PartialMarkerNever(s, m) == 0
PartialMarker(s, m) ==
  Max({n \in 0..(Len(m) - 1) :
         n <= Len(s) /\ SubSeq(m, 1, n) = SubSeq(s, Len(s) + 1 - n, Len(s))})

\* What the client may see of a stretch of text.
Visible(s, thinking) == IF thinking THEN <<>> ELSE s

(***************************************************************************)
(* _filter_thinking_delta on the pending text: [visible, pending, thinking]*)
(***************************************************************************)

\* A turn of the loop that finds a marker: reading goes on behind it.
PassMarker(f) ==
  LET m == Marker(f.thinking)
      i == Find(f.pending, m)
  IN  IF i = 0 THEN f
      ELSE [visible |-> f.visible \o Visible(SubSeq(f.pending, 1, i - 1), f.thinking),
            pending |-> Drop(f.pending, i + Len(m) - 1),
            thinking |-> ~f.thinking]

\* The last turn finds none: only what may be the start of one is kept back.
KeepPartial(f) ==
  LET keep == Len(f.pending) - PartialMarker(f.pending, Marker(f.thinking))
  IN  [f EXCEPT !.visible = @ \o Visible(SubSeq(f.pending, 1, keep), f.thinking),
                !.pending = Drop(@, keep)]

\* There are no more markers than symbols.
Filtered(pending, thinking) ==
  LET turn[n \in 0..Len(pending)] ==
        IF n = 0 THEN [visible |-> <<>>, pending |-> pending, thinking |-> thinking]
        ELSE PassMarker(turn[n - 1])
  IN  KeepPartial(turn[Len(pending)])

\* One delta of the provider's stream.
Delta(d) ==
  LET f == Filtered(filter.pending \o d, filter.thinking) IN
  /\ Len(text) + Len(d) <= MaxText
  /\ text' = text \o d
  /\ shown' = shown \o f.visible
  /\ filter' = [pending |-> f.pending, thinking |-> f.thinking]

FilterNext == \E d \in BoundedSeq(Symbols, MaxDelta) : d # <<>> /\ Delta(d)

\* _flush_thinking_filter, at the end of the stream
Flushed == Visible(filter.pending, filter.thinking)

FilterSpec == FilterInit /\ [][FilterNext]_thinkVars

(***************************************************************************)
(* Properties                                                              *)
(***************************************************************************)

\* The reference: cut the passages out of the whole text, an unfinished one
\* to its end.
WithoutThinking[s \in Seq(Symbols)] ==
  LET i == Find(s, Opening)
      inside == Drop(s, i + Len(Opening) - 1)
      j == Find(inside, Closing)
  IN  IF i = 0 THEN s
      ELSE SubSeq(s, 1, i - 1)
             \o (IF j = 0 THEN <<>> ELSE WithoutThinking[Drop(inside, j + Len(Closing) - 1)])

\* However the provider cuts its answer into deltas, a client whose stream ends
\* here has been shown the answer without its thinking passages, no symbol of
\* them and nothing less.
ThinkingIsRemoved == shown \o Flushed = WithoutThinking[text]
=============================================================================
