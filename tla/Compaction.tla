----------------------------- MODULE Compaction -----------------------------
(***************************************************************************)
(* ContextCompactor: a text is reduced to a fixed point of the line rules, *)
(* then cut to a token budget: whole trailing lines first, then characters *)
(* of the first line, by binary search over the length of the prefix.      *)
(*                                                                         *)
(* A text is a sequence of lines, and only the length of a text counts for *)
(* the default estimator.                                                  *)
(***************************************************************************)
EXTENDS Integers, Sequences, SequencesExt

CONSTANTS
    Lines, Blank,
    Length,      \* [Lines -> characters]
    Reduced,     \* [Lines -> the line stripped of decoration, or cut to max_line_chars]
    Marker,      \* length of the ellipsis
    MaxChars,    \* bound: characters of a text
    Estimate,    \* [0..MaxChars -> tokens]: monotone, as TokenEstimator requires
    MaxLines     \* bound: lines of a text

ASSUME CompactionAssumption ==
    /\ Blank \in Lines /\ Length \in [Lines -> Nat] /\ Reduced \in [Lines -> Lines]
    /\ Marker \in Nat /\ MaxChars \in Nat /\ MaxLines \in Nat
    /\ Estimate \in [0..MaxChars -> Nat] /\ Estimate[0] = 0
    /\ \A m \in 0..MaxChars, n \in 0..MaxChars : m <= n => Estimate[m] <= Estimate[n]

VARIABLES
    stage,         \* "idle", "compact", "lines", "truncate", "search", "done"
    maxTokens,
    text,          \* the lines still kept
    size,          \* their characters, joined
    suffix,        \* length of the marker the search appends
    lo, hi, best,  \* the search: best is -1 before a prefix fits
    outcome        \* [chars, cut, suffix]: what was returned

compactVars == <<stage, maxTokens, text, size, suffix, lo, hi, best, outcome>>

Nothing == -1

-----------------------------------------------------------------------------
(* Reduction *)

\* A blank line separates once; any other line is kept the first time.
AddLine(out, l) ==
    IF IF l = Blank THEN out # <<>> /\ Last(out) = Blank ELSE l \in ToSet(out)
    THEN out ELSE Append(out, l)

Trimmed(t) ==
    LET solid == {i \in DOMAIN t : t[i] # Blank}
    IN IF solid = {} THEN <<>>
       ELSE SubSeq(t, CHOOSE i \in solid : \A j \in solid : i <= j,
                      CHOOSE i \in solid : \A j \in solid : j <= i)

reduce_once(t) == Trimmed(FoldLeft(AddLine, <<>>, [i \in DOMAIN t |-> Reduced[t[i]]]))

\* Joined by newlines.
Chars(t) ==
    IF t = <<>> THEN 0 ELSE FoldLeft(LAMBDA n, l : n + Length[l], Len(t) - 1, t)

Fits(n) == Estimate[n] <= maxTokens

-----------------------------------------------------------------------------
CompactToBudget(t, n) ==
    /\ stage = "idle" /\ stage' = "compact" /\ text' = t /\ maxTokens' = n
    /\ UNCHANGED <<size, suffix, lo, hi, best, outcome>>

Return(n, cut, s) ==
    /\ stage' = "done" /\ outcome' = [chars |-> n, cut |-> cut, suffix |-> s]

\* One pass of compact(); at the fixed point the text is measured.
Compact ==
    /\ stage = "compact"
    /\ IF reduce_once(text) # text
       THEN text' = reduce_once(text) /\ UNCHANGED <<stage, size, outcome>>
       ELSE /\ size' = Chars(text) /\ size' \in 0..MaxChars
            /\ IF Fits(size') THEN Return(size', FALSE, 0)
               ELSE stage' = "lines" /\ UNCHANGED outcome
            /\ UNCHANGED text
    /\ UNCHANGED <<maxTokens, suffix, lo, hi, best>>

\* The last line goes, and the blank that it leaves behind.
DropLine ==
    /\ stage = "lines" /\ Len(text) > 1
    /\ text' = SubSeq(text, 1, Len(text) - 1)
    /\ size' = Chars(Trimmed(text')) /\ size' \in 0..MaxChars
    /\ IF Fits(size') THEN Return(size', FALSE, 0)
       ELSE stage' = stage /\ UNCHANGED outcome
    /\ UNCHANGED <<maxTokens, suffix, lo, hi, best>>

StartSearch(s) ==
    /\ stage' = "search" /\ suffix' = s /\ lo' = 0 /\ hi' = size - s /\ best' = Nothing

\* With the marker when the text is long enough to absorb it.
Truncate ==
    /\ stage = "lines" /\ Len(text) <= 1
    /\ StartSearch(IF size >= Marker THEN Marker ELSE 0)
    /\ UNCHANGED <<maxTokens, text, size, outcome>>

Mid == (lo + hi) \div 2

Probe ==
    /\ stage = "search" /\ lo <= hi
    /\ IF Fits(Mid + suffix) THEN best' = Mid /\ lo' = Mid + 1 /\ UNCHANGED hi
       ELSE hi' = Mid - 1 /\ UNCHANGED <<lo, best>>
    /\ UNCHANGED <<stage, maxTokens, text, size, suffix, outcome>>

EndSearch_NoRetry ==
    /\ stage = "search" /\ lo > hi
    /\ Return(IF best = Nothing THEN 0 ELSE best + suffix, TRUE, suffix)
    /\ UNCHANGED <<maxTokens, text, size, suffix, lo, hi, best>>

\* A search with the marker that found nothing is repeated without it.
EndSearch ==
    /\ stage = "search" /\ lo > hi
    /\ IF best = Nothing /\ suffix > 0
       THEN StartSearch(0) /\ UNCHANGED outcome
       ELSE /\ Return(IF best = Nothing THEN 0 ELSE best + suffix, TRUE, suffix)
            /\ UNCHANGED <<suffix, lo, hi, best>>
    /\ UNCHANGED <<maxTokens, text, size>>

-----------------------------------------------------------------------------
CompactInit ==
    /\ stage = "idle" /\ maxTokens = 0 /\ text = <<>> /\ size = 0
    /\ suffix = 0 /\ lo = 0 /\ hi = 0 /\ best = Nothing
    /\ outcome = [chars |-> 0, cut |-> FALSE, suffix |-> 0]

CompactNext ==
    \/ \E k \in 0..MaxLines : \E t \in [1..k -> Lines], n \in 0..Estimate[MaxChars] :
         CompactToBudget(t, n)
    \/ Compact \/ DropLine \/ Truncate \/ Probe \/ EndSearch

CompactSpec == CompactInit /\ [][CompactNext]_compactVars

\* What compact_to_budget() returns fits the budget, and a cut keeps as much as
\* can be kept: with the marker where any marked prefix fits, and no longer
\* prefix of the same kind fits.
CompactedFits ==
    stage = "done" =>
        /\ outcome.chars \in 0..MaxChars /\ Fits(outcome.chars)
        /\ outcome.cut =>
             /\ \A n \in (outcome.chars + 1)..size : ~Fits(n)
             /\ outcome.suffix = 0 /\ Marker > 0 /\ Marker <= size => ~Fits(Marker)
=============================================================================
