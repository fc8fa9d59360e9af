---------------------------- MODULE SpanOverlap ----------------------------
(* Overlapping matches of concept labels in a text, resolved in one pass.      *)
(* Nested spans survive together; of two spans that cross, the longer wins.    *)
(*                                                                             *)
(* The pass exists twice in the code: as a rescan of every kept span           *)
(* (EntityRulerStage._dedupe_annotations) and as a sweep that only looks at    *)
(* the spans that can still reach the current one                              *)
(* (AhoCorasickMatcher._resolve_overlaps).  Both run here over one input.      *)
(*                                                                             *)
(* A match is a span and the label found there; how labels are found is left   *)
(* out, and so is the closing sort by (start, -length): no span is kept twice  *)
(* (NoSpanTwice), so the kept matches have one order only.                     *)
(* A definition marked "broken" is a defect that no specification uses.        *)
EXTENDS Integers, Sequences

CONSTANTS Labels,    \* the labels, in lower case
          Inputs     \* the lists of matches to resolve, sorted as the code sorts them

Matches == {m \in [start : Nat, end : Nat, label : Labels] : m.start < m.end}

Length(m) == m.end - m.start

\* The sort key (start, -length).
NotAfter(a, b) == \/ a.start < b.start
                  \/ a.start = b.start /\ Length(a) >= Length(b)

ASSUME InputsSorted ==
  \A s \in Inputs : /\ s \in Seq(Matches)
                    /\ \A i, j \in DOMAIN s : i < j => NotAfter(s[i], s[j])

VARIABLES input,     \* the sorted list
          done,      \* how much of it has been looked at
          resolved,  \* the sweep's kept matches
          active,    \* the sweep's indices that may still overlap something
          rescan     \* the kept matches of the full rescan

span_vars == <<input, done, resolved, active, rescan>>

-----------------------------------------------------------------------------
Overlap(a, b)  == a.start < b.end /\ b.start < a.end
Inside(a, b)   == b.start <= a.start /\ a.end <= b.end
SameSpan(a, b) == a.start = b.start /\ a.end = b.end

\* m and the kept match cannot both stay.
Conflict(kept, m) == /\ Overlap(kept, m)
                     /\ SameSpan(kept, m) \/ ~(Inside(m, kept) \/ Inside(kept, m))

\* The first of the indices `among` at which m meets a conflict decides about m.
ConflictsAt(list, among, m) == {i \in among : Conflict(list[i], m)}

FirstOf(S) == CHOOSE i \in S : \A j \in S : i <= j

PlaceLast(list, among, m) ==             \* broken: the later match always wins
  LET hits == ConflictsAt(list, among, m)
  IN IF hits = {} THEN Append(list, m) ELSE [list EXCEPT ![FirstOf(hits)] = m]

Place(list, among, m) ==
  LET hits == ConflictsAt(list, among, m)
  IN IF hits = {} THEN Append(list, m)
     ELSE IF Length(m) > Length(list[FirstOf(hits)])
     THEN [list EXCEPT ![FirstOf(hits)] = m]
     ELSE list

\* Retired: kept matches that end before the current one starts.
LiveByEnd(list, indices, m) ==           \* broken: compares ends
  {i \in indices : list[i].end > m.end}

Live(list, indices, m) == {i \in indices : list[i].end > m.start}

\* A match that no kept one dominates is appended, at index `last`.
Watch(live, hits, last) == IF hits = {} THEN live \cup {last} ELSE live

-----------------------------------------------------------------------------
SpanInit == /\ input \in Inputs
            /\ done = 0
            /\ resolved = <<>> /\ active = {} /\ rescan = <<>>

PlaceNext ==
  /\ done < Len(input)
  /\ LET m    == input[done + 1]
         live == Live(resolved, active, m)
         hits == ConflictsAt(resolved, live, m)
     IN /\ resolved' = Place(resolved, live, m)
        /\ active' = Watch(live, hits, Len(resolved) + 1)
        /\ rescan' = Place(rescan, DOMAIN rescan, m)
  /\ done' = done + 1
  /\ UNCHANGED input

SpanSpec == SpanInit /\ [][PlaceNext]_span_vars
-----------------------------------------------------------------------------
SpanTypeOK == /\ input \in Seq(Matches)
              /\ done \in 0..Len(input)
              /\ resolved \in Seq(Matches) /\ rescan \in Seq(Matches)
              /\ active \subseteq DOMAIN resolved

(* The sweep keeps what the full rescan keeps, match for match and in the same *)
(* places: retiring a match never hides a conflict.                            *)
SweepIsRescan == resolved = rescan

Looked == {input[i] : i \in 1..done}
Kept(list) == {list[i] : i \in DOMAIN list}

(* A match that is longer than every match it cannot stay with is kept,        *)
(* whatever the others do to each other.                                       *)
Undisputed(m) == \A k \in Looked : k # m /\ Conflict(k, m) => Length(k) < Length(m)
LongestKept == \A m \in Looked : Undisputed(m) => m \in Kept(resolved)

(* Of two spans that cross, only the longer is kept: what the docstrings of    *)
(* both passes say.  It fails: a match is decided by the FIRST kept one it     *)
(* conflicts with, and one that replaces it may still cross another.           *)
NoneCross == \A i, j \in DOMAIN resolved :
               i # j => ~Conflict(resolved[i], resolved[j])

=============================================================================
