------------------------------ MODULE MCSpans ------------------------------
(* SpanOverlap on every sorted list of at most MaxMatches matches whose spans  *)
(* lie in 0..MaxPosition.                                                      *)
EXTENDS SpanOverlap

CONSTANTS MaxMatches, MaxPosition

MCMatches == {m \in [start : 0..MaxPosition, end : 0..MaxPosition, label : Labels] :
                m.start < m.end}

MCInputs == {s \in UNION {[1..k -> MCMatches] : k \in 0..MaxMatches} :
               \A i \in 1..(Len(s) - 1) : NotAfter(s[i], s[i + 1])}
=============================================================================
