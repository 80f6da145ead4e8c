---------------------------- MODULE OutputStream ----------------------------
(***************************************************************************)
(* build_image.py: stream_task_output, the reader thread of a task, as a   *)
(* transformation of bytes.  It replaces the values of the managed         *)
(* variables by *** while the output arrives, a full buffer at a time, and *)
(* may write only what no later byte can turn into a part of a value.      *)
(* TaskRunner has the same thread among the processes of the task and      *)
(* counts units instead of bytes.                                          *)
(*                                                                         *)
(* A byte is a symbol; the incremental UTF-8 decoder, which passes every   *)
(* byte on in order, is left out.                                          *)
(***************************************************************************)
EXTENDS Integers, SequencesExt

CONSTANTS
  Bytes,         \* what a task writes
  Star,          \* the byte that *** is made of; a value may contain it
  PatternLists,  \* the encoded values in the order redaction takes them:
                 \* longest first, and values of one length in any order,
                 \* that of a Python set
  ReadSize,      \* 65536, the size of a read
  LogLimit,      \* MAX_TASK_LOG_BYTES
  MaxSource      \* bound: bytes of output

ASSUME PatternsAssumption ==
  \A ps \in PatternLists :
    /\ ps \in Seq(Seq(Bytes \cup {Star}) \ {<< >>})
    /\ \A i, j \in DOMAIN ps : i < j => Len(ps[i]) >= Len(ps[j]) /\ ps[i] # ps[j]
ASSUME SizesAssumption == {ReadSize, LogLimit} \subseteq Nat \ {0}

VARIABLES
  patterns,
  source,     \* the output read so far (history)
  pending,
  logged,     \* what log.file has got; its length is `written'
  truncated,
  stream      \* "reading", "ending" after a short read, "done"

streamvars == <<patterns, source, pending, logged, truncated, stream>>

Mask == <<Star, Star, Star>>

\* Pattern p occurs in text t after its first `at' bytes.
Occurs(p, t, at) ==
  at + Len(p) <= Len(t) /\ SubSeq(t, at + 1, at + Len(p)) = p

FirstOf(t, n) == SubSeq(t, 1, n)
RestOf(t, n) == SubSeq(t, n + 1, Len(t))

\* bytes.replace: occurrences from left to right that do not overlap.
Replace(t, p) ==
  LET from[i \in 1..Len(t) + 1] ==
        IF i = Len(t) + 1 THEN << >>
        ELSE IF Occurs(p, t, i - 1) THEN Mask \o from[i + Len(p)]
        ELSE <<t[i]>> \o from[i + 1]
  IN from[1]

\* redact_task_output: one value after the other.
Redact(t) ==
  LET after[k \in 0..Len(patterns)] ==
        IF k = 0 THEN t ELSE Replace(after[k - 1], patterns[k])
  IN after[Len(patterns)]

Longest == Max({0} \cup {Len(patterns[i]) : i \in DOMAIN patterns})

\* Where occurrences of p begin that a cut after `cut' bytes would split.
Split(p, t, cut) ==
  {at \in 0..cut - 1 : Occurs(p, t, at) /\ at + Len(p) > cut}

StreamInit ==
  /\ patterns \in PatternLists
  /\ source = << >> /\ pending = << >> /\ logged = << >>
  /\ truncated = FALSE
  /\ stream = "reading"

(***************************************************************************)
(* Faulty variants of definitions below; no specification uses them.       *)
(***************************************************************************)
\* Every read is redacted for itself.
CutoffOfRead(t) == Len(t)

\* Only values that are not complete yet are kept back.
CutoffOfLength(t) ==
  IF Longest = 0 THEN Len(t) ELSE Max({0, Len(t) - Longest + 1})

\* A value that would be split keeps everything back.
CutoffAllOrNothing(t) ==
  LET cut == CutoffOfLength(t)
  IN IF \E i \in DOMAIN patterns : Split(patterns[i], t, cut) # {} THEN 0 ELSE cut

------------------------------------------------------------------------------
\* safe_redaction_cutoff: the last bytes may be the beginning of a value, and
\* as long as some value would be split the cut moves to where it begins.
SafeCutoff(t) ==
  LET latest == Max({0, Len(t) - Longest + 1})
      back[cut \in 0..latest] ==
        LET splits == {i \in DOMAIN patterns : Split(patterns[i], t, cut) # {}}
        IN IF splits = {} THEN cut
           ELSE back[Min(Split(patterns[Min(splits)], t, cut))]
  IN IF patterns = << >> THEN Len(t) ELSE back[latest]

\* log.file.write of redacted[:allowed]
Emit(redacted) ==
  LET allowed == LogLimit - Len(logged)
  IN /\ logged' = logged \o FirstOf(redacted, Min({allowed, Len(redacted)}))
     /\ truncated' = (truncated \/ Len(redacted) > allowed)

\* One turn of the loop, with what source.read(ReadSize) has returned.
Turn(chunk) ==
  /\ source' = source \o chunk
  /\ \/ /\ Len(logged) >= LogLimit
        /\ truncated' = TRUE
        /\ UNCHANGED <<pending, logged>>
     \/ /\ Len(logged) < LogLimit
        /\ LET buffer == pending \o chunk
               cut == SafeCutoff(buffer)
           IN /\ pending' = RestOf(buffer, cut)
              /\ Emit(Redact(FirstOf(buffer, cut)))

\* A read of a buffered pipe returns less than it was asked for only at the
\* end of the pipe.
ReadBuffer ==
  /\ stream = "reading"
  /\ Len(source) + ReadSize <= MaxSource
  /\ \E chunk \in [1..ReadSize -> Bytes] : Turn(chunk)
  /\ UNCHANGED <<patterns, stream>>

ReadLast ==
  /\ stream = "reading"
  /\ \E n \in 1..ReadSize - 1 :
       /\ Len(source) + n <= MaxSource
       /\ \E chunk \in [1..n -> Bytes] : Turn(chunk)
  /\ stream' = "ending"
  /\ UNCHANGED patterns

\* An empty read: what is pending cannot become anything else any more.
EndOfOutput ==
  /\ stream \in {"reading", "ending"}
  /\ stream' = "done"
  /\ \/ Len(logged) < LogLimit /\ Emit(Redact(pending))
     \/ /\ Len(logged) >= LogLimit
        /\ truncated' = (truncated \/ pending # << >>)
        /\ UNCHANGED logged
  /\ UNCHANGED <<patterns, source, pending>>

StreamNext == ReadBuffer \/ ReadLast \/ EndOfOutput

StreamSpec == StreamInit /\ [][StreamNext]_streamvars

------------------------------------------------------------------------------
\* A value that contains the byte of the mask can be found in a mask.
Maskless == \A i \in DOMAIN patterns : Star \notin ToSet(patterns[i])

\* Some end of a value is the beginning of the same or another value.
Chained ==
  \E i, j \in DOMAIN patterns :
    \E n \in 1..Min({Len(patterns[i]), Len(patterns[j])}) :
      /\ n < Len(patterns[i]) \/ n < Len(patterns[j])
      /\ RestOf(patterns[i], Len(patterns[i]) - n) = FirstOf(patterns[j], n)

(***************************************************************************)
(* Streaming makes no difference: whatever is cut between two reads, the   *)
(* log is the redaction of the whole output, cut at the limit, and is      *)
(* called truncated exactly if something is missing (build_image.py        *)
(* 477-519, for values that do not contain the mask).                      *)
(***************************************************************************)
OutputIsRedacted ==
  Maskless =>
    /\ IsPrefix(logged, Redact(source))
    /\ stream = "done" =>
         /\ Len(logged) = Min({LogLimit, Len(Redact(source))})
         /\ truncated = (Len(Redact(source)) > LogLimit)

(***************************************************************************)
(* No value is in the log at any time, also not one that has arrived in    *)
(* two reads or overlaps another one (src/README.md "exact managed-variable *)
(* values are replaced").                                                  *)
(***************************************************************************)
NoValueInLog ==
  Maskless =>
    \A i \in DOMAIN patterns : \A at \in 0..Len(logged) :
      ~Occurs(patterns[i], logged, at)

(***************************************************************************)
(* The reader keeps back less than two values, however long the output is, *)
(* unless one value can begin with the end of another: output that repeats *)
(* such values is kept in memory without a bound, and scanned again with   *)
(* every read (build_image.py 459-473).                                    *)
(***************************************************************************)
PendingIsBounded ==
  Chained \/ Len(pending) <= Max({0, 2 * (Longest - 1)})

==============================================================================
