----------------------------- MODULE LogReaders -----------------------------
(***************************************************************************)
(* The content of hook logs and the two programs that read it back while   *)
(* logs are written, removed and grow old: list_hook_logs (app.py), which  *)
(* shows what is there, and failed_builds (homepage_stats.py), which       *)
(* counts the failed builds of the last day.  Both know a log only by its  *)
(* text, whose middle part is whatever a build or task prints, and read    *)
(* the beginning and the end of a file in two steps, without a lock.       *)
(*                                                                         *)
(* A line is a token, and output may consist of the very tokens the server *)
(* writes.  Sizes count lines: HeadSize stands for the 16384 bytes of the  *)
(* header and TailSize for the 4096 of the footer.  The two readers share  *)
(* nothing, so one of them is enough at a time.                            *)
(***************************************************************************)
EXTENDS Integers, FiniteSets, SequencesExt

CONSTANTS
  Logs,
  Kinds,      \* which logs can be those of builds; the others are of tasks
  NoLog,
  HeadSize,
  TailSize,
  MaxOutput   \* bound: lines of output of each log

ASSUME SizesSuffice ==
  \* The header fits into the first window, the footer and the line before it
  \* into the second.
  {HeadSize, TailSize} \subseteq Nat /\ HeadSize >= 3 /\ TailSize >= 3
ASSUME LogNames == Kinds \subseteq SUBSET Logs /\ NoLog \notin Logs
ASSUME OutputAssumption == MaxOutput \in [Logs -> Nat]

VARIABLES
  phase,    \* "none", "header", "output", "ended", "closed"
  gone,     \* the logs that have been removed
  builds,   \* the logs of type build
  text,     \* the lines of each log
  aged,     \* logs not written to for a day
  reader,   \* "none", "app" or "stats"
  target,   \* the log whose first window has been read, NoLog without one
  head,     \* app: that window
  large,    \* app: the log was larger than the second window
  todo,     \* the logs still to read
  records,  \* app: the logs parsed, and those whose mtime is not a number
  failed, unknown, history,  \* stats: count, unknown and seen_history
  listed,   \* history: the logs there were when the reader began
  opened,   \* history: those of them that were not complete
  lost      \* history: the failed builds when the reader began

files == <<phase, gone, builds, text, aged>>
app == <<head, large, records>>
began == <<listed, opened, lost>>
stats == <<failed, unknown, history, began>>
readersvars == <<files, app, stats, reader, target, todo>>

Exits == {"exit 0", "exit 1"}
Types == {"type build", "type task"}
TypeOf(l) == IF l \in builds THEN "type build" ELSE "type task"

\* What output can look like: "part" has no newline at its end, and "mtime" is
\* any other field of a header.
Output == {"text", "part", "mtime", "ended"} \cup Types \cup Exits

FirstLines(t) == SubSeq(t, 1, Min({HeadSize, Len(t)}))
LastLines(t) == SubSeq(t, Max({1, Len(t) - TailSize + 1}), Len(t))

\* A line begins at i.
Begins(t, i) == i = 1 \/ t[i - 1] # "part"

Present == {l \in Logs \ gone : phase[l] # "none"}
FailedBuilds ==
  {l \in (builds \cap Present) \ aged : phase[l] = "closed" /\ Last(text[l]) = "exit 1"}

ReadersInit ==
  /\ builds \in Kinds
  /\ phase = [l \in Logs |-> "none"] /\ gone = {} /\ text = [l \in Logs |-> << >>]
  /\ aged = {}
  /\ reader = "none" /\ target = NoLog /\ todo = {}
  /\ head = << >> /\ large = FALSE /\ records = [all |-> {}, odd |-> {}]
  /\ failed = {} /\ unknown = FALSE /\ history = FALSE
  /\ listed = {} /\ opened = {} /\ lost = {}

(***************************************************************************)
(* Faulty variants of definitions below; no specification uses them.       *)
(***************************************************************************)
\* The second window is where the end of the file was before the first read.
FootOfFirstRead == IF large THEN LastLines(head) ELSE head

\* The end of the file is not required after the exit status.
TerminalAnywhere(foot) ==
  {foot[i] : i \in {j \in 2..Len(foot) :
                      foot[j] \in Exits /\ foot[j - 1] = "ended" /\ Begins(foot, j - 1)}}

------------------------------------------------------------------------------
(***************************************************************************)
(* The writer: ExecutionLog, with the output of what it runs.              *)
(***************************************************************************)
Create(l) ==
  /\ phase[l] = "none"
  /\ phase' = [phase EXCEPT ![l] = "header"]
  /\ UNCHANGED <<gone, builds, text, aged, app, stats, reader, target, todo>>

Write(l, line) ==
  /\ text' = [text EXCEPT ![l] = Append(@, line)]
  /\ aged' = aged \ {l}
  /\ UNCHANGED <<gone, builds, app, stats, reader, target, todo>>

\* A write for each field, and one for "--- output ---".
WriteHeader(l) ==
  /\ phase[l] = "header"
  /\ LET line == <<TypeOf(l), "meta", "marker">>[Len(text[l]) + 1]
     IN /\ Write(l, line)
        /\ phase' = [phase EXCEPT ![l] = IF line = "marker" THEN "output" ELSE @]

WriteOutput(l) ==
  /\ phase[l] = "output" /\ Len(text[l]) < 3 + MaxOutput[l]
  /\ \E line \in Output : Write(l, line)
  /\ UNCHANGED phase

\* finish: one write each
WriteEnded(l) ==
  /\ phase[l] = "output"
  /\ Write(l, "ended")
  /\ phase' = [phase EXCEPT ![l] = "ended"]

WriteExit(l) ==
  /\ phase[l] = "ended"
  /\ \E line \in Exits : Write(l, line)
  /\ phase' = [phase EXCEPT ![l] = "closed"]

\* By the retention, a request, or the deletion of the repository.  Who has the
\* file open goes on reading it.
RemoveLog(l) ==
  /\ l \in Present
  /\ gone' = gone \cup {l}
  /\ UNCHANGED <<phase, builds, text, aged, app, stats, reader, target, todo>>

\* A collection is over within its budget of three seconds.
Age(l) ==
  /\ reader = "none" /\ l \in Present \ aged
  /\ aged' = aged \cup {l}
  /\ UNCHANGED <<phase, gone, builds, text, app, stats, reader, target, todo>>

(***************************************************************************)
(* list_hook_logs and parse_hook_log.                                      *)
(***************************************************************************)
AppList ==
  /\ reader = "none"
  /\ reader' = "app" /\ todo' = Present
  /\ UNCHANGED <<files, app, stats, target>>

\* os.stat, open, and the first read; a log that is gone has no record.
AppHead(l) ==
  /\ reader = "app" /\ target = NoLog /\ l \in todo
  /\ todo' = todo \ {l}
  /\ \/ /\ l \in Present
        /\ target' = l /\ head' = FirstLines(text[l])
        /\ large' = (Len(text[l]) > TailSize)
     \/ l \notin Present /\ UNCHANGED <<target, head, large>>
  /\ UNCHANGED <<files, records, stats, reader>>

\* The lines of the window that set a field; the marker does not end them, and
\* of two the last one counts.
Fields(names) == {i \in DOMAIN head : Begins(head, i) /\ head[i] \in names}
ShownType ==
  IF Fields(Types) = {} THEN "legacy" ELSE head[Max(Fields(Types))]

\* The end as it is at the second read.
Foot == IF large THEN LastLines(text[target]) ELSE text[target]

\* re.search finds the first exit status in it.
ShownStatus ==
  LET at == SelectInSeq(Foot, LAMBDA x : x \in Exits)
  IN IF at = 0 THEN "open" ELSE IF Foot[at] = "exit 0" THEN "ok" ELSE "failed"

AppFoot ==
  /\ reader = "app" /\ target # NoLog
  /\ records' = [all |-> records.all \cup {target},
                 odd |-> records.odd \cup {l \in {target} : Fields({"mtime"}) # {}}]
  /\ target' = NoLog /\ head' = << >> /\ large' = FALSE
  /\ UNCHANGED <<files, stats, reader, todo>>

\* sorted() by mtime raises if it has to compare a number and a string.
Unsortable == records.odd # {} /\ records.odd # records.all

AppAnswer ==
  /\ reader = "app" /\ target = NoLog /\ todo = {}
  /\ reader' = "none" /\ records' = [all |-> {}, odd |-> {}]
  /\ UNCHANGED <<files, head, large, stats, target, todo>>

(***************************************************************************)
(* failed_builds.                                                          *)
(***************************************************************************)
StatsList ==
  /\ reader = "none"
  /\ reader' = "stats" /\ todo' = Present
  /\ listed' = Present /\ opened' = {l \in Present : phase[l] # "closed"}
  /\ lost' = FailedBuilds
  /\ UNCHANGED <<files, app, target, failed, unknown, history>>

\* The type is looked for before the marker only.
Header(t) ==
  LET at == SelectInSeq(FirstLines(t), LAMBDA x : x = "marker")
  IN IF at = 0 THEN FirstLines(t) ELSE SubSeq(t, 1, at - 1)
SaysBuild(t) == "type build" \in ToSet(Header(t))

StatsHead(l) ==
  /\ reader = "stats" /\ target = NoLog /\ l \in todo \cap Present
  /\ todo' = todo \ {l}
  /\ history' = (history \/ SaysBuild(text[l]))
  /\ target' = IF SaysBuild(text[l]) /\ l \notin aged THEN l ELSE NoLog
  /\ UNCHANGED <<files, app, reader, failed, unknown, began>>

\* ended_at at the beginning of a line, exit below it, and the end of the file
Terminal(foot) ==
  LET n == Len(foot) IN
  {foot[i] : i \in {j \in {n} \ {0, 1} :
                      foot[j] \in Exits /\ foot[j - 1] = "ended" /\ Begins(foot, j - 1)}}

\* The file is opened a second time.  What it says must be no later than the
\* beginning: an end since then may not count any more, nor one that is output.
StatsFoot ==
  /\ reader = "stats" /\ target \in Present
  /\ LET exits == Terminal(LastLines(text[target])) IN
       /\ unknown' = (unknown \/ exits = {})
       /\ \E counts \in IF target \in opened THEN BOOLEAN ELSE {TRUE} :
            failed' = failed \cup {l \in {target} : counts /\ "exit 1" \in exits}
  /\ target' = NoLog
  /\ UNCHANGED <<files, app, reader, todo, history, began>>

StatsEnd ==
  /\ reader' = "none" /\ target' = NoLog /\ todo' = {}
  /\ failed' = {} /\ unknown' = FALSE /\ history' = FALSE
  /\ listed' = {} /\ opened' = {} /\ lost' = {}
  /\ UNCHANGED <<files, app>>

\* len(failed), or null
StatsCount ==
  /\ reader = "stats" /\ target = NoLog /\ todo = {}
  /\ history /\ ~unknown
  /\ StatsEnd

StatsNull ==
  /\ reader = "stats" /\ target = NoLog /\ todo = {}
  /\ ~history \/ unknown
  /\ StatsEnd

\* A log that is gone raises OSError, and output that ends like a footer but has
\* no time in it ValueError, which are null as well.
StatsRaises ==
  /\ reader = "stats"
  /\ \/ target = NoLog /\ todo \ Present # {}
     \/ target \in Logs \ Present
     \/ /\ target \in Present /\ phase[target] = "output"
        /\ Terminal(LastLines(text[target])) # {}
  /\ StatsEnd

ReadersNext ==
  \/ \E l \in Logs :
       \/ Create(l) \/ WriteHeader(l) \/ WriteOutput(l) \/ WriteEnded(l) \/ WriteExit(l)
       \/ RemoveLog(l) \/ Age(l)
       \/ AppHead(l) \/ StatsHead(l)
  \/ AppList \/ AppFoot \/ AppAnswer
  \/ StatsList \/ StatsFoot \/ StatsCount \/ StatsNull \/ StatsRaises

ReadersSpec == ReadersInit /\ [][ReadersNext]_readersvars

------------------------------------------------------------------------------
\* The lines between header and footer.
OutputOf(l) ==
  LET n == Len(text[l]) IN
  4..IF n > 0 /\ phase[l] = "ended" THEN n - 1
     ELSE IF n > 0 /\ phase[l] = "closed" THEN n - 2 ELSE n

Prints(l, lines) == \E i \in OutputOf(l) : text[l][i] \in lines
PrintsFirst(l, lines) == \E i \in OutputOf(l) : i <= HeadSize /\ text[l][i] \in lines
PrintsLast(l, lines) ==
  \E i \in OutputOf(l) :
    (i > Len(text[l]) - TailSize \/ ~large) /\ text[l][i] \in lines

Status(l) ==
  IF phase[l] # "closed" THEN "open"
  ELSE IF Last(text[l]) = "exit 0" THEN "ok" ELSE "failed"

(***************************************************************************)
(* What the page of logs shows of a log is true at its second read,        *)
(* whatever was written since the first: a finished log is not shown open, *)
(* nor one that is being written as finished.  Excepted is output that     *)
(* looks like a footer, or, among the first lines, like a header; the      *)
(* latter can also make the page fail for all logs (app.py 494-528, 552).  *)
(***************************************************************************)
ListingIsTrue ==
  [][/\ AppFoot =>
          /\ \/ ShownStatus = Status(target)
             \/ PrintsLast(target, Exits)
          /\ \/ ShownType = TypeOf(target)
             \/ ShownType = "legacy" /\ head = << >>
             \/ PrintsFirst(target, Types)
     /\ AppAnswer /\ Unsortable => \E l \in Logs : PrintsFirst(l, {"mtime"})
    ]_readersvars

(***************************************************************************)
(* The number of failed builds contains all that had failed before, and    *)
(* only builds that have failed, or whose unfinished output ends like the  *)
(* log of one.  A failure is hidden, with null for an answer, for one of   *)
(* three reasons only: a build whose log is not finished, or whose output  *)
(* does not end with a newline (homepage_stats.py 80-124: one such log     *)
(* hides all failures for a day), or a log removed since it was listed.    *)
(***************************************************************************)
StatsAreTrue ==
  [][/\ StatsFoot /\ failed' # failed =>
          /\ target \in builds
          /\ \/ Status(target) = "failed"
             \/ phase[target] = "output" /\ Prints(target, {"ended"})
     /\ StatsCount => lost \subseteq failed
     /\ StatsNull /\ lost # {} =>
          \E l \in builds \cap listed : l \in opened \/ Prints(l, {"part"})
     /\ StatsRaises /\ lost # {} =>
          \/ listed \cap gone # {}
          \/ \E l \in builds \cap opened : Prints(l, {"ended"})
    ]_readersvars

==============================================================================
