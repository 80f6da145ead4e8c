---------------------------- MODULE MirrorConfig ----------------------------
(***************************************************************************)
(* repository.yaml is read twice: by parse_build_config (build_image.py)   *)
(* as YAML, and by an awk program (mirror-sync.sh) line by line.  The file *)
(* is read here one line per step, `declared' is what YAML makes of the    *)
(* lines and `awk' the state of the awk program, so that the two can be    *)
(* compared for every file of up to MaxLines lines.                        *)
(*                                                                         *)
(* The files are those that parse_build_config accepts, with lists in      *)
(* block style.  Keys that neither reader acts on (name, run, timeout,     *)
(* context, default_branch) do not appear, except as the first key of an   *)
(* item, which is what awk sees of it.                                     *)
(***************************************************************************)
EXTENDS Integers, SequencesExt

CONSTANTS
  Urls,
  Branches,
  None,
  MaxLines   \* bound: lines of a file

\* An item of a list as far as it has been read.
Items == [url : Urls \cup {None}, branches : Seq(Branches), block : BOOLEAN]

\* A scalar as it is written: YAML takes the name, awk takes all of it.
Scalar(names) == [name : names, quotes : BOOLEAN]
Plain(name) == [name |-> name, quotes |-> FALSE]

ASSUME MirrorNames == None \notin Urls \cup Branches \cup Scalar(Urls) \cup Items

VARIABLES
  section,   \* "none", or the list being read: "mirrors", "build", "tasks"
  seen,      \* the sections begun so far
  item,      \* the item being read, None before the first of a section
  declared,  \* the mirrors that are complete, as YAML has them
  awk,       \* in_mirrors, cur_url, branches, and what has been printed
  eof,
  lines,
  quoted, leading, pasted, followed  \* history, see the end of the module

yamlvars == <<section, seen, item, declared, awk, eof, lines, quoted, leading,
              pasted, followed>>

Sections == {"mirrors", "build", "tasks"}

\* What a filter in flow style can list.
Lists == {bs \in BoundedSeq(Scalar(Branches), 2) :
            /\ bs # << >>
            /\ \A i, j \in DOMAIN bs : i # j => bs[i].name # bs[j].name}
Names(bs) == [i \in DOMAIN bs |-> bs[i].name]

\* "- name: x", or any other item that is no branch.
Key == Plain(None)

YamlInit ==
  /\ section = "none" /\ seen = {} /\ item = None /\ declared = << >>
  /\ awk = [inMirrors |-> FALSE, url |-> None, branches |-> << >>, printed |-> << >>]
  /\ eof = FALSE /\ lines = 0
  /\ quoted = FALSE /\ leading = FALSE /\ pasted = FALSE /\ followed = FALSE

\* print cur_url "\t" branches, unless there is no url yet
Printed(a) ==
  IF a.url = None THEN a.printed
  ELSE Append(a.printed, [url |-> a.url, branches |-> a.branches])

(***************************************************************************)
(* Faulty variants of definitions below; no specification uses them.       *)
(***************************************************************************)
\* The filter of the mirror before is kept.
AwkUrlKeepsFilter(u) ==
  awk' = IF awk.inMirrors
           THEN [awk EXCEPT !.printed = Printed(awk), !.url = u]
           ELSE awk

\* in_mirrors is not looked at, so that any list of urls is one of mirrors.
AwkUrlAnywhere(u) ==
  awk' = [awk EXCEPT !.printed = Printed(awk), !.url = u, !.branches = << >>]

------------------------------------------------------------------------------
(***************************************************************************)
(* The rules of the awk program, in their order.                           *)
(***************************************************************************)
\* "mirrors:", with any indentation
AwkMirrors == awk' = [awk EXCEPT !.inMirrors = TRUE]

\* "- url: u"
AwkUrl(u) ==
  awk' = IF awk.inMirrors
           THEN [awk EXCEPT !.printed = Printed(awk), !.url = u, !.branches = << >>]
           ELSE awk

\* "branches: [...]", and nothing for "branches:" alone
AwkBranches(bs) ==
  awk' = IF awk.inMirrors THEN [awk EXCEPT !.branches = bs] ELSE awk

\* any other "- x", and nothing ever sets in_mirrors back
AwkItem(b) ==
  awk' = IF awk.inMirrors THEN [awk EXCEPT !.branches = Append(@, b)] ELSE awk

\* END
AwkEnd == awk' = [awk EXCEPT !.printed = Printed(awk), !.url = None]

(***************************************************************************)
(* The file (external), as parse_build_config reads it.                    *)
(***************************************************************************)
Line == ~eof /\ lines < MaxLines /\ lines' = lines + 1

\* The item that is read could end here.
ItemIsComplete ==
  /\ item # None
  /\ section = "mirrors" => item.url # None
  /\ item.block => item.branches # << >>

WithItem ==
  IF section = "mirrors"
    THEN Append(declared, [url |-> item.url, branches |-> item.branches])
    ELSE declared

\* After the mirrors, a line that awk takes for a part of them.
Follows == followed' = (followed \/ "mirrors" \in seen)

BeginSection(s) ==
  /\ Line
  /\ s \notin seen
  /\ section = "none" \/ ItemIsComplete
  /\ section' = s /\ seen' = seen \cup {s}
  /\ item' = None
  /\ declared' = IF item = None THEN declared ELSE WithItem
  /\ IF s = "mirrors" THEN AwkMirrors ELSE UNCHANGED awk
  /\ UNCHANGED <<eof, quoted, leading, pasted, followed>>

\* "- url: u"
MirrorUrl(u) ==
  /\ Line
  /\ section = "mirrors" /\ (item = None \/ ItemIsComplete)
  /\ declared' = IF item = None THEN declared ELSE WithItem
  /\ item' = [url |-> u.name, branches |-> << >>, block |-> FALSE]
  /\ quoted' = (quoted \/ u.quotes)
  /\ AwkUrl(u)
  /\ UNCHANGED <<section, seen, eof, leading, pasted, followed>>

\* "- branches: [...]", and the url on a line of its own
MirrorBranchesFirst(bs) ==
  /\ Line
  /\ section = "mirrors" /\ (item = None \/ ItemIsComplete)
  /\ declared' = IF item = None THEN declared ELSE WithItem
  /\ item' = [url |-> None, branches |-> Names(bs), block |-> FALSE]
  /\ leading' = TRUE
  /\ AwkItem(Key)
  /\ UNCHANGED <<section, seen, eof, quoted, pasted, followed>>

MirrorUrlNext(u) ==
  /\ Line
  /\ section = "mirrors" /\ item # None /\ item.url = None
  /\ item' = [item EXCEPT !.url = u.name]
  /\ UNCHANGED <<section, seen, declared, awk, eof, quoted, leading, pasted, followed>>

\* "- name: x" of a build or a task
OtherItem ==
  /\ Line
  /\ section \in {"build", "tasks"} /\ (item = None \/ ItemIsComplete)
  /\ item' = [url |-> None, branches |-> << >>, block |-> FALSE]
  /\ AwkItem(Key)
  /\ Follows
  /\ UNCHANGED <<section, seen, declared, eof, quoted, leading, pasted>>

\* "branches: [...]" of a mirror or a task
BranchesFlow(bs) ==
  /\ Line
  /\ section \in {"mirrors", "tasks"} /\ item # None
  /\ item.branches = << >> /\ ~item.block
  /\ item' = [item EXCEPT !.branches = Names(bs)]
  /\ AwkBranches(bs)
  /\ IF section = "mirrors"
       THEN /\ quoted' = (quoted \/ \E i \in DOMAIN bs : bs[i].quotes)
            /\ UNCHANGED followed
       ELSE Follows /\ UNCHANGED quoted
  /\ UNCHANGED <<section, seen, declared, eof, leading, pasted>>

\* "branches:"
BranchesBlock ==
  /\ Line
  /\ section \in {"mirrors", "tasks"} /\ item # None
  /\ item.branches = << >> /\ ~item.block
  /\ item' = [item EXCEPT !.block = TRUE]
  /\ UNCHANGED <<section, seen, declared, awk, eof, quoted, leading, pasted, followed>>

\* "- b" below it
BranchesItem(b) ==
  /\ Line
  /\ item # None /\ item.block
  /\ b.name \notin ToSet(item.branches)
  /\ item' = [item EXCEPT !.branches = Append(@, b.name)]
  /\ AwkItem(b)
  /\ IF section = "mirrors"
       THEN quoted' = (quoted \/ b.quotes) /\ UNCHANGED followed
       ELSE Follows /\ UNCHANGED quoted
  /\ UNCHANGED <<section, seen, declared, eof, leading, pasted>>

\* A line of the script of a task, which YAML does not interpret.
ScriptLine ==
  /\ Line
  /\ section = "tasks" /\ ItemIsComplete
  /\ \/ AwkMirrors /\ UNCHANGED <<pasted, followed>>
     \/ \E u \in Scalar(Urls) :
          AwkUrl(u) /\ pasted' = (pasted \/ awk.inMirrors) /\ UNCHANGED followed
     \/ /\ \E b \in Scalar(Branches) : AwkItem(b) \/ AwkBranches(<<b>>)
        /\ Follows /\ UNCHANGED pasted
  /\ UNCHANGED <<section, seen, item, declared, eof, quoted, leading>>

EndOfFile ==
  /\ ~eof /\ (section = "none" \/ ItemIsComplete)
  /\ eof' = TRUE
  /\ declared' = IF item = None THEN declared ELSE WithItem
  /\ AwkEnd
  /\ UNCHANGED <<section, seen, item, lines, quoted, leading, pasted, followed>>

YamlNext ==
  \/ \E s \in Sections : BeginSection(s)
  \/ \E u \in Scalar(Urls) : MirrorUrl(u) \/ MirrorUrlNext(u)
  \/ \E bs \in Lists : MirrorBranchesFirst(bs) \/ BranchesFlow(bs)
  \/ OtherItem \/ BranchesBlock \/ ScriptLine \/ EndOfFile
  \/ \E b \in Scalar(Branches) : BranchesItem(b)

YamlSpec == YamlInit /\ [][YamlNext]_yamlvars

------------------------------------------------------------------------------
\* quoted: a url or branch of a mirror is in quotes.  leading: a mirror does
\* not begin with its url.  pasted: a script contains "- url:" after a line
\* "mirrors:" of its own or of the file.  followed: an item, or the branches of
\* a task, come after the mirrors.

Unfiltered(m) == m.branches = << >>

\* The names as awk has to print them.
Written(names) == [i \in DOMAIN names |-> Plain(names[i])]

YamlTypeOK ==
  /\ section \in Sections \cup {"none"} /\ seen \subseteq Sections
  /\ item \in Items \cup {None}
  /\ declared \in Seq([url : Urls, branches : Seq(Branches)])
  /\ awk \in [inMirrors : BOOLEAN,
              url : Scalar(Urls) \cup {None},
              branches : Seq(Scalar(Branches \cup {None})),
              printed : Seq([url : Scalar(Urls),
                             branches : Seq(Scalar(Branches \cup {None}))])]
  /\ {eof, quoted, leading, pasted, followed} \subseteq BOOLEAN
  /\ lines \in Nat

(***************************************************************************)
(* mirror-sync.sh pushes to what repository.yaml declares, in spite of the *)
(* second parser: the urls always, the filter of every mirror but the      *)
(* last, and that of the last unless a list follows the mirrors; then a    *)
(* last mirror without a filter gets one that is not its own, and is not   *)
(* pushed to at all, or only some branches (mirror-sync.sh 81-105,         *)
(* build_image.py 214-243).  Excepted are quotes, which awk keeps, and a   *)
(* mirror whose first key is not its url.                                  *)
(***************************************************************************)
MirrorsAsDeclared ==
  eof /\ ~quoted /\ ~leading /\ ~pasted =>
    LET n == Len(declared) IN
    /\ Len(awk.printed) = n
    /\ \A i \in 1..n :
         /\ awk.printed[i].url = Plain(declared[i].url)
         /\ i < n \/ ~followed =>
              awk.printed[i].branches = Written(declared[i].branches)
         /\ i = n /\ Unfiltered(declared[i]) =>
              (followed <=> ~Unfiltered(awk.printed[i]))

(***************************************************************************)
(* Nothing is pushed to a url that repository.yaml does not declare, with  *)
(* all the ways of writing a mirror that awk does not understand; the text *)
(* of a script is the one exception.                                       *)
(***************************************************************************)
OnlyDeclaredUrls ==
  eof /\ ~pasted =>
    \A i \in DOMAIN awk.printed :
      \E k \in DOMAIN declared : awk.printed[i].url.name = declared[k].url

==============================================================================
