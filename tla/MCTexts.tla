------------------------------- MODULE MCTexts -------------------------------
(***************************************************************************)
(* The three places where this code takes text apart: the output of a task *)
(* (OutputStream), repository.yaml (MirrorConfig) and hook logs            *)
(* (LogReaders).  They share no state, so a behaviour is one of one of     *)
(* them, the subject, while the others stay where they began.              *)
(***************************************************************************)
EXTENDS OutputStream, MirrorConfig, LogReaders, TLC

CONSTANTS l1, l2

VARIABLE subject

textsvars == <<subject, streamvars, yamlvars, readersvars>>

\* All lists of two values of up to three of two bytes, and values that contain
\* the byte of the mask.
MCBytes == {"a", "b"}
MCValues == UNION {[1 .. n -> MCBytes] : n \in 1 .. 3}
MCPatternLists ==
  {<< >>} \cup {<<p>> : p \in MCValues}
  \cup {pq \in MCValues \X MCValues : Len(pq[1]) >= Len(pq[2]) /\ pq[1] # pq[2]}
  \cup {<< <<"*">> >>, << <<"*", "a">> >>, << <<"a", "b">>, <<"*", "b">> >>}

\* Two builds, or a task and a build.
MCKinds == {{l1, l2}, {l2}}
MCMaxOutput == (l1 :> 2) @@ (l2 :> 0)

Init ==
  /\ subject \in {"stream", "yaml", "logs"}
  /\ StreamInit /\ YamlInit /\ ReadersInit
  /\ subject # "stream" => patterns = << >>
  /\ subject # "logs" => builds = {l2}

Stream == StreamNext /\ UNCHANGED <<subject, yamlvars, readersvars>>
Yaml == YamlNext /\ UNCHANGED <<subject, streamvars, readersvars>>
Readers == ReadersNext /\ UNCHANGED <<subject, streamvars, yamlvars>>

Next ==
  \/ subject = "stream" /\ Stream
  \/ subject = "yaml" /\ Yaml
  \/ subject = "logs" /\ Readers

Spec == Init /\ [][Next]_textsvars
==============================================================================
