---------------------------- MODULE MCMirrorSync ----------------------------
(* Two branches that can be at a first commit, at its successor or at a      *)
(* commit of a second line; a mirror for all branches, one for main alone,   *)
(* and one with a path in place of a url.  The second line has no mirrors    *)
(* but the first.                                                            *)
EXTENDS MirrorSync, TLC

CONSTANTS c1, c2, c3, main, dev, all, some, path

MCCommits == {c1, c2, c3}
MCBefore == {<<c1, c2>>, <<c1, c3>>}
MCRefs == {main, dev}
MCMirrors == {all, some, path}
MCValid == {all, some}

ForAll == [mirror |-> all, refs |-> MCRefs]
MCConfigOf ==
  c1 :> <<ForAll, [mirror |-> path, refs |-> MCRefs], [mirror |-> some, refs |-> {main}]>>
  @@ c2 :> <<[mirror |-> some, refs |-> {main}], ForAll>>
  @@ c3 :> <<ForAll>>
==============================================================================
