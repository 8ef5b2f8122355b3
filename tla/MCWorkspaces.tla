---------------------------- MODULE MCWorkspaces ----------------------------
(* Model values for the run of Workspaces: path l is a link to a, and a    *)
(* second configuration moves i1 to another directory; a third one names   *)
(* an adapter that the registry does not know.                             *)
EXTENDS Workspaces

CONSTANTS i1, i2, a, b, l, s1, s2

MCIds == {i1, i2}
MCPaths == {a, b, l}
MCCanonical == [p \in MCPaths |-> IF p = l THEN a ELSE p]
MCSessions == {s1, s2}
MCConfigs == { <<[id |-> i1, path |-> a, known |-> TRUE], [id |-> i2, path |-> l, known |-> TRUE]>>,
               <<[id |-> i1, path |-> b, known |-> TRUE]>>,
               <<[id |-> i2, path |-> a, known |-> FALSE]>>,
               << >> }
=============================================================================
