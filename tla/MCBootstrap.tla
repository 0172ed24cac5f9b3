------------------------------ MODULE MCBootstrap ------------------------------
(* Bootstrap on chains of extensions that depend on each other. *)
EXTENDS Bootstrap

CONSTANTS base, x, y, z

\* decaf, an extension that uses it, and one that uses both.
Chain3 == [e \in Exts |-> IF e = base THEN {} ELSE IF e = x THEN {base} ELSE {base, x}]

\* One level more.
Chain4 == [e \in Exts |-> IF e = base THEN {} ELSE IF e = x THEN {base}
                          ELSE IF e = y THEN {base, x} ELSE {base, y}]
=============================================================================
