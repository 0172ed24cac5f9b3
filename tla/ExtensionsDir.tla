----------------------------- MODULE ExtensionsDir -----------------------------
(***************************************************************************)
(* What one start of Ghidra makes of its Extensions directory, as the       *)
(* comment at bootstrap.py:3-26 has it: Bootstrap takes a start as one      *)
(* step, DecafSetup in the steps of decaf_setup and of the installer.       *)
(***************************************************************************)

\* Of the extensions asked for, those that a JVM which started with dir on its
\* classpath compiles: they are missing or outdated, not broken, and what their
\* sources use was there.
Compilable(asked, deps, broken, dir, outdated) ==
    {e \in asked \ broken : /\ e \notin dir \/ e \in outdated
                            /\ deps[e] \subseteq dir}

\* The directory after the outdated ones of checked were removed, and those that
\* can be compiled were, of the ones that were tried.
After(dir, outdated, can, checked, tried) ==
    (dir \ (outdated \cap checked)) \cup (can \cap tried)
=============================================================================
