--------------------------- MODULE MCPluginLifecycle ---------------------------
(* PluginLifecycle with two extensions, and entry points that are good or bad. *)
EXTENDS PluginLifecycle, TLC

CONSTANTS e1, e2, n1, n2, n3, pyA, pyB, pyC

\* The first extension has no java_package, the second one has.
TwoPackages == [e \in Exts |-> IF e = e1 THEN "" ELSE "pkg"]

Named(e, n) == [ext |-> e, name |-> n, class |-> n]
Pairing(n, p) == [name |-> n, py |-> p]

\* One plugin each, the second a ProgramPlugin; a name that both extensions use; a
\* plugin generated under another name than it is looked up under.
SomePlugins == {<<Named(e1, n1), Named(e2, n2)>>,
                <<Named(e1, n1), Named(e2, n1), Named(e2, n2)>>,
                <<Named(e1, n1), [ext |-> e2, name |-> n2, class |-> n3]>>}

\* Good; one that does not load; one that raises; a name nobody declared; a name
\* twice, with another Python class or with the same.
SomeLoaders == {<<<<Pairing(n1, pyA), Pairing(n2, pyB)>>>>,
                <<<<Pairing(n1, pyA)>>, Unloadable, <<Pairing(n2, pyB)>>>>,
                <<<<Pairing(n2, pyB)>>, Raises, <<Pairing(n1, pyA)>>>>,
                <<<<Pairing(n1, pyA), Pairing(n3, pyC), Pairing(n2, pyB)>>>>,
                <<<<Pairing(n1, pyA)>>, <<Pairing(n1, pyC), Pairing(n2, pyB)>>>>,
                <<<<Pairing(n1, pyA)>>, <<Pairing(n2, pyB), Pairing(n1, pyA)>>>>}

\* Nothing tells plugin objects or docking actions apart.
Symmetry == Permutations(Instances) \cup Permutations(Actions)
=============================================================================
