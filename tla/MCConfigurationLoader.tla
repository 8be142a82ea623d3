----------------------- MODULE MCConfigurationLoader -----------------------
\* Small instances of the configuration loader: a root and one directory in it.
EXTENDS ConfigurationLoader, TLC

CONSTANTS root, sub

MCAncestors == (root :> <<root>>) @@ (sub :> <<sub, root>>)

\* Contents, and inputs, are interchangeable: no definition tells them apart.
MCSymmetry == Permutations(Contents) \cup Permutations(InputPaths)
=============================================================================
