-------------------------- MODULE MCPluginPipeline --------------------------
EXTENDS PluginPipeline
CONSTANTS k1, p1, ext, w1, u1

\* A guest that describes its object, and one that moves it.
MCResult == {[vector |-> TRUE, file |-> TRUE, operations |-> <<"patch">>],
             [vector |-> FALSE, file |-> FALSE, operations |-> <<"copy", "delete">>]}
\* The external producer's vector is the closer one, the plugin's has the
\* smaller id.
MCRank == [t \in Key \X Maker |-> [score |-> IF t[2] = ext THEN 2 ELSE 1,
                                    id |-> IF t[2] = ext THEN 2 ELSE 1]]
MCSelected == [p \in Plugin |-> Key]
MCGranted == [p \in Plugin |-> {"patch", "copy", "delete"}]
=============================================================================
