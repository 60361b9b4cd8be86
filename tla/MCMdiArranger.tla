---------------------------- MODULE MCMdiArranger ----------------------------
EXTENDS MdiArranger

MCNames  == {"meter", "graph", "panel-a", "panel-b"}
MCBegin  == <<"meter", "graph", "panel-a">>
MCRoleOf == [n \in MCNames |-> IF n = "graph" THEN "Graph" ELSE "Instrument"]
MCTexts  == {<<>>, Line("V", <<"panel-a", "graph">>)}
MCNoTexts == {<<>>}
=============================================================================
