----------------------------- MODULE MCServices ------------------------------
(***************************************************************************)
(* TLC's instance of Services.                                             *)
(***************************************************************************)
EXTENDS Services, TLC

\* Two questions in pipeline mode; one in agent mode, over two rounds of up to
\* two calls; an MCP client with two calls, which may overlap.
MCOneClient == "m" :> "mcp"
MCCasts == {"p" :> "pipeline" @@ "q" :> "pipeline", "a" :> "agent", MCOneClient}

\* Fisher's test by its reference definition: of all the ways to draw the
\* current runs from both, those with at least as many of the failures.
ASSUME FisherCountsDraws ==
    \A runsNow, runsBefore \in 0..4 : \A fails \in 0..runsNow, was \in 0..runsBefore :
        EG!WaysAsBad(fails, runsNow, was, runsBefore)
            = Cardinality({drawn \in SUBSET (1..(runsNow + runsBefore)) :
                /\ Cardinality(drawn) = runsNow
                /\ Cardinality(drawn \cap 1..(fails + was)) >= fails})
=============================================================================
