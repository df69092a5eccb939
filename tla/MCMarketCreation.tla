---------------------------- MODULE MCMarketCreation ----------------------------
(***************************************************************************)
(* An instance of MarketCreation for TLC.                                  *)
(***************************************************************************)
EXTENDS MarketCreation

CONSTANTS c1, c2, c3

MCAdministration == [p \in {"honest", "liar"} |-> IF p = "honest" THEN "a" ELSE "b"]

Build(calls) ==
    [pair |-> "pair", wrapper |-> Expected, registryCall |-> <<"deploy", "pair">>,
     poolCall |-> <<"create", "pair">>, orderedCalls |-> calls]

Released == Build(<<<<"deploy", "pair">>, <<"create", "pair">>>>)

Documents == [i \in 1 .. 7 |-> [name |-> ArtifactNames[i], producer |-> "pipeline"]]

Artifacts(producer, build) ==
    [i \in 1 .. 7 |-> [schema |-> Documents[i], producer |-> producer, admitted |-> TRUE,
                       decoded |-> IF i = 2 THEN build ELSE None]]

Handed(artifacts, documents, build) ==
    [release |-> [revision |-> 1, schemas |-> Documents],
     bundle |-> [revision |-> 1, documents |-> documents],
     artifacts |-> artifacts, build |-> build]

Good == Handed(Artifacts("pipeline", Released), Documents, Released)

\* Schemas out of order, artifacts of others, a build that is not the artifact's,
\* one whose calls are out of order.
Bad ==
    {Handed(Artifacts("pipeline", Released), Reverse(Documents), Released),
     Handed(Artifacts("other", Released), Documents, Released),
     Handed(Artifacts("pipeline", Released), Documents, [Released EXCEPT !.wrapper = "other"])}
    \cup {Handed(Artifacts("pipeline", b), Documents, b) :
            b \in {Build(<<<<"create", "pair">>, <<"deploy", "pair">>>>)}}

MCDeployments == {Good} \cup Bad

State(wrapper, relations, nonce, delay, open, rate, fresh) ==
    [wrapper |-> wrapper, relations |-> relations, pool |-> FALSE, nonce |-> nonce,
     delay |-> delay, open |-> open, rate |-> rate, fresh |-> fresh]

Pair(wrapper, relations) == State(wrapper, relations, 0, 0, TRUE, 200, TRUE)

Safe(nonce, delay, open, rate) == State("zero", "built", nonce, delay, open, rate, TRUE)

World(states, height, n) == [states |-> states, height |-> height, blocks |-> n]

MCStarts ==
    {[world |-> World({Pair("zero", "built"), Pair(Expected, "built"), Pair("zero", "feeds"),
                       Pair(Expected, "broken")}, 3, 4),
      deployment |-> Good, calls |-> {}]}
    \cup {[world |-> World({Pair("zero", "built")}, 1, 1), deployment |-> d, calls |-> {}] : d \in Bad}
    \cup {[world |-> World({Safe(0, 0, TRUE, 200), Safe(1, 0, TRUE, 200)}, 2, 3),
            deployment |-> None, calls |-> {c1, c2}],
          [world |-> World({Safe(0, 0, TRUE, 200), Safe(1, 1, TRUE, 200)}, 1, 1),
            deployment |-> None, calls |-> {c1, c3}],
          [world |-> World({Safe(0, 1, TRUE, 200), Safe(1, 2, TRUE, 200), Safe(0, 1, FALSE, 203)}, 2, 3),
            deployment |-> None, calls |-> {c1}]}

MCPortOf == [c \in Previews |-> IF c = c3 THEN 2 ELSE 1]
=============================================================================
