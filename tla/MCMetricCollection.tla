------------------------- MODULE MCMetricCollection -------------------------
EXTENDS MetricCollection, TLC

CONSTANTS card1, card2, metric1, metric2, origin

Of(extractor, optional, login) == [extractor |-> extractor, optional |-> optional, login |-> login]

MCOrigin == [x \in {metric1, metric2} |-> origin]
MCLimit == (origin :> 1) @@ (Jq :> 1)

Setup(ofA, ofB, first, second, cards, refreshes, errors) ==
    [metrics |-> (card1 :> ofA) @@ (card2 :> ofB), source |-> (metric1 :> first) @@ (metric2 :> second),
     discovered |-> cards, changes |-> refreshes, failures |-> errors]

Text == Of("text", FALSE, "none")

MCSetups ==
    {Setup({}, {}, Text, Text, cards, 2, 0) : cards \in SUBSET {card1, card2}}
    \cup {Setup({}, {metric2}, Text, Text, cards, 1, 1) : cards \in SUBSET {card1, card2}}
    \cup {Setup({metric1}, {metric2}, Of("jq", FALSE, "none"), Text, {card1, card2}, 0, 1),
          Setup({metric1}, {}, Of("pages", TRUE, "jq"), Text, {card1}, 0, 0),
          Setup({metric1}, {}, Of("socketio", TRUE, "html"), Text, {card1}, 0, 0),
          Setup({metric1}, {}, Of("each", FALSE, "none"), Text, {card1}, 0, 0)}
=============================================================================
