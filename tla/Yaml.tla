-------------------------------- MODULE Yaml --------------------------------
(***************************************************************************)
(* The values of YAML documents as js-yaml returns them, tagged by their   *)
(* type so that values of different types can be compared, and what the    *)
(* code asks of them.  The classes of texts the code tells apart by        *)
(* regular expressions and the URL parser are constants.                   *)
(***************************************************************************)
EXTENDS Integers, Sequences, FiniteSets, TLC

CONSTANTS
    Names,           \* texts that match /^[a-z][a-z0-9_-]*$/,
    ParameterNames,  \* /^[a-z][a-z0-9_]*$/,
    HeaderNames,     \* the token characters of a header name,
    SeriesNames,     \* /^[a-zA-Z_:][a-zA-Z0-9_:]*$/;
    HttpUrls,        \* absolute URLs of HTTP or HTTPS,
    BaseUrls,        \* texts that begin with {url} or {metric_source},
    ItemUrls,        \* those of both that contain {item};
    Paths,           \* texts that begin with /;
    Blanks,          \* texts that trim() leaves empty,
    LongTexts,       \* those of more than 32 characters,
    OversizedTexts,  \* of more than 256,
    PaddedTexts,     \* and those that trim() leaves no more than 256 of;
    MaxDepth         \* how deep values are nested, at most

\* No message that the program makes is nested deeper either.
ASSUME DepthAssumption == MaxDepth \in Nat /\ MaxDepth >= 8

ASSUME LengthsAssumption == PaddedTexts \subseteq OversizedTexts /\ OversizedTexts \subseteq LongTexts

Absent == [absent |-> TRUE]   \* undefined
Null == [null |-> TRUE]
Infinite == [infinite |-> TRUE]
Text(s) == [text |-> s]
Num(n) == [num |-> n]
Flag(b) == [flag |-> b]
List(s) == [list |-> s]
Map(f) == [map |-> f]

IsText(v) == DOMAIN v = {"text"}
IsNum(v) == DOMAIN v = {"num"}
IsFlag(v) == DOMAIN v = {"flag"}
IsList(v) == DOMAIN v = {"list"}
IsMap(v) == DOMAIN v = {"map"}

\* A field of a mapping; a mapping's keys, also of what is no mapping.
Get(v, k) == IF IsMap(v) THEN IF k \in DOMAIN v.map THEN v.map[k] ELSE Absent ELSE Absent
Keys(v) == IF IsMap(v) THEN DOMAIN v.map ELSE {}
Has(v, k) == k \in Keys(v)

Known(v, fields) == IsMap(v) /\ DOMAIN v.map \subseteq fields
NonEmptyMap(v) == IsMap(v) /\ DOMAIN v.map # {}
NonEmptyText(v) == IsText(v) /\ v.text # ""
Filled(v) == IsText(v) /\ v.text \notin Blanks
Scalar(v) == IsText(v) \/ IsNum(v) \/ IsFlag(v)

\* What is in a value, one level below it and by levels.
Inside(v) ==
    IF IsMap(v) THEN {v.map[k] : k \in DOMAIN v.map}
    ELSE IF IsList(v) THEN {v.list[i] : i \in DOMAIN v.list} ELSE {}

Levels(v) ==
    LET level[d \in 0..MaxDepth] == IF d = 0 THEN {v} ELSE UNION {Inside(p) : p \in level[d - 1]}
    IN  level

Parts(v) == UNION {Levels(v)[d] : d \in 0..MaxDepth}

\* What Of makes of a value, given what it makes of each value inside, from the deepest level up.
Upwards(v, level, Of(_, _)) ==
    LET at[d \in 0..MaxDepth] ==
            [p \in level[MaxDepth - d] |-> Of(p, IF d = 0 THEN [q \in Inside(p) |-> q] ELSE at[d - 1])]
    IN  at[MaxDepth][v]
Rebuilt(v, Of(_, _)) == Upwards(v, Levels(v), Of)

\* The field is left out or holds something for which P holds.
Opt(v, k, P(_)) == Get(v, k) = Absent \/ P(Get(v, k))
OptTrue(v, k) == Get(v, k) \in {Absent, Flag(TRUE)}

Without(v, fields) == Map([k \in DOMAIN v.map \ fields |-> v.map[k]])

\* The `??` of JavaScript, and an optional value that is not one of YAML.
Else(v, default) == IF v = Absent THEN default ELSE v
Some(x) == [some |-> x]
Among(x, v) == v # Absent /\ x \in v.some

\* {...a, ...b} in JavaScript.
Spread(a, b) == [k \in DOMAIN a \cup DOMAIN b |-> IF k \in DOMAIN b THEN b[k] ELSE a[k]]

\* The fields of b before those of a.
Merged(a, b) == Map(Spread(a.map, b.map))
=============================================================================
