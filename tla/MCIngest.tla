------------------------------ MODULE MCIngest ------------------------------
(* Model constants for Ingest. *)
EXTENDS Ingest, TLC

CONSTANTS e1, e2, newId, oldId

\* Handlers are alike, and all that is checked are states and steps.
ExportSymmetry == Permutations({e1, e2})

SomeFiles == ("new" :> newId) @@ ("old" :> oldId)

Attr(k, v) == [key |-> k, value |-> v]

\* The attributes of every request, and places in them.
SomeAttributes ==
    <<Attr("profile.frame.type", "native"),         \* 1
      Attr("profile.frame.type", "cpython"),        \* 2
      Attr("profile.frame.type", "abort-marker"),   \* 3
      Attr("profile.frame.type", "unheard-of"),     \* 4
      Attr("build_id.profiling", "old"),            \* 5
      Attr("build_id.htlhash", "new"),              \* 6
      Attr("thread.name", "main"),                  \* 7
      Attr("build_id.htlhash", NoText)>>            \* 8

SomeFunctions == <<[name |-> "f", file |-> NoString],
                   [name |-> "g", file |-> Dangling]>>

Mapping(attrs) == [attrs |-> attrs]

\* The first mapping has no attributes, the last no build ID.
SomeMappings == <<Mapping(<<>>), Mapping(<<5, 6>>), Mapping(<<8, 5>>), Mapping(<<7>>)>>

Line(f) == [function |-> f, line |-> 1]
Loc(attrs, address, mapping, lines) ==
    [attrs |-> attrs, address |-> address, mapping |-> mapping, lines |-> lines]

Nothing == Loc(<<>>, 0, 1, <<>>)
Native == Loc(<<7, 1>>, 1, 2, <<>>)
Legacy == Loc(<<1>>, 1, 3, <<>>)
Python == Loc(<<2>>, 2, 1, <<Line(1)>>)
Unnamed == Loc(<<2>>, 3, 1, <<Line(0)>>)
Abort == Loc(<<3>>, 4, 1, <<>>)
Foreign == Loc(<<4>>, 1, 2, <<>>)
NoBuildId == Loc(<<1>>, 1, 4, <<>>)
NoFunction == Loc(<<2>>, 2, 1, <<Line(2)>>)
OutOfBounds == Loc(<<9, 1>>, 1, 2, <<>>)

\* Time stamps of a second: nanoseconds after the epoch, milliseconds before.
Stamp(s) == IF s >= Epoch THEN s * Nano + 1 ELSE s * Milli + 1

Sampled(stack, type, seconds) ==
    [stack |-> stack, type |-> type, unit |-> "count",
     stamps |-> [n \in DOMAIN seconds |-> Stamp(seconds[n])],
     meant |-> {seconds[n] : n \in DOMAIN seconds}]

Request(locations, stacks, samples) ==
    [attributes |-> SomeAttributes, functions |-> SomeFunctions,
     mappings |-> SomeMappings, locations |-> locations, stacks |-> stacks,
     samples |-> samples]

\* A well-formed request, one that breaks off after storing a trace, with a
\* sample to go, one that breaks off before that, and one with a location that
\* is refused.  One executable is enough: it is the one fetched and dropped.
Contents ==
    <<Request(<<Nothing, Native, Python, Abort>>, <<<<2>>, <<1, 3, 4>>>>,
             <<Sampled(1, "samples", <<Epoch, Epoch - 1>>), Sampled(2, "off_cpu", <<>>)>>),
     Request(<<Python>>, <<<<1>>, <<1, 1>>>>,
             <<Sampled(2, NoString, <<Epoch>>), Sampled(1, "samples", <<Epoch + 1>>)>>),
     Request(<<Native>>, <<<<1>>, <<2>>>>, <<Sampled(2, "samples", <<Epoch>>)>>),
     Request(<<Native, Nothing>>, <<<<1>>>>, <<Sampled(1, "samples", <<>>)>>)>>

\* The decoder by itself: the other locations that are refused, the build ID
\* that is preferred, and the one that is generated.
ASSUME DecoderAssumption ==
    LET frame(l) == FrameOf(Request(<<Nothing, l>>, <<>>, <<>>), l)
    IN  /\ \A l \in {Foreign, NoBuildId, NoFunction, OutOfBounds} : frame(l) = BadFrame
        /\ frame(Nothing) = Dummy
        /\ frame(Native).file = newId
        /\ frame(Python).file = <<<<<<"f">>, 1>>>>
        /\ frame(Unnamed).file = <<<<<<>>, 1>>>>
        /\ frame(Legacy).file = oldId
=============================================================================
