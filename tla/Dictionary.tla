----------------------------- MODULE Dictionary -----------------------------
(***************************************************************************)
(* What an export request says: how the collector decodes its dictionary   *)
(* and samples (collector/otlp/service.rs).  The tables of a request refer *)
(* to each other by index; Ingest is about the order in which what is      *)
(* decoded gets stored.                                                    *)
(*                                                                         *)
(* A request has attributes (key, value), functions (name, file), mappings *)
(* (attrs), locations (attrs, address, mapping, lines), stacks of          *)
(* locations and samples (stack, type, unit, stamps), those of all its     *)
(* profiles that have a sample type.  Indices begin with 1, but for        *)
(* functions with 0, which is none.  An index into the string table is the *)
(* string, or one of two values that stand for an index that names none.   *)
(***************************************************************************)
EXTENDS Naturals, Sequences

CONSTANTS
    NoString,   \* index 0
    Dangling,   \* an index that is out of bounds
    NoText,     \* an attribute's value that is not a string; no attribute
    FileIdOf,   \* FileIdOf[b]: the file ID of build ID b, if it can be parsed
    AbortFile,  \* FileId::from_parts(1, 1)
    Dummy,      \* Frame::default()
    BadFrame,   \* in place of a frame: the handler refuses the request
    Epoch,      \* 1704063600
    Nano, Milli \* time stamps a second: 10^9, 10^3

Kinds == {"native", "kernel", "jvm", "perl", "cpython", "php", "phpjit", "ruby",
          "dotnet", "v8js", "beam", "go"}

Present(str) == str \notin {NoString, Dangling}

\* The value of the first attribute of this name.  What is wrong with an
\* index before it, or with its value, is wrong with the request.
GetAttr(r, indices, field) ==
    LET valid(n) == indices[n] \in DOMAIN r.attributes
        key(n) == r.attributes[indices[n]].key
        stops == {n \in DOMAIN indices :
                     valid(n) => key(n) = field \/ ~Present(key(n))}
        first == CHOOSE n \in stops : \A m \in stops : n <= m
    IN  IF stops # {} /\ valid(first) /\ key(first) = field
        THEN r.attributes[indices[first]].value ELSE NoText

-----------------------------------------------------------------------------
(* Locations.                                                              *)

\* What is hashed for the file ID if the mapping has no attributes at all.
Generated(r, loc) ==
    [n \in DOMAIN loc.lines |->
        LET f == loc.lines[n].function
        IN  <<IF f \in DOMAIN r.functions
              THEN SelectSeq(<<r.functions[f].name, r.functions[f].file>>, Present)
              ELSE <<>>, loc.lines[n].line>>]

FileOf(r, loc) ==
    LET attrs == r.mappings[loc.mapping].attrs
        new == GetAttr(r, attrs, "build_id.htlhash")
        legacy == GetAttr(r, attrs, "build_id.profiling")
        id == IF new # NoText THEN new ELSE legacy
    IN  IF attrs = <<>> THEN Generated(r, loc)
        ELSE IF id \in DOMAIN FileIdOf THEN FileIdOf[id] ELSE NoText

HasFunction(loc) == loc.lines # <<>> /\ loc.lines[1].function # 0

\* The function of the first line cannot be looked up.
BadFunction(r, loc) ==
    LET f == loc.lines[1].function
    IN  /\ HasFunction(loc)
        /\ f \in DOMAIN r.functions =>
              Dangling \in {r.functions[f].name, r.functions[f].file}

\* A location equal to the first may lack a kind.
FrameOf(r, loc) ==
    LET kind == GetAttr(r, loc.attrs, "profile.frame.type")
        file == FileOf(r, loc)
    IN  IF kind = NoText
        THEN IF loc = r.locations[1] THEN Dummy ELSE BadFrame
        ELSE IF kind = "abort-marker"
        THEN [kind |-> kind, file |-> AbortFile, address |-> loc.address]
        ELSE IF /\ kind \in Kinds
                /\ loc.mapping \in DOMAIN r.mappings
                /\ file # NoText
                /\ kind = "native" \/ ~BadFunction(r, loc)
        THEN [kind |-> kind, file |-> file, address |-> loc.address]
        ELSE BadFrame

\* Mutant of FramesOfLocations: nothing is put in the place of the dummy.
FramesShifted(r) ==
    LET frame(n) == FrameOf(r, r.locations[n])
        n0 == IF frame(1) = Dummy THEN 1 ELSE 0
    IN  [n \in 1 .. Len(r.locations) - n0 |-> frame(n + n0)]

FramesOfLocations(r) ==
    [n \in 1 .. Len(r.locations) |-> FrameOf(r, r.locations[n])]

IsNative(f) == f # Dummy /\ f # BadFrame /\ f.kind = "native"

\* The frames whose metadata goes into the batch.
MetaData(r) ==
    {FrameOf(r, r.locations[n]) :
        n \in {m \in DOMAIN r.locations :
                  LET f == FrameOf(r, r.locations[m])
                  IN  /\ HasFunction(r.locations[m])
                      /\ f # Dummy /\ f # BadFrame
                      /\ f.kind \in Kinds \ {"native"}}}

-----------------------------------------------------------------------------
(* Samples.                                                                *)

\* collect_frame_list refuses an index that is out of bounds; for one of a
\* stack the handler panics.
BadLocation(r, s) ==
    \/ s.stack \notin DOMAIN r.stacks
    \/ \E n \in DOMAIN r.stacks[s.stack] :
          r.stacks[s.stack][n] \notin DOMAIN FramesOfLocations(r)

\* After the locations and the trace, the sample type is looked up.
Flaw(r, s) ==
    CASE BadLocation(r, s) -> "location"
      [] OTHER -> IF Present(s.type) /\ Present(s.unit) THEN "none" ELSE "type"

FrameList(r, s) ==
    [n \in DOMAIN r.stacks[s.stack] |->
        FramesOfLocations(r)[r.stacks[s.stack][n]]]

\* Mutant of Seconds: the threshold is in the wrong unit.
SecondsOfMilli(t) == IF t > Epoch * Milli THEN t \div Nano ELSE t \div Milli

Seconds(t) == IF t > Epoch * Nano THEN t \div Nano ELSE t \div Milli

\* The seconds of a sample's events; without time stamps there is one event,
\* whose stamp is the current time, in seconds.
Times(s, now) ==
    IF s.stamps = <<>> THEN {Seconds(now)}
    ELSE {Seconds(s.stamps[n]) : n \in DOMAIN s.stamps}
=============================================================================
