------------------------------ MODULE MCImages ------------------------------
(* What makes, reads and describes images, for TLC: the eStargz builder with both         *)
(* readers of what it builds, the metadata database, the converters, the analyzer and the *)
(* labels of layers.  A behaviour is one of them: sel says which.                         *)
EXTENDS Converter, AnalyzerIO, MetadataReader, Sequences, SequencesExt

CONSTANTS
    MaxEntries, Tars, FaultyTars, Prios, ChunkSize, MinChunkSizes, Formats, Procs,   \* of the builder
    p1, p2, Fds, MaxOpens, None,                                     \* of the analyzer
    Limit                                                            \* of the labels

VARIABLES
    sel,   \* the component of this behaviour
    in, err, ctx, once, watcher, entries, parts, part, ws, disk, tracked, blob,
    pc,
    batch, closed,
    index, service, marked, events, fds, toService, toClient, client, record, committed,
    opened,
    children, cri, target, labels, source

\* p1 may be in each of two layers, deleted or hidden; p2 is in the bottom layer only.
MCEntries == ({"file", "wh"} \X {p1, p2}) \cup {<<"opaque", None>>}
MCImageLayers == {i \in [1 .. 2 -> SUBSET MCEntries] :
    /\ \A e \in i[1] : e[2] = p2 => e = <<"file", p2>>
    /\ \A e \in i[2] : e[2] # p2}

\* Every manifest of up to three layers, with digests that may repeat, after the config,
\* and some with the config between layers.
Config == [digest |-> 9, layer |-> FALSE, urls |-> <<>>]
ALayer == [digest : 1 .. 3, layer : {TRUE}, urls : {<<>>, <<"u1">>, <<"u2", "u3", "u4">>}]
MCManifests == UNION {{<<Config>> \o s : s \in [1 .. n -> ALayer]} : n \in 1 .. 3}
               \cup {<<a, Config, b>> : a, b \in ALayer}

B == INSTANCE EStargzBuild
A == INSTANCE Analyzer WITH Paths <- {p1, p2}, Layers <- 2, Images <- MCImageLayers
L == INSTANCE SourceLabels WITH Manifests <- MCManifests

ASSUME B!BuildAssumption /\ ConverterAssumption /\ A!AnalyzerAssumption /\ L!LabelsAssumption

\* Every tar of up to MaxEntries of these entries; a hard link follows the file it names.
Reg(name, size) == [id |-> 0, name |-> name, type |-> "reg", size |-> size, link |-> <<>>]
Dir(name) == [id |-> 0, name |-> name, type |-> "dir", size |-> 0, link |-> <<>>]
Link(name, to) == [id |-> 0, name |-> name, type |-> "hardlink", size |-> 0, link |-> to]
Pool == {Reg(<<"a">>, 0), Reg(<<"a">>, 3), Reg(<<"b">>, 1), Dir(<<"d">>), Reg(<<"d", "x">>, 5),
         Link(<<"l">>, <<"a">>), Reg(<<".prefetch.landmark">>, 1), Reg(<<"stargz.index.json">>, 1)}
Valid(s) == \A i \in DOMAIN s : s[i].type = "hardlink" => \E j \in 1 .. i - 1 : s[j].name = s[i].link
MCTars == {[i \in DOMAIN s |-> [s[i] EXCEPT !.id = i]] : s \in {t \in BoundedSeq(Pool, MaxEntries) : Valid(t)}}
MCFaultyTars == {t \in MCTars : Len(t) = 2 /\ t[1].name = <<"d">> /\ t[2].name = <<"d", "x">>}
MCPrios == {<<>>, <<<<"d", "x">>, <<"a">>>>, <<<<"l">>, <<"b">>>>}

MCTocs == {<<"ok", "ok">>, <<"ok", "link", "ok">>, <<"ok", "syntax">>}

buildVars == <<in, err, ctx, once, watcher, entries, parts, part, ws, disk, tracked,
               blob>>
buildLabelsVars == <<pc>>
analyzeVars == <<batch, closed, index, service, marked, events, fds, toService, toClient, client,
                 record, committed, opened>>
analyzeIoVars == <<main, task>>
containerVars == <<status, waitLine, streams, output>>
labelsVars == <<children, cri, target, labels, source>>
allVars == <<sel, buildVars, buildLabelsVars, dbVars, vars, analyzeVars, analyzeIoVars, containerVars, labelsVars>>

\* The variables of the other components have no value, those of Converter, AnalyzerIO and
\* MetadataReader rest in an initial state.
buildOff == in = 0 /\ err = 0 /\ ctx = 0 /\ once = 0 /\ watcher = 0 /\ entries = 0
            /\ parts = 0 /\ part = 0 /\ ws = 0 /\ disk = 0 /\ tracked = 0 /\ blob = 0
buildLabelsOff == pc = 0
dbOff == ReaderInit /\ toc = [r \in Readers |-> <<"ok", "ok">>]
convertOff == Init /\ kind = "estargz" /\ ~external
analyzeOff == batch = 0 /\ closed = 0 /\ index = 0 /\ service = 0 /\ marked = 0 /\ events = 0 /\ fds = 0
              /\ toService = 0 /\ toClient = 0 /\ client = 0 /\ record = 0
              /\ committed = 0 /\ opened = 0
analyzeIoOff == main = 0 /\ task = 0
ioOff == /\ status = FALSE /\ waitLine = FALSE /\ closer = FALSE /\ initialized = FALSE
         /\ waiting = FALSE /\ condL = FALSE /\ reader = "none" /\ reads = 0
         /\ stdin = "open" /\ copier = "none" /\ scanner = "none" /\ lines = 0
labelsOff == children = 0 /\ cri = 0 /\ target = 0 /\ labels = 0 /\ source = 0

AllInit ==
    \/ sel = "build" /\ B!Init /\ dbOff /\ convertOff /\ analyzeOff
       /\ analyzeIoOff /\ ioOff /\ labelsOff
    \/ sel = "db" /\ ReaderInit /\ buildOff /\ buildLabelsOff /\ convertOff /\ analyzeOff /\ analyzeIoOff
       /\ ioOff /\ labelsOff
    \/ sel = "convert" /\ Init /\ buildOff /\ buildLabelsOff /\ dbOff
       /\ analyzeOff /\ analyzeIoOff /\ ioOff /\ labelsOff
    \/ sel = "analyze" /\ A!Init /\ buildOff /\ buildLabelsOff /\ dbOff /\ convertOff
       /\ ioOff /\ labelsOff
    \/ sel = "io" /\ IOInit /\ buildOff /\ buildLabelsOff /\ dbOff
       /\ convertOff /\ analyzeOff /\ labelsOff
    \/ sel = "labels" /\ L!Init /\ buildOff /\ dbOff /\ convertOff
       /\ analyzeOff /\ analyzeIoOff /\ ioOff

AllNext ==
    \/ sel = "build" /\ B!Next /\ UNCHANGED <<sel, dbVars, vars,
       analyzeVars, analyzeIoVars, containerVars, labelsVars>>
    \/ sel = "db" /\ ReaderNext /\ UNCHANGED <<sel, buildVars, buildLabelsVars, vars, analyzeVars,
       analyzeIoVars, containerVars, labelsVars>>
    \/ sel = "convert" /\ Next /\ UNCHANGED <<sel, buildVars, buildLabelsVars, dbVars,
       analyzeVars, analyzeIoVars, containerVars, labelsVars>>
    \/ sel = "analyze" /\ A!Next /\ UNCHANGED <<sel, buildVars, buildLabelsVars,
       dbVars, vars, containerVars, labelsVars>>
    \/ sel = "io" /\ IONext /\ UNCHANGED <<sel, buildVars, buildLabelsVars, dbVars,
       vars, analyzeVars, labelsVars>>
    \/ sel = "labels" /\ L!Next /\ UNCHANGED <<sel, buildVars, dbVars,
       vars, analyzeVars, analyzeIoVars, containerVars>>
    \/ sel \in {"db", "convert", "io"} /\ UNCHANGED allVars   \* these may stop

AllSpec == AllInit /\ [][AllNext]_allVars

-----------------------------------------------------------------------------
(* Properties. *)

\* A built blob is opened again, and every file of it reads back byte for byte from both
\* metadata stores, also from a stream that its chunks share.
ReadsBack == sel = "build" => B!ReadsBack /\ B!SharedStreamsRead /\ B!BlobReopens

\* The prioritized files, and no other, are before the landmark.
PrefetchCoversPrioritized == sel = "build" => B!PrefetchCoversPrioritized

\* Both metadata stores make the same tree of a TOC.
TreesAgree == sel = "build" => B!TreesAgree

\* No temporary file is left by a Build whose blob is closed, or by the initialization of
\* the database.
NoFileLeft ==
    /\ sel = "build" => B!NoFileLeft
    /\ NoTempLeft

\* ViewsAreComplete is that of MetadataReader, ConversionRecovers and DescriptorsAreTrue
\* are those of Converter, CloserIsSet is that of AnalyzerIO.

\* The record is a prefix of what the container opened, with the layers that have it.
RecordIsPrefixOfOpens == sel = "analyze" => A!RecordIsPrefixOfOpens

\* A source made of labels names the layer, its URLs and its neighbours in the manifest.
SourceIsOfTheImage == sel = "labels" => L!SourceIsOfTheImage
=============================================================================
