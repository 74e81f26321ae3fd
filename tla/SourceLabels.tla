----------------------------- MODULE SourceLabels -----------------------------
(***************************************************************************)
(* How the client tells the snapshotter about the image of a layer         *)
(* (fs/source/source.go, service/cri.go): handlers annotate each layer of  *)
(* a manifest with the digests of the layers from it on and with their     *)
(* URLs by index; containerd passes the annotations as labels, from which  *)
(* the snapshotter makes the source of the layer.  Labels are limited in   *)
(* size: what does not fit is left out.                                    *)
(*                                                                         *)
(* A child of a manifest is a digest, whether it is a layer, and its URLs. *)
(***************************************************************************)
EXTENDS Integers, Sequences, SequencesExt

CONSTANTS
    Manifests,  \* sequences of [digest, layer, urls]
    Limit       \* digests or URLs that fit in a label

LabelsAssumption == Limit \in Nat \ {0}

VARIABLES
    children, cri,  \* the manifest; whether the labels are the ones of the CRI
    pc, target,     \* the index of the layer
    labels,         \* its annotations: [digest, layers, urls, targetURLs]
    source          \* what is made of them: [target, neighbours]

vars == <<children, cri, pc, target, labels, source>>

NoLabels == [digest |-> 0, layers |-> <<>>, urls |-> <<>>, targetURLs |-> <<>>]
NoSource == [target |-> [digest |-> 0, urls |-> <<>>], neighbours |-> <<>>]

Init ==
    /\ children \in Manifests /\ cri \in BOOLEAN
    /\ pc = "handle" /\ target = 0 /\ labels = NoLabels /\ source = NoSource

-----------------------------------------------------------------------------
Fitting(s) == SubSeq(s, 1, IF Len(s) < Limit THEN Len(s) ELSE Limit)

\* URLs joined with commas; none gives an empty label.
appendWithValidation(urls) == Fitting(urls)

\* What strings.Split makes of it: an empty label gives one empty URL.
Split(urls) == IF urls = <<>> THEN <<"">> ELSE urls

\* The positions, in the children from child i on, of the layers that fit, from 0 on.
Listed(i) == Fitting(SelectSeq([k \in 1 .. (Len(children) - i + 1) |-> k - 1], LAMBDA k : children[i + k].layer))

Digests(i) == [n \in DOMAIN Listed(i) |-> children[i + Listed(i)[n]].digest]

\* Mutant: the URLs are kept by the position in the manifest.
AppendDefaultLabelsAbsolute(i) ==
    [digest |-> children[i].digest, layers |-> Digests(i),
     urls |-> [k \in {i - 1 + n : n \in ToSet(Listed(i))} |-> appendWithValidation(children[k + 1].urls)],
     targetURLs |-> appendWithValidation(children[i].urls)]

\* AppendDefaultLabelsHandlerWrapper: the URLs by the position in the rest of the manifest.
AppendDefaultLabels(i) ==
    [digest |-> children[i].digest, layers |-> Digests(i),
     urls |-> [k \in ToSet(Listed(i)) |-> appendWithValidation(children[i + k].urls)],
     targetURLs |-> appendWithValidation(children[i].urls)]

layerFromDigest(d) == CHOOSE k \in DOMAIN children :
    children[k].digest = d /\ \A n \in 1 .. (k - 1) : children[n].digest # d

\* AppendExtraLabelsHandler: the URLs by the position in the label of containerd.
AppendExtraLabels(i) ==
    [digest |-> children[i].digest, layers |-> Digests(i),
     urls |-> [k \in {n \in 0 .. (Len(Digests(i)) - 1) : children[layerFromDigest(Digests(i)[n + 1])].layer} |->
                 appendWithValidation(children[layerFromDigest(Digests(i)[k + 1])].urls)],
     targetURLs |-> appendWithValidation(children[i].urls)]

Handle(i) ==
    /\ pc = "handle" /\ children[i].layer
    /\ labels' = IF cri THEN AppendExtraLabels(i) ELSE AppendDefaultLabels(i)
    /\ target' = i /\ pc' = "labelled"
    /\ UNCHANGED <<children, cri, source>>

-----------------------------------------------------------------------------
\* The neighbours: the listed layers but the target, with the URLs of their index.
Neighbours ==
    LET l == labels.layers
        others == SelectSeq([n \in DOMAIN l |-> n], LAMBDA n : l[n] # labels.digest)
    IN [m \in DOMAIN others |->
          LET n == others[m] IN
          [digest |-> l[n], urls |-> IF n - 1 \in DOMAIN labels.urls THEN Split(labels.urls[n - 1]) ELSE <<>>]]

TargetDesc == [digest |-> labels.digest, urls |-> Split(labels.targetURLs)]

\* FromDefaultLabels, and sourceFromCRILabels, which reads labels of other names.
FromDefaultLabels ==
    /\ pc = "labelled" /\ ~cri
    /\ source' = [target |-> TargetDesc, neighbours |-> Neighbours]
    /\ pc' = "done" /\ UNCHANGED <<children, cri, target, labels>>

sourceFromCRILabels ==
    /\ pc = "labelled" /\ cri
    /\ source' = [target |-> TargetDesc, neighbours |-> Neighbours]
    /\ pc' = "done" /\ UNCHANGED <<children, cri, target, labels>>

\* Another layer of the image, or another image.
Again ==
    /\ pc = "done" /\ pc' = "handle" /\ target' = 0 /\ labels' = NoLabels /\ source' = NoSource
    /\ UNCHANGED <<children, cri>>

Next == (\E i \in DOMAIN children : Handle(i)) \/ FromDefaultLabels \/ sourceFromCRILabels \/ Again

Spec == Init /\ [][Next]_vars

-----------------------------------------------------------------------------
(* Properties. *)

\* The layers of a manifest follow each other.
Contiguous == \A k \in 1 .. (Len(children) - 1) : children[k].layer => children[k + 1].layer

URLsOf(d, k) == \E n \in 0 .. Len(children[k].urls) : d.urls \in {SubSeq(children[k].urls, 1, n), <<"">>}

\* The source of a layer names that layer, and as its neighbours layers that come after
\* it, in order, each with URLs of its own: an index means the same to the handler that
\* writes the labels and to the function that reads them, also when the list was cut.
\* (The default handler counts the children that are no layers too, so this needs
\* manifests whose layers follow each other.)
SourceIsOfTheImage ==
    pc = "done" /\ (cri \/ Contiguous) =>
        /\ source.target.digest = children[target].digest /\ URLsOf(source.target, target)
        /\ \A m \in DOMAIN source.neighbours :
             \E k \in DOMAIN children :
                /\ children[k].layer /\ children[k].digest = source.neighbours[m].digest
                /\ URLsOf(source.neighbours[m], k)
                /\ cri \/ k >= target + m
=============================================================================
