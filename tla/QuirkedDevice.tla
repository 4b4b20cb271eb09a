---------------------------- MODULE QuirkedDevice ----------------------------
(***************************************************************************)
(* The object that takes the place of a device: BaseCustomDevice and       *)
(* CustomEndpoint, which make it from the replaced one, and the metadata of *)
(* a quirk of version 2 (zigpy/quirks/v2), which add, remove and replace    *)
(* its clusters.  (A quirk of version 1 lists all of its clusters.)         *)
(*                                                                         *)
(* A place is an endpoint, a side, and the id of a cluster; what is there   *)
(* is an instance of a class, with the cached attributes of the cluster of  *)
(* the replaced device or without.  Of a cluster only these matter here:    *)
(* constant attributes are data, and is_server follows the class.  Every    *)
(* endpoint of the device has a cluster: an endpoint is known by its places. *)
(***************************************************************************)
EXTENDS Integers, FiniteSets, Sequences, Functions, SequencesExt

CONSTANTS
  ReplacedDevices,   \* sets of places
  Additions,         \* [place, class]: the metadata of adds()
  Removals,          \* places: of removes()
  Replacements,      \* [remove, add]: of replaces()
  Occurrences        \* [cluster, sides, class]: of replace_cluster_occurrences()

\* The class that zigpy has for an id.
Standard == "Cluster"

\* replaces() and replace_cluster_occurrences() take classes only.
ASSUME ClassesReplace ==
  /\ \A r \in Replacements : r.add.class # Standard
  /\ \A o \in Occurrences : o.class # Standard

VARIABLES
  replaced,      \* the places of the device
  quirk,         \* the metadata: at most one of each kind
  quirked,       \* per place of the object: what is there
  creation       \* "new", "done" or "raised"

quirkedVars == <<replaced, quirk, quirked, creation>>

UpToOne(S) == {<<>>} \cup {<<x>> : x \in S}

QuirkedInit ==
  /\ replaced \in ReplacedDevices
  /\ quirk \in [adds : UpToOne(Additions), removes : UpToOne(Removals),
                replaces : UpToOne(Replacements), occurrences : UpToOne(Occurrences)]
  /\ quirked = <<>>
  /\ creation = "new"

-----------------------------------------------------------------------------
(* CustomDeviceV2.__init__.                                                *)

Instance(class) == [class |-> class, cached |-> FALSE]

\* _replacement_from_replaces names all clusters by their ids, CustomEndpoint makes
\* them anew, and _copy_cluster_attr_cache takes their attributes over.
CopiedClusters == [p \in replaced |-> [class |-> Standard, cached |-> TRUE]]

\* add_input_cluster and add_output_cluster: a class takes the place of what is
\* there, an id does not.
Adds(clusters, a) ==
  IF a.class = Standard /\ a.place \in DOMAIN clusters THEN clusters
  ELSE [p \in DOMAIN clusters \cup {a.place} |->
          IF p = a.place THEN Instance(a.class) ELSE clusters[p]]

RemovesCluster(clusters, place) == Restrict(clusters, DOMAIN clusters \ {place})

\* Mutant of ReplacesCluster: the cluster is removed after the other was added.
ReplacesLate(clusters, r) == RemovesCluster(Adds(clusters, r.add), r.remove)

ReplacesCluster(clusters, r) == Adds(RemovesCluster(clusters, r.remove), r.add)

IsOccurrence(p, o) == p.cluster = o.cluster /\ p.side \in o.sides

ReplacesOccurrences(clusters, o) ==
  [p \in DOMAIN clusters |-> IF IsOccurrence(p, o) THEN Instance(o.class) ELSE clusters[p]]

\* The clusters after the metadata of one kind, one by one.
Each(Op(_, _), clusters, list) ==
  LET upTo[n \in 0 .. Len(list)] ==
        IF n = 0 THEN clusters ELSE Op(upTo[n - 1], list[n])
  IN upTo[Len(list)]

WithAdded    == Each(Adds, CopiedClusters, quirk.adds)
WithRemoved  == Each(RemovesCluster, WithAdded, quirk.removes)
WithReplaced == Each(ReplacesCluster, WithRemoved, quirk.replaces)
Built        == Each(ReplacesOccurrences, WithReplaced, quirk.occurrences)

\* Endpoints that the quirk names must be there: device.endpoints[...] raises.
Named == {a.place : a \in ToSet(quirk.adds)} \cup ToSet(quirk.removes)
           \cup {r.remove : r \in ToSet(quirk.replaces)}
           \cup {r.add.place : r \in ToSet(quirk.replaces)}
Raises == \E n \in Named : \A p \in replaced : p.endpoint # n.endpoint

CreateDevice ==
  /\ creation = "new"
  /\ creation' = IF Raises THEN "raised" ELSE "done"
  /\ quirked' = IF Raises THEN <<>> ELSE Built
  /\ UNCHANGED <<replaced, quirk>>

QuirkedNext == CreateDevice

QuirkedSpec == QuirkedInit /\ [][QuirkedNext]_quirkedVars

-----------------------------------------------------------------------------
(* Properties.                                                             *)

\* What the quirk says of a place.
OccurrencesAt(p) == {o \in ToSet(quirk.occurrences) : IsOccurrence(p, o)}
ReplacementsAt(p) == {r \in ToSet(quirk.replaces) : r.add.place = p}
AdditionsAt(p) == {a \in ToSet(quirk.adds) : a.place = p}
IsRemoved(p) == p \in ToSet(quirk.removes) \/ \E r \in ToSet(quirk.replaces) : r.remove = p

LastWord(p) ==
  IF OccurrencesAt(p) # {} THEN {o.class : o \in OccurrencesAt(p)}
  ELSE IF ReplacementsAt(p) # {} THEN {r.add.class : r \in ReplacementsAt(p)}
  ELSE {a.class : a \in AdditionsAt(p)}

\* The object has the clusters of the device, less those that are removed, and those
\* that are added, each of the class that the quirk names last for its place.  What
\* the quirk does not touch keeps its cached attributes, and nothing else does.
QuirkHasTheLastWord ==
  creation = "done" =>
    /\ \A p \in replaced \cup Named :
         p \in DOMAIN quirked <=>
           \/ ReplacementsAt(p) # {}
           \/ ~IsRemoved(p) /\ (p \in replaced \/ AdditionsAt(p) # {})
    /\ \A p \in DOMAIN quirked :
         /\ quirked[p].class \in (IF LastWord(p) = {} THEN {Standard} ELSE LastWord(p))
         /\ quirked[p].cached <=>
              p \in replaced /\ LastWord(p) \subseteq {Standard} /\ ~IsRemoved(p)
=============================================================================
