---------------------------- MODULE QuirkRegistry ----------------------------
(***************************************************************************)
(* DeviceRegistry (zigpy/quirks/registry.py): quirks of version 1 in lists *)
(* by manufacturer and model, quirks of version 2 in sets, and the one that *)
(* a device is given.  Quirks are registered when their modules are         *)
(* imported, removed one by one, and purged by the place of their files     *)
(* when custom quirks are loaded anew.                                      *)
(*                                                                         *)
(* Which devices the signature or the filters of a quirk fit is given with *)
(* the quirk.  No two quirks of version 2 are equal.                        *)
(***************************************************************************)
EXTENDS Integers, FiniteSets, Sequences, SequencesExt

CONSTANTS
  FirstQuirks,   \* of version 1: [name, models, fits, custom]
  SecondQuirks,  \* of version 2: the same
  Models         \* the devices: pairs of a manufacturer and a model

Unsaid == "None"

\* `models' is models_info, or the one pair of a signature, which may lack either.
ModelsOf(q) == ToSet(q.models)
Keys == UNION {ModelsOf(q) : q \in FirstQuirks} \cup Models

ASSUME QuirksAreForModels ==
  /\ FirstQuirks \cap SecondQuirks = {}
  /\ \A q \in FirstQuirks \cup SecondQuirks : q.models \in Seq(ModelsOf(q)) \ {<<>>}

VARIABLES
  listed,        \* _registry: per pair, its quirks
  entries,       \* _registry_v2: per pair, its quirks
  registrations  \* of a quirk for a pair, the latest one first

quirkVars == <<listed, entries, registrations>>

QuirksInit ==
  /\ listed = [k \in Keys |-> <<>>]
  /\ entries = [k \in Models |-> {}]
  /\ registrations = <<>>

-----------------------------------------------------------------------------
(* get_device.                                                             *)

Plain == [name |-> "the device itself"]
Ambiguous == [name |-> "MultipleQuirksMatchException"]

\* From the most to the least that a quirk says of a device.
Pairs(d) == << d, <<d[1], Unsaid>>, <<Unsaid, d[2]>>, <<Unsaid, Unsaid>> >>

Listed(d, n) == IF Pairs(d)[n] \in Keys THEN listed[Pairs(d)[n]] ELSE <<>>

\* Where quirks that fit are in the chain of these lists, and the first of them.
Fitting(d) ==
  UNION {{<<n, i>> : i \in {j \in DOMAIN Listed(d, n) : d \in Listed(d, n)[j].fits}} : n \in 1 .. 4}
Earlier(b, c) == b[1] < c[1] \/ (b[1] = c[1] /\ b[2] < c[2])
FirstOf(places) == CHOOSE c \in places : \A b \in places : ~Earlier(b, c)

GetDevice(d) ==
  LET matches == {q \in entries[d] : d \in q.fits}
      place   == FirstOf(Fitting(d))
  IN IF Cardinality(matches) > 1 THEN Ambiguous
     ELSE IF matches # {} THEN CHOOSE q \in matches : TRUE
     ELSE IF Fitting(d) # {} THEN Listed(d, place[1])[place[2]]
     ELSE Plain

\* __contains__ looks for the first pair of a quirk of version 1 only.
IsContained(q) ==
  LET k == q.models[1]
      seen == {k, <<k[1], Unsaid>>, <<Unsaid, Unsaid>>} \cap Keys
  IN \E s \in seen : Contains(listed[s], q)

-----------------------------------------------------------------------------
(* Registration.                                                           *)

\* The list without the members of a set.
Without(list, gone) ==
  LET upTo[n \in 0 .. Len(list)] ==
        IF n = 0 THEN <<>>
        ELSE IF list[n] \in gone THEN upTo[n - 1]
        ELSE Append(upTo[n - 1], list[n])
  IN upTo[Len(list)]

AllOf(quirks) == UNION {{[quirk |-> q, key |-> k] : k \in ModelsOf(q)} : q \in quirks}

Registered(q) ==
  registrations' = SetToSeq(AllOf({q}) \ ToSet(registrations)) \o registrations

\* Mutant of Added: a quirk is listed behind the others.
AddedLast(q, list) == IF Contains(list, q) THEN list ELSE Append(list, q)

\* insert(0), unless it is listed already.
Added(q, list) == IF Contains(list, q) THEN list ELSE <<q>> \o list

AddToRegistry(q) ==
  /\ listed' = [k \in Keys |-> IF k \in ModelsOf(q) THEN Added(q, listed[k]) ELSE listed[k]]
  /\ Registered(q)
  /\ UNCHANGED entries

\* QuirkBuilder.add_to_registry, for every pair that it applies to.
AddToRegistryV2(q) ==
  /\ entries' = [k \in Models |-> entries[k] \cup (IF k \in ModelsOf(q) THEN {q} ELSE {})]
  /\ Registered(q)
  /\ UNCHANGED listed

RemoveFromRegistry(q) ==
  /\ \E r \in ToSet(registrations) : r.quirk = q
  /\ listed' = [k \in Keys |-> IF k \in ModelsOf(q) THEN Without(listed[k], {q}) ELSE listed[k]]
  /\ registrations' = Without(registrations, AllOf({q}))
  /\ UNCHANGED entries

\* A quirk of version 2 is removed with a device that has it, for that pair.
RemoveFromRegistryV2(d) ==
  LET q == GetDevice(d)
  IN /\ q \in SecondQuirks
     /\ entries' = [entries EXCEPT ![d] = @ \ {q}]
     /\ registrations' = Without(registrations, {[quirk |-> q, key |-> d]})
     /\ UNCHANGED listed

Customs == {q \in FirstQuirks \cup SecondQuirks : q.custom}

PurgeCustomQuirks ==
  /\ listed' = [k \in Keys |-> Without(listed[k], Customs)]
  /\ entries' = [k \in Models |-> entries[k] \ Customs]
  /\ registrations' = Without(registrations, AllOf(Customs))

QuirksNext ==
  \/ \E q \in FirstQuirks : AddToRegistry(q) \/ RemoveFromRegistry(q)
  \/ \E q \in SecondQuirks : AddToRegistryV2(q)
  \/ \E d \in Models : RemoveFromRegistryV2(d)
  \/ PurgeCustomQuirks

QuirksSpec == QuirksInit /\ [][QuirksNext]_quirkVars

-----------------------------------------------------------------------------
(* Properties.                                                             *)

\* Which registrations are of quirks that fit a device, and for this pair.
For(d, quirks, pair) ==
  {i \in DOMAIN registrations : LET r == registrations[i]
                                IN r.quirk \in quirks /\ d \in r.quirk.fits /\ r.key = pair}

\* Whatever was registered, removed, purged and registered again: a device gets the
\* only quirk of version 2 that fits it, or else, of those of version 1, the latest
\* that is for its manufacturer and model, or for less of them if none is.
QuirkIsTheLatest ==
  /\ \A d \in Models :
       LET second == For(d, SecondQuirks, d)
           first(n) == For(d, FirstQuirks, Pairs(d)[n])
       IN \/ \E i, j \in second : i # j /\ GetDevice(d) = Ambiguous
          \/ \E i \in second : second = {i} /\ GetDevice(d) = registrations[i].quirk
          \/ second = {} /\ \E n \in 1 .. 4 : \E i \in first(n) :
               /\ \A m \in 1 .. n - 1 : first(m) = {}
               /\ \A j \in first(n) : i <= j
               /\ GetDevice(d) = registrations[i].quirk
          \/ /\ second = {} /\ \A n \in 1 .. 4 : first(n) = {}
             /\ GetDevice(d) = Plain
  /\ \A q \in FirstQuirks :
       IsContained(q) <=> \E r \in ToSet(registrations) : r.quirk = q
=============================================================================
