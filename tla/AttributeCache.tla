--------------------------- MODULE AttributeCache ---------------------------
(***************************************************************************)
(* The attribute cache of one cluster of a device (zigpy/zcl/__init__.py):  *)
(* reads, writes, reporting and reports, their rows in the database         *)
(* (zigpy/appdb.py), and what is left of the cache when a quirk replaces    *)
(* the device (zigpy/quirks/__init__.py).                                   *)
(*                                                                         *)
(* An attribute's value is the number of times the device has changed it,   *)
(* so that two values show which is the newer one.                          *)
(***************************************************************************)
EXTENDS Integers, Sequences, FiniteSets, SequencesExt

CONSTANTS
  Attrs,        \* attribute ids
  MaxVersion,   \* bound: the changes of an attribute
  MaxAir,       \* bound: the requests and the device's frames that are under way
  MaxSaves      \* bound: the events in the queue of the database listener

ASSUME AttrsAreFinite == IsFiniteSet(Attrs)
ASSUME AttributeBounds ==
  /\ MaxVersion \in Nat \ {0}
  /\ {MaxAir, MaxSaves} \subseteq Nat

None == 0

VARIABLES
  real,         \* the device: per attribute its value
  supported,    \* the device: the attributes it supports
  asked,        \* the requests the device has not answered, in their order
  air,          \* its answers and reports that were not handled, in their order
  device,       \* "new", "plain" or "custom": replaced by a quirk
  cache,        \* _attr_cache, None for an attribute that is not in it
  stamped,      \* the keys of _attr_last_updated
  unsupported,  \* unsupported_attributes
  saves,        \* the queue of the database listener
  saved,        \* whether the device and its cluster have their rows
  attrRows, unsupportedRows

cacheVars == <<real, supported, asked, air, device, cache, stamped, unsupported, saves,
               saved, attrRows, unsupportedRows>>
deviceVars == <<real, supported>>
rowVarsOfCache == <<saved, attrRows, unsupportedRows>>

CacheInit ==
  /\ real = [a \in Attrs |-> 1]
  /\ supported \in SUBSET Attrs
  /\ asked = <<>>
  /\ air = <<>>
  /\ device = "new"
  /\ cache = [a \in Attrs |-> None]
  /\ stamped = {}
  /\ unsupported = {}
  /\ saves = <<>>
  /\ saved = FALSE
  /\ attrRows = [a \in Attrs |-> None]
  /\ unsupportedRows = {}

-----------------------------------------------------------------------------
(* The device, and the frames between it and the program.                  *)

Request == [kind : {"read", "write", "configure"}, attrs : SUBSET Attrs \ {{}}]

\* Mutant of Ask: a write is cached when it is sent.
AskOptimistically(request) ==
  /\ Len(asked) + Len(air) < MaxAir
  /\ asked' = Append(asked, request)
  /\ cache' = [a \in Attrs |-> IF request.kind = "write" /\ a \in request.attrs
                                  /\ real[a] < MaxVersion
                               THEN real[a] + 1 ELSE cache[a]]
  /\ UNCHANGED <<deviceVars, air, device, stamped, unsupported, saves, rowVarsOfCache>>

\* A request is sent, up to the reply that is awaited.
Ask(request) ==
  /\ Len(asked) + Len(air) < MaxAir
  /\ asked' = Append(asked, request)
  /\ UNCHANGED <<deviceVars, air, device, cache, stamped, unsupported, saves, rowVarsOfCache>>

\* Attributes that are in the cache are not asked for, which changes nothing here.
ReadAttributes(attrs)     == Ask([kind |-> "read", attrs |-> attrs])
WriteAttributes(attrs)    == Ask([kind |-> "write", attrs |-> attrs])
ConfigureReporting(attrs) == Ask([kind |-> "configure", attrs |-> attrs])

\* The device has heard a request and answers it.  A read is answered for all the
\* attributes it asks for; of a write, the device takes what it wants.
Answer(request) ==
  /\ asked # <<>> /\ request = Head(asked)
  /\ asked' = Tail(asked)
  /\ request.kind = "write" => \A a \in request.attrs : real[a] < MaxVersion
  /\ \E good \in SUBSET (request.attrs \cap supported) :
       LET written == IF request.kind = "write" THEN request.attrs ELSE {}
           After(attrs) == [a \in Attrs |-> IF a \in attrs THEN real[a] + 1 ELSE real[a]]
       IN  /\ request.kind = "read" => good = request.attrs \cap supported
           /\ real' = After(written \cap good)
           /\ air' = Append(air, [kind |-> request.kind, good |-> good,
                                  bad |-> IF request.kind = "write" THEN written \ good
                                          ELSE request.attrs \ supported,
                                  values |-> After(written), overtaken |-> FALSE])
  /\ UNCHANGED <<supported, device, cache, stamped, unsupported, saves, rowVarsOfCache>>

Report(a) ==
  /\ Len(asked) + Len(air) < MaxAir
  /\ a \in supported
  /\ air' = Append(air, [kind |-> "report", good |-> {a}, bad |-> {},
                         values |-> real, overtaken |-> FALSE])
  /\ UNCHANGED <<deviceVars, asked, device, cache, stamped, unsupported, saves, rowVarsOfCache>>

ValueChanges(a) ==
  /\ real[a] < MaxVersion
  /\ real' = [real EXCEPT ![a] = @ + 1]
  /\ UNCHANGED <<supported, asked, air, device, cache, stamped, unsupported, saves,
                 rowVarsOfCache>>

\* A firmware update gives the device an attribute or takes it away.
SupportChanges(a) ==
  /\ supported' = IF a \in supported THEN supported \ {a} ELSE supported \cup {a}
  /\ UNCHANGED <<real, asked, air, device, cache, stamped, unsupported, saves, rowVarsOfCache>>

\* A request or a frame is lost, or its answer comes too late.
RequestLost ==
  /\ asked # <<>>
  /\ asked' = Tail(asked)
  /\ UNCHANGED <<deviceVars, air, device, cache, stamped, unsupported, saves, rowVarsOfCache>>

FrameLost(i) ==
  /\ air' = RemoveAt(air, i)
  /\ UNCHANGED <<deviceVars, asked, device, cache, stamped, unsupported, saves, rowVarsOfCache>>

-----------------------------------------------------------------------------
(* zigpy.zcl.                                                              *)

CacheEvent(kind, a, value) == [kind |-> kind, attr |-> a, value |-> value]
EventsFor(kind, attrs, values) ==
  LET list == SetToSeq(attrs)
  IN  [i \in DOMAIN list |-> CacheEvent(kind, list[i], values[list[i]])]

Save(events) ==
  /\ Len(saves) + Len(events) <= MaxSaves
  /\ saves' = saves \o events

\* Mutant of Updates: all that was asked for counts, whatever the device said.
UpdatesAll(frame) ==
  IF frame.kind = "configure" THEN {} ELSE frame.good \cup frame.bad

\* The attributes whose values a frame brings: what was read, reported, or
\* written without the device refusing it.
Updates(frame) == IF frame.kind = "configure" THEN {} ELSE frame.good

\* remove_unsupported_attribute for what was read or configured; not for a
\* report and not for a write.
NowSupported(frame) ==
  IF frame.kind \in {"read", "configure"} THEN frame.good \cap unsupported ELSE {}
NowUnsupported(frame) ==
  IF frame.kind \in {"read", "configure"} THEN frame.bad \ unsupported ELSE {}

\* A frame is handled: a report when it comes in, an answer when the task that
\* awaits it resumes.  Frames that were sent earlier are overtaken.
Handle(i) ==
  LET frame == air[i] IN
  /\ cache' = [a \in Attrs |-> IF a \in Updates(frame) THEN frame.values[a] ELSE cache[a]]
  /\ stamped' = stamped \cup Updates(frame)
  /\ unsupported' = (unsupported \ NowSupported(frame)) \cup NowUnsupported(frame)
  /\ Save(EventsFor("updated", Updates(frame), frame.values) \o
          EventsFor("supported", NowSupported(frame), frame.values) \o
          EventsFor("unsupported", NowUnsupported(frame), frame.values))
  /\ air' = [j \in 1 .. Len(air) - 1 |-> IF j < i THEN [air[j] EXCEPT !.overtaken = TRUE]
                                         ELSE air[j + 1]]
  /\ UNCHANGED <<deviceVars, asked, device, rowVarsOfCache>>

\* update_attribute(a, None), after an update of the firmware.  Without a time
\* of the last update the KeyError comes before the event.
ClearAttribute(a) ==
  /\ cache[a] # None
  /\ cache' = [cache EXCEPT ![a] = None]
  /\ stamped' = stamped \ {a}
  /\ IF a \in stamped THEN Save(<<CacheEvent("cleared", a, None)>>) ELSE UNCHANGED saves
  /\ UNCHANGED <<deviceVars, asked, air, device, unsupported, rowVarsOfCache>>

-----------------------------------------------------------------------------
(* device_initialized.  The device's own requests have been answered then.  *)

InitializedPlain ==
  /\ device = "new"
  /\ asked = <<>> /\ air = <<>>
  /\ device' = "plain"
  /\ Save(<<[kind |-> "save_device", cache |-> cache, unsupported |-> unsupported]>>)
  /\ UNCHANGED <<deviceVars, asked, air, cache, stamped, unsupported, rowVarsOfCache>>

\* A quirk of the first version starts with an empty cache; one of the second is
\* given a copy, without the times and without the unsupported attributes.  The
\* listener saves the caches of the device that was replaced.
InitializedCustom(copied) ==
  /\ device = "new"
  /\ asked = <<>> /\ air = <<>>
  /\ device' = "custom"
  /\ Save(<<[kind |-> "save_device", cache |-> cache, unsupported |-> unsupported]>>)
  /\ cache' = IF copied THEN cache ELSE [a \in Attrs |-> None]
  /\ stamped' = {}
  /\ unsupported' = {}
  /\ UNCHANGED <<deviceVars, asked, air, rowVarsOfCache>>

-----------------------------------------------------------------------------
(* zigpy.appdb.                                                            *)

\* Mutant of SavedCaches: the branch for replaced devices, which saves none.
SavedCachesOfCustom(event) == [cache |-> [a \in Attrs |-> None], unsupported |-> {}]

\* _save_device reads the caches when the worker comes to it: those of a plain
\* device as they are then, those of a replaced one as they were left.
SavedCaches(event) ==
  IF device = "plain" THEN [cache |-> cache, unsupported |-> unsupported]
  ELSE [cache |-> event.cache, unsupported |-> event.unsupported]

\* Rows of a device that has none are an IntegrityError.
Keyed(event) == event.kind = "save_device" \/ saved

SaveWorker ==
  /\ saves # <<>>
  /\ LET e == Head(saves) IN
     IF ~Keyed(e) THEN UNCHANGED rowVarsOfCache
     ELSE /\ saved' = TRUE
          /\ attrRows' =
               CASE e.kind = "save_device" ->
                      [a \in Attrs |-> IF SavedCaches(e).cache[a] # None
                                       THEN SavedCaches(e).cache[a] ELSE attrRows[a]]
                 [] e.kind \in {"updated", "cleared"} -> [attrRows EXCEPT ![e.attr] = e.value]
                 [] OTHER -> attrRows
          /\ unsupportedRows' =
               CASE e.kind = "save_device" -> unsupportedRows \cup SavedCaches(e).unsupported
                 [] e.kind = "unsupported" -> unsupportedRows \cup {e.attr}
                 [] e.kind = "supported"   -> unsupportedRows \ {e.attr}
                 [] OTHER                  -> unsupportedRows
  /\ saves' = Tail(saves)
  /\ UNCHANGED <<deviceVars, asked, air, device, cache, stamped, unsupported>>

\* The program ends at any time and is started again.  A device that was not
\* saved has to join again.
RestartCache ==
  /\ device' = IF saved THEN device ELSE "new"
  /\ cache' = attrRows
  /\ stamped' = {a \in Attrs : attrRows[a] # None}
  /\ unsupported' = unsupportedRows
  /\ asked' = <<>>
  /\ air' = <<>>
  /\ saves' = <<>>
  /\ UNCHANGED <<deviceVars, rowVarsOfCache>>

CacheNext ==
  \/ \E attrs \in SUBSET Attrs \ {{}} :
       ReadAttributes(attrs) \/ WriteAttributes(attrs) \/ ConfigureReporting(attrs)
  \/ \E request \in Request : Answer(request)
  \/ \E a \in Attrs : Report(a) \/ ValueChanges(a) \/ SupportChanges(a) \/ ClearAttribute(a)
  \/ RequestLost
  \/ \E i \in DOMAIN air : FrameLost(i) \/ Handle(i)
  \/ InitializedPlain
  \/ \E copied \in BOOLEAN : InitializedCustom(copied)
  \/ SaveWorker \/ RestartCache

CacheSpec == CacheInit /\ [][CacheNext]_cacheVars

-----------------------------------------------------------------------------
(* Properties.                                                             *)

Frame == [kind : {"read", "write", "configure", "report"}, good : SUBSET Attrs,
          bad : SUBSET Attrs, values : [Attrs -> 1 .. MaxVersion],
          overtaken : BOOLEAN]

CacheTypeOK ==
  /\ real \in [Attrs -> 1 .. MaxVersion]
  /\ supported \subseteq Attrs
  /\ \A i \in DOMAIN asked : asked[i] \in Request
  /\ \A i \in DOMAIN air : air[i] \in Frame
  /\ device \in {"new", "plain", "custom"}
  /\ {cache, attrRows} \subseteq [Attrs -> 0 .. MaxVersion]
  /\ stamped \subseteq {a \in Attrs : cache[a] # None}
  /\ unsupported \subseteq Attrs
  /\ saved \in BOOLEAN
  /\ unsupportedRows \subseteq Attrs

\* When the worker has caught up, a restart loses nothing that is cached: events
\* of a device that was not saved yet fail, and saving it makes up for them.  For
\* a plain device it brings nothing back either.
RowsFollowCache ==
  saved /\ saves = <<>> =>
    /\ \A a \in Attrs : cache[a] # None => attrRows[a] = cache[a]
    /\ unsupported \subseteq unsupportedRows
    /\ device = "plain" => attrRows = cache /\ unsupportedRows = unsupported

\* A value in the cache is one that the device had or has: nothing is cached that
\* it refused to take, or that it has not answered yet.
CachedWasReal == \A a \in Attrs : cache[a] <= real[a]

\* The cache goes back to an earlier value only for a frame that was overtaken by
\* another one, on its way or while the task that awaited it had not resumed.
GoesBackOnlyOvertaken ==
  [][\A a \in Attrs : cache'[a] # None /\ cache'[a] < cache[a] =>
       RestartCache \/ \E i \in DOMAIN air : air[i].overtaken /\ Handle(i)]_cacheVars
=============================================================================
