---------------------------- MODULE MCComponents ----------------------------
(***************************************************************************)
(* One instance of each component that shares no state with the others: a  *)
(* behaviour picks one of them, and the others stay as they are.            *)
(***************************************************************************)
EXTENDS MCPrioritySemaphore, Debouncer, AttributeCache, Codec, MCPackets, MCQuirks

CONSTANT MaxPending   \* bound: requests, frames and events of the cache at a time

VARIABLE part    \* the component that runs

Parts == {"semaphore", "debouncer", "attributes", "codec", "packets", "registry", "quirks"}

\* What is chosen in the first state is chosen for the component that runs only.
ComponentsInit ==
  /\ part \in Parts
  /\ part # "attributes" => supported = {}
  /\ part # "codec" => type = UInt(1) /\ original = 0
  /\ part # "packets" => known = [p \in Senders |-> "new"]
  /\ part # "quirks" => replaced = {OnOff} /\ quirk = NoQuirk
  /\ OrderInit /\ DebouncerInit
  /\ CacheInit /\ CodecInit /\ PacketsInit
  /\ QuirksInit /\ QuirkedInit

\* Few requests and frames with many events, or the other way around.
CacheNextBounded == CacheNext /\ Len(asked') + Len(air') + Len(saves') <= MaxPending

Runs(p, steps, itsVars) == IF part = p THEN steps ELSE UNCHANGED itsVars

ComponentsNext ==
  /\ Runs("semaphore", OrderNext, orderVars)
  /\ Runs("debouncer", DebouncerNext, debouncerVars)
  /\ Runs("attributes", CacheNextBounded, cacheVars)
  /\ Runs("codec", CodecNext, codecVars)
  /\ Runs("packets", PacketsNext, packetVars)
  /\ Runs("registry", QuirksNext, quirkVars)
  /\ Runs("quirks", QuirkedNext, quirkedVars)
  /\ UNCHANGED part

ComponentsVars ==
  <<part, orderVars, debouncerVars, cacheVars, codecVars,
    packetVars, quirkVars, quirkedVars>>

ComponentsSpec == ComponentsInit /\ [][ComponentsNext]_ComponentsVars

\* Every variable of every component keeps its type.
ComponentsTypeOK ==
  TypeOK /\ DebouncerTypeOK /\ CacheTypeOK /\ PacketsTypeOK
=============================================================================
