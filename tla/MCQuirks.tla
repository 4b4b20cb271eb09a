------------------------------ MODULE MCQuirks ------------------------------
(***************************************************************************)
(* Small instances of QuirkRegistry and QuirkedDevice.                     *)
(***************************************************************************)
EXTENDS QuirkRegistry, QuirkedDevice

Bulb == <<"acme", "bulb">>
Plug == <<"acme", "plug">>
MCModels == {Bulb, Plug}

MCQuirk(name, models, fits, custom) ==
  [name |-> name, models |-> models, fits |-> fits, custom |-> custom]

MCFirstQuirks ==
  {MCQuirk("built-in", <<Bulb, Plug>>, {Bulb, Plug}, FALSE),
   MCQuirk("custom", <<Bulb, <<Unsaid, "plug">> >>, {Bulb, Plug}, TRUE),
   MCQuirk("any model", << <<"acme", Unsaid>> >>, {Plug}, FALSE),
   MCQuirk("anything", << <<Unsaid, Unsaid>> >>, {Bulb, Plug}, TRUE)}

MCSecondQuirks ==
  {MCQuirk("new", <<Bulb, Plug>>, {Bulb}, FALSE),
   MCQuirk("new custom", <<Bulb>>, {Bulb}, TRUE)}

Place(endpoint, side, cluster) == [endpoint |-> endpoint, side |-> side, cluster |-> cluster]
OnOff  == Place(1, "in", "on_off")
Switch == Place(1, "out", "on_off")
Level  == Place(1, "in", "level")
Other  == Place(2, "in", "on_off")
MCPlaces == {OnOff, Switch, Level}

MCDevices == {{OnOff}, {OnOff, Other}, {OnOff, Switch, Level, Other}}
NoQuirk == [adds |-> <<>>, removes |-> <<>>, replaces |-> <<>>, occurrences |-> <<>>]

MCAddition(place, class) == [place |-> place, class |-> class]
MCAdditions == {MCAddition(p, c) : p \in MCPlaces \cup {Other}, c \in {Standard, "added"}}
MCRemovals == MCPlaces \cup {Other}
MCReplacements ==
  {[remove |-> p, add |-> MCAddition([p EXCEPT !.cluster = c], "replaced")] :
     p \in MCPlaces \cup {Other}, c \in {"on_off", "level"}}
MCOccurrences ==
  {[cluster |-> "on_off", sides |-> s, class |-> "everywhere"] :
     s \in {{"in"}, {"out"}, {"in", "out"}}}
=============================================================================
