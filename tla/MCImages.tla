------------------------------ MODULE MCImages ------------------------------
(***************************************************************************)
(* A small instance of ImageSelection: two providers, two devices that     *)
(* differ in their hardware, and images of which the files say more than   *)
(* the indexes.                                                             *)
(***************************************************************************)
EXTENDS ImageSelection

\* An entry of any index: a provider reads of it what it knows.
MCEntry(provider, version, models, minVersion, file) ==
  [provider |-> provider, file |-> file, found |-> {}, kind |-> 2, digits |-> <<>>,
   version |-> version, manufacturer |-> 1, type |-> 1, checksum |-> file.data, size |-> 1,
   makers |-> {}, models |-> models, minHw |-> None, maxHw |-> None,
   minVersion |-> minVersion, maxVersion |-> None, boost |-> None]

MCFile(container, minHw, data) ==
  [manufacturer |-> 1, type |-> 1, minHw |-> minHw, maxHw |-> None, data |-> data,
   size |-> 1, container |-> container, whole |-> TRUE]

MCProvider(name, class, manufacturers, index) ==
  [name |-> name, class |-> class, override |-> name = "first",
   manufacturers |-> manufacturers, index |-> index]

\* The images of the second one say only in their files what they are for.
First == MCProvider("first", "zigpy_remote", {},
                    {MCEntry("first", 2, {"lamp"}, None, MCFile("none", 2, 1)),
                     MCEntry("first", 3, {"lamp"}, 1, MCFile("none", None, 3))})
Second == MCProvider("second", "salus", {1},
                     {MCEntry("second", 2, {"lamp"}, None, MCFile("tar", 2, 2)),
                      MCEntry("second", None, {"lamp"}, None, MCFile("none", None, 4))})

\* The first one is used instead of the zero one, the second in spite of the defaults
\* that are disabled, and the third is turned off.
MCOtaConfig ==
  [enabled |-> TRUE,
   providers |-> <<MCProvider("zero", "zigpy_remote", {}, {}), First,
                   MCProvider("third", "z2m", {}, {})>>,
   extra |-> <<Second>>,
   disabled |-> {"salus"},
   deprecated |-> <<[enabled |-> "no", provider |-> MCProvider("third", "z2m", {}, {})]>>]

MCOtaQueries ==
  {[manufacturer |-> 1, type |-> 1, maker |-> "maker", model |-> "lamp",
    hardware |-> hardware, version |-> 1] : hardware \in {1, 2}}
=============================================================================
