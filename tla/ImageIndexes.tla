---------------------------- MODULE ImageIndexes -----------------------------
(***************************************************************************)
(* Which providers of images the configuration asks for                    *)
(* (OTA._register_providers), and what each of them reads of its index     *)
(* (zigpy/ota/providers.py).                                               *)
(*                                                                         *)
(* An entry has what any provider reads of one, `found' for a file that is *)
(* there already, and `file' for the file that a download will bring.      *)
(***************************************************************************)
EXTENDS Integers, Sequences, FiniteSets

None == -1

-----------------------------------------------------------------------------
(* The metadata of an image.                                               *)

Fields == {"provider", "file", "container", "version", "manufacturer", "type", "checksum",
           "size", "makers", "models", "minHw", "maxHw", "minVersion", "maxVersion", "boost"}

NotRead(field) ==
  CASE field \in {"makers", "models"} -> {} [] field = "container" -> "none" [] OTHER -> None

\* BaseOtaImageMetadata, with its defaults for what the provider does not read.
Metadata(entry, read) ==
  [f \in Fields |-> IF f \in read \cup {"provider", "file"} THEN entry[f] ELSE NotRead(f)]

\* _fetch and _validate: a container must be whole, and its contents those of the index.
IsAnnounced(image) ==
  /\ image.container # "none" => image.file.container = image.container /\ image.file.whole
  /\ image.size # None => image.size = image.file.size
  /\ image.checksum # None => image.checksum = image.file.data

-----------------------------------------------------------------------------
(* The providers.                                                          *)

\* Images that must never be installed.
Bricking == {8704, 8710}
IkeaManufacturer == 4476

\* The new index has checksums; the images of the old one are in signed containers.
Tradfri(entry) ==
  {image \in
     IF entry.checksum # None
     THEN {[Metadata(entry, {"version", "type", "checksum"}) EXCEPT !.manufacturer = IkeaManufacturer]}
     ELSE {[Metadata(entry, {"version", "manufacturer", "type", "size"}) EXCEPT !.container = "signed"]} :
     /\ entry.type # None
     /\ IF entry.checksum # None THEN entry.version # None ELSE entry.kind = 2
     /\ entry.type \notin Bricking}

Ledvance(entry) ==
  {Metadata(entry, {"version", "manufacturer", "type", "checksum", "size", "models"})}

\* A text file is listed too.
Salus(entry) ==
  {image \in {[Metadata(entry, {"version", "models"}) EXCEPT !.container = "tar"]} :
     image.version # None}

Sonoff(entry) == {Metadata(entry, {"version", "manufacturer", "type", "size", "models"})}

\* int(digits, base)
Value(digits, base) ==
  LET upTo[i \in 0 .. Len(digits)] ==
        IF i = 0 THEN 0 ELSE base * upTo[i - 1] + digits[i]
  IN  upTo[Len(digits)]

\* The first versions were written in hexadecimal digits, the others are not.
Inovelli(entry) ==
  LET first == Value(entry.digits, 16)
      version == IF first > 11 THEN Value(entry.digits, 10) ELSE first
  IN  {[Metadata(entry, {"manufacturer", "type", "models"}) EXCEPT !.version = version]}

ThirdReality(entry) == {Metadata(entry, {"version", "manufacturer", "type", "models"})}

ZigpyIndex(entry) == {Metadata(entry, Fields \ {"container"})}

Z2MIndex(entry) == {Metadata(entry, Fields \ {"container", "minHw", "maxHw", "boost"})}

\* The header of every file in a directory that is an image.  The file may be another
\* one when it is fetched.
AdvancedFile(entry) ==
  {[Metadata(entry, {"version"}) EXCEPT
      !.manufacturer = f.manufacturer, !.type = f.type, !.minHw = f.minHw, !.maxHw = f.maxHw,
      !.checksum = f.data, !.size = f.size] : f \in entry.found}

LoadIndex(provider) ==
  UNION {CASE provider.class = "ikea"         -> Tradfri(entry)
           [] provider.class = "ledvance"     -> Ledvance(entry)
           [] provider.class = "salus"        -> Salus(entry)
           [] provider.class = "sonoff"       -> Sonoff(entry)
           [] provider.class = "inovelli"     -> Inovelli(entry)
           [] provider.class = "thirdreality" -> ThirdReality(entry)
           [] provider.class \in {"zigpy_local", "zigpy_remote"} -> ZigpyIndex(entry)
           [] provider.class \in {"z2m_local", "z2m"} -> Z2MIndex(entry)
           [] provider.class = "advanced"     -> AdvancedFile(entry) :
           entry \in provider.index}

-----------------------------------------------------------------------------
(* The configuration: providers and extra_providers, the classes that are  *)
(* disabled, and the deprecated options, which turn a class on or off.     *)

\* The classes that are not used: an extra provider or a later option wins.
WithoutClasses(config) ==
  LET upTo[i \in 0 .. Len(config.deprecated)] ==
        LET option == config.deprecated[i] IN
        IF i = 0
        THEN config.disabled \ {config.extra[n].class : n \in DOMAIN config.extra}
        ELSE IF option.enabled = "yes" THEN upTo[i - 1] \ {option.provider.class}
        ELSE IF option.enabled = "no" THEN upTo[i - 1] \cup {option.provider.class}
        ELSE upTo[i - 1]
  IN  upTo[Len(config.deprecated)]

WithProviders(config) ==
  LET on == SelectSeq(config.deprecated, LAMBDA option : option.enabled = "yes")
  IN  config.providers \o config.extra \o [n \in DOMAIN on |-> on[n].provider]

\* Nothing when updates are off; override_previous takes the place of the earlier ones of its class.
RegisteredProviders(config) ==
  LET with == WithProviders(config)
      upTo[i \in 0 .. Len(with)] ==
        IF i = 0 THEN <<>>
        ELSE IF with[i].class \in WithoutClasses(config) THEN upTo[i - 1]
        ELSE Append(SelectSeq(upTo[i - 1],
                              LAMBDA p : ~(with[i].override /\ p.class = with[i].class)),
                    with[i])
  IN  IF config.enabled THEN upTo[Len(with)] ELSE <<>>
=============================================================================
