--------------------------- MODULE ImageSelection ---------------------------
(***************************************************************************)
(* The images that OTA.get_ota_images (zigpy/ota/__init__.py) finds for    *)
(* the devices that ask for one, with the indexes of the providers       *)
(* (see ImageIndexes) and the downloads.  Each query is a task of its own: *)
(* indexes and downloads that several of them await at the same time are   *)
(* shared (combine_concurrent_calls, see SharedCalls).                     *)
(*                                                                         *)
(* An image is what an index says of it and, in `file', what the header of *)
(* the file says; None is a value that is not given.  The downgrades, which *)
(* only show what there is, are left out.                                   *)
(***************************************************************************)
EXTENDS ImageIndexes

CONSTANTS
  OtaConfig,      \* the configured providers, and what is in their indexes
  OtaQueries,     \* the devices that ask, with what they say of themselves
  MaxQueries,     \* bound: the queries of a device
  MaxExpiries     \* bound: the indexes that are loaded again after 24 hours

ASSUME QueryBounds == MaxQueries \in Nat /\ MaxExpiries \in Nat

OtaProviders == RegisteredProviders(OtaConfig)
OtaImages == UNION {LoadIndex(OtaProviders[n]) : n \in DOMAIN OtaProviders}
ProviderNames == {OtaProviders[n].name : n \in DOMAIN OtaProviders}
Unread == [manufacturer |-> None, type |-> None, minHw |-> None, maxHw |-> None, data |-> None]

VARIABLES
  fresh,        \* the providers that were asked less than INDEX_EXPIRATION_TIME ago
  listed,       \* _image_cache: the images that are known
  downloaded,   \* ... and those of them whose file is there
  doing,        \* per query: "none", "loading" or "downloading"
  left,         \* per query: the providers that are still to be asked
  upgrades,     \* per query: the images it may upgrade to
  missing,      \* per query: those of them whose download it awaits
  answer,       \* per query: the images of device_ota_image_query_result
  asked,        \* per query: how often it was made
  expired       \* the indexes that expired

imageVars == <<fresh, listed, downloaded, doing, left, upgrades, missing, answer, asked, expired>>

ImagesInit ==
  /\ fresh = {}
  /\ listed = {}
  /\ downloaded = {}
  /\ doing = [q \in OtaQueries |-> "none"]
  /\ left = [q \in OtaQueries |-> <<>>]
  /\ upgrades = [q \in OtaQueries |-> {}]
  /\ missing = [q \in OtaQueries |-> {}]
  /\ answer = [q \in OtaQueries |-> {}]
  /\ asked = [q \in OtaQueries |-> 0]
  /\ expired = 0

-----------------------------------------------------------------------------
(* OtaImageWithMetadata: what is known of an image, and whom it fits.       *)

\* The header of its file, if that was downloaded.
Header(image, files) == IF image \in files THEN image.file ELSE Unread

\* The index is believed before the file.
Said(inIndex, inFile) == IF inIndex # None THEN inIndex ELSE inFile

CheckCompatibility(image, h, q) ==
  LET minHw == Said(image.minHw, h.minHw)
      maxHw == Said(image.maxHw, h.maxHw)
  IN /\ Said(image.manufacturer, h.manufacturer) \in {None, q.manufacturer}
     /\ Said(image.type, h.type) \in {None, q.type}
     /\ image.models = {} \/ q.model \in image.models
     /\ image.makers = {} \/ q.maker \in image.makers
     /\ minHw # None => q.hardware # None /\ q.hardware >= minHw
     /\ maxHw # None => q.hardware # None /\ q.hardware <= maxHw

CheckVersion(image, version) ==
  /\ image.version > version
  /\ image.minVersion # None => version >= image.minVersion
  /\ image.maxVersion # None => version <= image.maxVersion

Points(said, points) == IF said THEN points ELSE 0

Specificity(image, h) ==
    Points(image.makers # {}, 1000) + Points(image.models # {}, 1000)
  + Points(Said(image.type, h.type) # None, 100)
  + Points(Said(image.manufacturer, h.manufacturer) # None, 100)
  + Points(image.minVersion # None, 10) + Points(image.maxVersion # None, 10)
  + Points(Said(image.minHw, h.minHw) # None, 1)
  + Points(Said(image.maxHw, h.maxHw) # None, 1)
  + Points(image.boost # None, image.boost)

\* Which of two images is the right one cannot be told.
Collide(a, b) ==
  /\ a.version = b.version
  /\ Specificity(a, a.file) = Specificity(b, b.file)
  /\ a.file.data # b.file.data

\* Mutant of Unambiguous: only what the indexes say is compared.
UnambiguousByIndex(images) ==
  {a \in images : \A b \in images :
     ~(/\ a.version = b.version
       /\ Specificity(a, Unread) = Specificity(b, Unread)
       /\ a.file.data # b.file.data)}

Unambiguous(images) == {a \in images : \A b \in images : ~Collide(a, b)}

-----------------------------------------------------------------------------
(* get_ota_images.                                                         *)

ImagesOf(provider) == {image \in OtaImages : image.provider = provider}

Serves(provider, q) ==
  provider.manufacturers = {} \/ q.manufacturer \in provider.manufacturers

Query(q) ==
  /\ doing[q] = "none"
  /\ asked[q] < MaxQueries
  /\ asked' = [asked EXCEPT ![q] = @ + 1]
  /\ doing' = [doing EXCEPT ![q] = "loading"]
  /\ left' = [left EXCEPT ![q] = SelectSeq(OtaProviders, LAMBDA p : Serves(p, q))]
  /\ UNCHANGED <<fresh, listed, downloaded, upgrades, missing, answer, expired>>

Awaits(q, name) == doing[q] = "loading" /\ left[q] # <<>> /\ Head(left[q]).name = name

\* The queries that await this index go on to their next provider.
NextProvider(name) ==
  left' = [q \in OtaQueries |-> IF Awaits(q, name) THEN Tail(left[q]) ELSE left[q]]

\* load_index returns None: the images of the last time are still cached.
RecentIndex(name) ==
  /\ name \in fresh
  /\ \E q \in OtaQueries : Awaits(q, name)
  /\ NextProvider(name)
  /\ UNCHANGED <<fresh, listed, downloaded, doing, upgrades, missing, answer, asked, expired>>

IndexLoaded(name) ==
  /\ name \notin fresh
  /\ \E q \in OtaQueries : Awaits(q, name)
  /\ fresh' = fresh \cup {name}
  /\ listed' = listed \cup ImagesOf(name)
  /\ NextProvider(name)
  /\ UNCHANGED <<downloaded, doing, upgrades, missing, answer, asked, expired>>

\* Mutant of IndexFailed: the exception ends the queries.
IndexFailedRaises(name) ==
  /\ name \notin fresh
  /\ \E q \in OtaQueries : Awaits(q, name)
  /\ fresh' = fresh \cup {name}
  /\ doing' = [q \in OtaQueries |-> IF Awaits(q, name) THEN "raised" ELSE doing[q]]
  /\ UNCHANGED <<listed, downloaded, left, upgrades, missing, answer, asked, expired>>

\* The index cannot be had in time, or read: a failure too is not repeated soon.
IndexFailed(name) ==
  /\ name \notin fresh
  /\ \E q \in OtaQueries : Awaits(q, name)
  /\ fresh' = fresh \cup {name}
  /\ NextProvider(name)
  /\ UNCHANGED <<listed, downloaded, doing, upgrades, missing, answer, asked, expired>>

IndexExpires(name) ==
  /\ name \in fresh
  /\ expired < MaxExpiries
  /\ expired' = expired + 1
  /\ fresh' = fresh \ {name}
  /\ UNCHANGED <<listed, downloaded, doing, left, upgrades, missing, answer, asked>>

\* Every provider was asked: the candidates are chosen and downloaded at once.
Choose(q) ==
  /\ doing[q] = "loading"
  /\ left[q] = <<>>
  /\ LET newer == {image \in listed :
                     /\ CheckCompatibility(image, Header(image, downloaded), q)
                     /\ CheckVersion(image, q.version)}
     IN /\ upgrades' = [upgrades EXCEPT ![q] = newer]
        /\ missing' = [missing EXCEPT ![q] = newer \ downloaded]
  /\ doing' = [doing EXCEPT ![q] = "downloading"]
  /\ UNCHANGED <<fresh, listed, downloaded, left, answer, asked, expired>>

Fetches(q, image) == doing[q] = "downloading" /\ image \in missing[q]

Fetched(image) == missing' = [q \in OtaQueries |-> missing[q] \ {image}]

\* The files are kept only when the last download of the query has ended.
ImageFetched(image) ==
  /\ \E q \in OtaQueries : Fetches(q, image)
  /\ IsAnnounced(image)
  /\ Fetched(image)
  /\ UNCHANGED <<fresh, listed, downloaded, doing, left, upgrades, answer, asked, expired>>

\* The download fails, takes too long, or is not what the index has announced.
ImageFailed(image) ==
  /\ \E q \in OtaQueries : Fetches(q, image)
  /\ Fetched(image)
  /\ upgrades' = [q \in OtaQueries |->
                    IF Fetches(q, image) THEN upgrades[q] \ {image} ELSE upgrades[q]]
  /\ UNCHANGED <<fresh, listed, downloaded, doing, left, answer, asked, expired>>

GiveAnswer(q) ==
  /\ doing[q] = "downloading"
  /\ missing[q] = {}
  /\ doing' = [doing EXCEPT ![q] = "none"]
  /\ downloaded' = downloaded \cup upgrades[q]
  /\ answer' = [answer EXCEPT ![q] = Unambiguous(upgrades[q])]
  /\ upgrades' = [upgrades EXCEPT ![q] = {}]
  /\ UNCHANGED <<fresh, listed, left, missing, asked, expired>>

IndexEnds(name) == RecentIndex(name) \/ IndexLoaded(name) \/ IndexFailed(name)
FetchEnds(image) == ImageFetched(image) \/ ImageFailed(image)

ImagesNext ==
  \/ \E q \in OtaQueries : Query(q) \/ Choose(q) \/ GiveAnswer(q)
  \/ \E name \in ProviderNames : IndexEnds(name) \/ IndexExpires(name)
  \/ \E image \in OtaImages : FetchEnds(image)

\* Loads and downloads end within OTA_FETCH_TIMEOUT, and tasks go on.
ImagesFairness ==
  /\ \A q \in OtaQueries : WF_imageVars(Choose(q)) /\ WF_imageVars(GiveAnswer(q))
  /\ \A name \in ProviderNames : WF_imageVars(IndexEnds(name))
  /\ \A image \in OtaImages : WF_imageVars(FetchEnds(image))

ImagesSpec == ImagesInit /\ [][ImagesNext]_imageVars /\ ImagesFairness

-----------------------------------------------------------------------------
(* Properties.                                                             *)

\* Of two upgrades that an answer holds it can be told which is the better one,
\* whatever was downloaded by whom before, and although the headers of the files
\* say more than the indexes.
NoAmbiguousUpgrade ==
  \A q \in OtaQueries : \A a, b \in answer[q] : ~Collide(a, b)

\* Every query is answered, however slow and broken the servers are.
QueriesEnd == \A q \in OtaQueries : doing[q] # "none" ~> doing[q] = "none"

\* What is offered fits the device, by the index and by the file: `we will still
\* download in the next step to double check, in case the file itself does'
\* describe the hardware.
OffersFit ==
  \A q \in OtaQueries : \A image \in answer[q] : CheckCompatibility(image, image.file, q)
=============================================================================
