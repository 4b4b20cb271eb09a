--------------------------- MODULE PacketDispatch ---------------------------
(***************************************************************************)
(* What becomes of a packet: ControllerApplication.packet_received, the    *)
(* discovery of unknown senders, Device.packet_received with its debouncer, *)
(* the pending request, the listeners of wait_for_response and             *)
(* callback_for_response (zigpy/listeners.py), and the handlers of         *)
(* endpoints, clusters and the ZDO with the answers they send.             *)
(*                                                                         *)
(* A frame is its sender and its kind.  The next one of the same kind is   *)
(* sent when the debouncer has forgotten the last one: what it remembers   *)
(* are the bytes, and the ZCL sequence number is one of them.  The network *)
(* loses and repeats frames; what it repeats comes within the debouncer's  *)
(* window.  The addresses of the devices stay (see DeviceLifecycle).       *)
(***************************************************************************)
EXTENDS Integers, FiniteSets, Sequences, SequencesExt

CONSTANTS
  Frames,        \* the frames that are sent: their senders and kinds
  MaxCopies,     \* bound: how often the network delivers a frame
  MaxRecent,     \* bound: the frames that are under way or remembered
  MaxLosses,     \* bound: the copies that the network loses
  Listeners,     \* [name, future, from, wants], `from' being a device or Anybody
  Quirks         \* the devices for which there is a quirk

ASSUME DispatchBounds == MaxCopies \in Nat \ {0} /\ MaxRecent \in Nat \ {0}
                         /\ MaxLosses \in Nat

Anybody == "ANY_DEVICE"
Senders == {f.from : f \in Frames}

ASSUME ListenersListen == \A l \in Listeners : l.from \in Senders \cup {Anybody}

VARIABLES
  underWay,      \* per frame: its copies that are under way
  lost,          \* how many copies of frames were lost
  seen,          \* the frames that the debouncer of their sender remembers
  known,         \* per device: what is known of it
  interviewed,   \* per device: whether it is being initialized
  custom,        \* per device: whether its object was replaced by its quirk
  discovering,   \* per device: whether it was asked for its IEEE address
  awaited,       \* per device: whether a request waits for the reply
  registered,    \* _req_listeners in order, each with the object it is for
  future,        \* per listener: "none", "open", "resolved" or "cancelled"
  answers,       \* per frame: the answers that the object has sent to it
  ended          \* per frame: the futures that the object has resolved with it

network == <<underWay, lost>>
devices == <<known, interviewed, custom, discovering>>
waits == <<awaited, registered, future>>
effects == <<answers, ended>>
packetVars == <<network, seen, devices, waits, effects>>

\* Devices that were loaded from the database may lack anything.
Stages == {"unknown", "new", "endpoints", "no node descriptor", "initialized"}

PacketsInit ==
  /\ underWay = [f \in Frames |-> 0]
  /\ lost = 0
  /\ seen = {}
  /\ known \in [Senders -> Stages]
  /\ interviewed = [p \in Senders |-> FALSE]
  /\ custom = [p \in Senders |-> FALSE]
  /\ discovering = [p \in Senders |-> FALSE]
  /\ awaited = [p \in Senders |-> FALSE]
  /\ registered = <<>>
  /\ future = [l \in Listeners |-> "none"]
  /\ answers = [f \in Frames |-> 0]
  /\ ended = [f \in Frames |-> 0]

-----------------------------------------------------------------------------
(* The devices and the network.                                            *)

Zdo(f) == f.kind \in {"announcement", "address", "question"}

\* NWK_addr_req, IEEE_addr_req and Match_Desc_req, as far as they ask for us.
ZdoQuestion(f) == f.kind = "question"

\* Reads of our attributes, and reports that ask for a default response.
ClusterQuestion(f) == f.kind \in {"report", "basic question"}

Asks(f) == ZdoQuestion(f) \/ ClusterQuestion(f)

SendFrame(f, copies) ==
  /\ underWay[f] = 0
  /\ f \notin seen
  /\ Cardinality({g \in Frames : underWay[g] > 0 \/ g \in seen}) < MaxRecent
  /\ f.kind = "address" => discovering[f.from]
  /\ underWay' = [underWay EXCEPT ![f] = copies]
  /\ discovering' = [discovering EXCEPT ![f.from] = @ /\ f.kind # "address"]
  /\ answers' = [answers EXCEPT ![f] = 0]
  /\ ended' = [ended EXCEPT ![f] = 0]
  /\ UNCHANGED <<waits, lost, seen, known, interviewed, custom>>

Lose(f) ==
  /\ underWay[f] > 0
  /\ lost < MaxLosses
  /\ lost' = lost + 1
  /\ underWay' = [underWay EXCEPT ![f] = @ - 1]
  /\ UNCHANGED <<devices, waits, effects, seen>>

\* PACKET_DEBOUNCE_WINDOW is over.
Forget(f) ==
  /\ f \in seen
  /\ underWay[f] = 0
  /\ seen' = seen \ {f}
  /\ UNCHANGED <<network, devices, waits, effects>>

-----------------------------------------------------------------------------
(* The application.                                                        *)

\* Mutant of Joins: only announcements are looked at.
JoinsAnnounced(f) == f.kind = "announcement"

\* _maybe_parse_zdo: these make their sender known, if nothing else has.
Joins(f) == f.kind \in {"announcement", "address"}

IsKnown(f) == known[f.from] # "unknown" \/ Joins(f)
Stage(f) == IF known[f.from] = "unknown" THEN "new" ELSE known[f.from]

\* Devices are known after a join, and whatever an uninitialized one sends has it
\* interviewed, unless it already is.
Arrives(f) ==
  /\ underWay[f] > 0
  /\ IsKnown(f)
  /\ underWay' = [underWay EXCEPT ![f] = @ - 1]
  /\ known' = [known EXCEPT ![f.from] = Stage(f)]
  /\ interviewed' = [interviewed EXCEPT ![f.from] = @ \/ Stage(f) # "initialized"]
  /\ UNCHANGED <<lost, custom, discovering, registered>>

\* A broadcast, to which the device answers some time.
AskedForAddress(p) == discovering' = [discovering EXCEPT ![p] = TRUE]

FromStranger(f) ==
  /\ underWay[f] > 0
  /\ ~IsKnown(f)
  /\ underWay' = [underWay EXCEPT ![f] = @ - 1]
  /\ AskedForAddress(f.from)
  /\ UNCHANGED <<waits, effects, lost, seen, known, interviewed, custom>>

\* The model is asked for, and answered, before all endpoints are known.
Basic(f) == f.kind \in {"basic question", "reply"}

Admitted(f) ==
  \/ Stage(f) \in {"initialized", "no node descriptor"}
  \/ Zdo(f)
  \/ Stage(f) = "endpoints" /\ Basic(f)

TurnedAway(f) ==
  /\ Arrives(f)
  /\ ~Admitted(f)
  /\ UNCHANGED <<effects, seen, awaited, future>>

\* The relays of a route: all that matters here is whether its end is known.
RelaysReceived(p) ==
  /\ known[p] = "unknown"
  /\ AskedForAddress(p)
  /\ UNCHANGED <<network, waits, effects, seen, known, interviewed, custom>>

Interview(p) ==
  /\ interviewed[p]
  /\ known[p] \in {"new", "endpoints", "no node descriptor"}
  /\ known' = [known EXCEPT ![p] = IF @ = "new" THEN "endpoints" ELSE "initialized"]
  /\ UNCHANGED <<network, waits, effects, seen, interviewed, custom, discovering>>

InterviewFails(p) ==
  /\ interviewed[p]
  /\ interviewed' = [interviewed EXCEPT ![p] = FALSE]
  /\ UNCHANGED <<network, waits, effects, seen, known, custom, discovering>>

\* The quirk has a debouncer and pending requests of its own.
Announced(p) ==
  /\ interviewed[p]
  /\ known[p] = "initialized"
  /\ interviewed' = [interviewed EXCEPT ![p] = FALSE]
  /\ IF p \in Quirks /\ ~custom[p]
       THEN /\ custom' = [custom EXCEPT ![p] = TRUE]
            /\ seen' = {f \in seen : f.from # p}
            /\ awaited' = [awaited EXCEPT ![p] = FALSE]
            /\ answers' = [f \in Frames |-> IF f.from = p THEN 0 ELSE answers[f]]
            /\ ended' = [f \in Frames |-> IF f.from = p THEN 0 ELSE ended[f]]
       ELSE UNCHANGED <<effects, custom, seen, awaited>>
  /\ UNCHANGED <<network, known, discovering, registered, future>>

-----------------------------------------------------------------------------
(* Device.packet_received.                                                 *)

Repeated(f) ==
  /\ Arrives(f)
  /\ Admitted(f)
  /\ f \in seen
  /\ UNCHANGED <<effects, seen, awaited, future>>

Remembers(f) == f \notin seen /\ seen' = seen \cup {f}

\* Its endpoint or its cluster is unknown, or it cannot be parsed.
Ignored(f) ==
  /\ Arrives(f)
  /\ Admitted(f)
  /\ Remembers(f)
  /\ UNCHANGED <<effects, awaited, future>>

\* The pending request gets its reply, and nobody else.
ReplyArrives(f) ==
  /\ Arrives(f)
  /\ Admitted(f)
  /\ Remembers(f)
  /\ f.kind = "reply" /\ awaited[f.from]
  /\ awaited' = [awaited EXCEPT ![f.from] = FALSE]
  /\ UNCHANGED <<effects, future>>

\* The places in _req_listeners of those that a frame is shown to.
Asked(f) ==
  {n \in DOMAIN registered : \/ registered[n].listener.from = Anybody
                             \/ /\ registered[n].listener.from = f.from
                                /\ registered[n].custom = custom[f.from]}
Waiter(n) == registered[n].listener

\* ANY_DEVICE first, then the listeners of this object.
Before(k, n) ==
  IF (Waiter(k).from = Anybody) = (Waiter(n).from = Anybody) THEN k < n
  ELSE Waiter(k).from = Anybody

Matches(l, f) == f.kind \in l.wants
Resolves(l, f) == l.future /\ Matches(l, f) /\ future[l] = "open"

\* Mutant of Resolved: the first listener that matches is the last one, callbacks too.
ResolvedFirstMatch(f) ==
  {Waiter(n) : n \in {k \in Asked(f) :
     /\ Resolves(Waiter(k), f)
     /\ \A j \in Asked(f) :
          Before(j, k) => ~Matches(Waiter(j), f) \/ future[Waiter(j)] # "open"}}

\* The listener that the loop over them ends with.
Resolved(f) ==
  {Waiter(n) : n \in {k \in Asked(f) :
     /\ Resolves(Waiter(k), f)
     /\ \A j \in Asked(f) : Before(j, k) => ~Resolves(Waiter(j), f)}}

Listened(f) ==
  /\ future' = [l \in Listeners |-> IF l \in Resolved(f) THEN "resolved" ELSE future[l]]
  /\ ended' = [ended EXCEPT ![f] = @ + Cardinality(Resolved(f))]

\* A task of its own sends the answer, with the TSN of the frame.
Answered(f) == answers' = [answers EXCEPT ![f] = IF Asks(f) THEN @ + 1 ELSE @]

\* Mutant of Handled: its answer is sent before repeated frames are filtered.
HandledAgain(f) ==
  /\ Arrives(f)
  /\ Admitted(f)
  /\ ~(f.kind = "reply" /\ awaited[f.from])
  /\ seen' = seen \cup {f}
  /\ Listened(f)
  /\ Answered(f)
  /\ UNCHANGED awaited

Handled(f) ==
  /\ Arrives(f)
  /\ Admitted(f)
  /\ Remembers(f)
  /\ ~(f.kind = "reply" /\ awaited[f.from])
  /\ Listened(f)
  /\ Answered(f)
  /\ UNCHANGED awaited

ReceiveFrame(f) ==
  \/ FromStranger(f) \/ TurnedAway(f)
  \/ Repeated(f) \/ Ignored(f) \/ ReplyArrives(f) \/ Handled(f)

-----------------------------------------------------------------------------
(* Those who wait.                                                         *)

RequestSent(p) ==
  /\ known[p] # "unknown"
  /\ ~awaited[p]
  /\ awaited' = [awaited EXCEPT ![p] = TRUE]
  /\ UNCHANGED <<network, devices, effects, seen, registered, future>>

RequestTimesOut(p) ==
  /\ awaited[p]
  /\ awaited' = [awaited EXCEPT ![p] = FALSE]
  /\ UNCHANGED <<network, devices, effects, seen, registered, future>>

\* The object a listener is for is the one in `devices' when it is registered.
Register(l) ==
  /\ future[l] = "none"
  /\ l.from # Anybody => known[l.from] # "unknown"
  /\ registered' = Append(registered,
       [listener |-> l, custom |-> l.from # Anybody /\ custom[l.from]])
  /\ future' = [future EXCEPT ![l] = "open"]
  /\ UNCHANGED <<network, devices, effects, seen, awaited>>

\* Who awaits the future gives up; the listener is removed when it runs again.
GiveUp(l) ==
  /\ l.future
  /\ future[l] = "open"
  /\ future' = [future EXCEPT ![l] = "cancelled"]
  /\ UNCHANGED <<network, devices, effects, seen, awaited, registered>>

Unregister(l) ==
  /\ future[l] # "none"
  /\ l.future => future[l] # "open"
  /\ future' = [future EXCEPT ![l] = "none"]
  /\ \E n \in DOMAIN registered : Waiter(n) = l /\ registered' = RemoveAt(registered, n)
  /\ UNCHANGED <<network, devices, effects, seen, awaited>>

PacketsNext ==
  \/ \E f \in Frames : \/ \E copies \in 1 .. MaxCopies : SendFrame(f, copies)
                       \/ Lose(f) \/ Forget(f) \/ ReceiveFrame(f)
  \/ \E p \in Senders : \/ RelaysReceived(p)
                        \/ Interview(p) \/ InterviewFails(p) \/ Announced(p)
                        \/ RequestSent(p) \/ RequestTimesOut(p)
  \/ \E l \in Listeners : Register(l) \/ GiveUp(l) \/ Unregister(l)

\* Devices that are not initialized report again and again, and answer when they are
\* asked for their address.
Talks(f) ==
  known[f.from] # "initialized" /\ \E copies \in 1 .. MaxCopies : SendFrame(f, copies)
PacketsFairness ==
  /\ \A f \in Frames : WF_packetVars(Forget(f)) /\ WF_packetVars(ReceiveFrame(f))
  /\ \A f \in {g \in Frames : g.kind \in {"report", "address"}} : WF_packetVars(Talks(f))

PacketsSpec == PacketsInit /\ [][PacketsNext]_packetVars /\ PacketsFairness

-----------------------------------------------------------------------------
(* Properties.                                                             *)

PacketsTypeOK ==
  /\ underWay \in [Frames -> 0 .. MaxCopies] /\ lost \in 0 .. MaxLosses
  /\ seen \subseteq Frames
  /\ known \in [Senders -> Stages]
  /\ {interviewed, custom, discovering, awaited} \subseteq [Senders -> BOOLEAN]
  /\ registered \in Seq([listener : Listeners, custom : BOOLEAN])
  /\ future \in [Listeners -> {"none", "open", "resolved", "cancelled"}]
  /\ {answers, ended} \subseteq [Frames -> Nat]

\* A frame is answered at most once by an object of the device, and ends at most
\* one wait for a response, however often the network delivers it.
HandledOnce == \A f \in Frames : answers[f] <= 1 /\ ended[f] <= 1

\* Who goes on waiting although the frame it waits for was handled has lost it to
\* somebody who was asked before: callbacks, and futures that are done, take no
\* frame from anybody.
FirstWaiterFirst ==
  [][\A f \in Frames : answers'[f] > answers[f] =>
       \A n \in Asked(f) :
         (Resolves(Waiter(n), f) /\ future'[Waiter(n)] = "open") =>
            \E k \in Asked(f) : /\ Before(k, n)
                                /\ future[Waiter(k)] = "open"
                                /\ future'[Waiter(k)] = "resolved"]_packetVars

\* A device that is not initialized is interviewed sooner or later if only it keeps
\* on reporting: when nobody knows it, and wherever an earlier interview has failed.
TalkersAreInterviewed ==
  \A p \in Senders :
    known[p] # "initialized" ~> interviewed[p] \/ known[p] = "initialized"
=============================================================================
