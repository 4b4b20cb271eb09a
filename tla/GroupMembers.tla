---------------------------- MODULE GroupMembers ----------------------------
(***************************************************************************)
(* Groups and the endpoint of one device that joins and leaves them:       *)
(* zigpy/group.py, the group methods of Endpoint (zigpy/endpoint.py) and   *)
(* their rows in the database (zigpy/appdb.py).                            *)
(*                                                                         *)
(* A device that is removed and joins again has a new Endpoint with the    *)
(* unique_id of the old one.  The objects are numbered 1, 2, ... from the  *)
(* start of the program; a request that an old one has sent may still be   *)
(* answered when a new one is there.                                       *)
(***************************************************************************)
EXTENDS Integers, Sequences, FiniteSets

CONSTANTS
  Groups,       \* group ids
  MaxMade,      \* bound: the objects of one run of the program
  MaxEvents     \* bound: the events in the queue of the database listener

ASSUME GroupsAreFinite == IsFiniteSet(Groups)
ASSUME ObjectBound == MaxMade \in Nat \ {0}
ASSUME EventBound == MaxEvents \in Nat

EndpointObjects == 1 .. MaxMade

VARIABLES
  current,      \* the object in app.devices, 0 without one
  made,         \* the number of the latest object
  groups,       \* app.groups
  member,       \* per group: the Endpoint under the device's unique_id, or 0
  memberOf,     \* per object: member_of
  events,       \* the queue of the database listener
  deviceRow,    \* whether the device and its endpoint have their rows
  groupRows, memberRows,
  removed       \* history: the device was removed since the program started

groupVars == <<current, made, groups, member, memberOf, events, deviceRow, groupRows,
               memberRows, removed>>
memoryVars == <<current, made, groups, member, memberOf, removed>>
rowVars == <<deviceRow, groupRows, memberRows>>

GroupsInit ==
  /\ current = 1
  /\ made = 1
  /\ groups = {}
  /\ member = [g \in Groups |-> 0]
  /\ memberOf = [o \in EndpointObjects |-> {}]
  /\ events = <<>>
  /\ deviceRow = TRUE
  /\ groupRows = {}
  /\ memberRows = {}
  /\ removed = FALSE

-----------------------------------------------------------------------------
(* zigpy.group.  What an operation does to the memory, and the events that  *)
(* it enqueues.                                                            *)

Event(what, g) == [what |-> what, group |-> g]

Enqueue(more) ==
  /\ Len(events) + Len(more) <= MaxEvents
  /\ events' = events \o more

\* Mutant of AddMember: the object given is entered whoever is there already.
AddMemberAnew(g, o) ==
  /\ groups' = groups \cup {g}
  /\ member' = [member EXCEPT ![g] = o]
  /\ memberOf' = IF member[g] = 0 THEN [memberOf EXCEPT ![o] = @ \cup {g}] ELSE memberOf

\* add_group and add_member.  Nothing happens to a group that has a member of
\* that unique_id, be it another object.
AddMember(g, o) ==
  /\ groups' = groups \cup {g}
  /\ member' = [member EXCEPT ![g] = IF @ = 0 THEN o ELSE @]
  /\ memberOf' = IF member[g] = 0 THEN [memberOf EXCEPT ![o] = @ \cup {g}] ELSE memberOf

AddEvents(g) ==
  (IF g \in groups THEN <<>> ELSE <<Event("group_added", g)>>) \o
  (IF member[g] # 0 THEN <<>> ELSE <<Event("member_added", g)>>)

\* remove_member: by unique_id in the group, by group in the object given.
RemoveMember(g, o) ==
  /\ member' = [member EXCEPT ![g] = 0]
  /\ memberOf' = [memberOf EXCEPT ![o] = @ \ {g}]
  /\ UNCHANGED groups

\* The device has answered the request of object o to enter group g.
AddedToGroup(o, g) ==
  /\ AddMember(g, o)
  /\ Enqueue(AddEvents(g))
  /\ UNCHANGED <<current, made, removed, rowVars>>

\* The same for leaving.
RemovedFromGroup(o, g) ==
  /\ g \in groups
  /\ RemoveMember(g, o)
  /\ Enqueue(<<Event("member_removed", g)>>)
  /\ UNCHANGED <<current, made, removed, rowVars>>

\* The orders in which the members of a set are gone through.
Orders(gs) == {order \in [1 .. Cardinality(gs) -> gs] : \A g \in gs : \E i \in DOMAIN order : order[i] = g}

LeftEvents(order) == [i \in DOMAIN order |-> Event("member_removed", order[i])]
EnteredEvents(order) ==
  LET upTo[k \in 0 .. Len(order)] ==
        IF k = 0 THEN <<>> ELSE upTo[k - 1] \o AddEvents(order[k])
  IN  upTo[Len(order)]

\* group_membership_scan: the device has told object o the groups it is in, and
\* update_group_membership leaves the others first, then enters the new ones.
MembershipScanned(o, told) ==
  LET known == {g \in groups : member[g] # 0} IN
  /\ groups' = groups \cup told
  /\ member' = [g \in Groups |-> IF g \in known \ told THEN 0
                                 ELSE IF g \in told \ known THEN o
                                 ELSE member[g]]
  /\ memberOf' = [memberOf EXCEPT ![o] = (@ \ (known \ told)) \cup (told \ known)]
  /\ \E left \in Orders(known \ told), entered \in Orders(told \ known) :
       Enqueue(LeftEvents(left) \o EnteredEvents(entered))
  /\ UNCHANGED <<current, made, removed, rowVars>>

\* Groups.pop: its members leave the group, then it is gone.
RemoveGroup(g) ==
  /\ g \in groups
  /\ groups' = groups \ {g}
  /\ member' = [member EXCEPT ![g] = 0]
  /\ memberOf' = [o \in EndpointObjects |-> IF o = member[g] THEN memberOf[o] \ {g} ELSE memberOf[o]]
  /\ Enqueue((IF member[g] = 0 THEN <<>> ELSE <<Event("member_removed", g)>>) \o
             <<Event("group_removed", g)>>)
  /\ UNCHANGED <<current, made, removed, rowVars>>

-----------------------------------------------------------------------------
(* The device.                                                             *)

\* remove(): the listeners are told at once, and the device is popped when its
\* request to leave has ended.  Its groups keep the endpoint.
RemoveDevice ==
  /\ current # 0
  /\ removed' = TRUE
  /\ Enqueue(<<Event("device_removed", 0)>>)
  /\ UNCHANGED <<current, made, groups, member, memberOf, rowVars>>

DevicePopped ==
  /\ current # 0
  /\ removed
  /\ current' = 0
  /\ UNCHANGED <<made, groups, member, memberOf, events, removed, rowVars>>

\* It joins again and is initialized.
DeviceAnnounced ==
  /\ current = 0
  /\ made < MaxMade
  /\ current' = made + 1
  /\ made' = made + 1
  /\ Enqueue(<<Event("device_saved", 0)>>)
  /\ UNCHANGED <<groups, member, memberOf, removed, rowVars>>

-----------------------------------------------------------------------------
(* zigpy.appdb.                                                            *)

\* Mutant of MemberRowsAfter: the members are left when the group is deleted.
MemberRowsAfterKept(e) ==
  CASE e.what = "member_added"   -> IF deviceRow /\ e.group \in groupRows
                                    THEN memberRows \cup {e.group} ELSE memberRows
    [] e.what = "device_removed" -> {}
    [] OTHER                     -> memberRows

\* A member's row needs the rows of its group and of its endpoint, and goes
\* with either of them.
MemberRowsAfter(e) ==
  CASE e.what = "member_added"   -> IF deviceRow /\ e.group \in groupRows
                                    THEN memberRows \cup {e.group} ELSE memberRows
    [] e.what \in {"member_removed", "group_removed"} -> memberRows \ {e.group}
    [] e.what = "device_removed" -> {}
    [] OTHER                     -> memberRows

\* The worker commits one event after the other; an error is logged.
GroupWorker ==
  /\ events # <<>>
  /\ LET e == Head(events) IN
     /\ groupRows' = CASE e.what = "group_added"   -> groupRows \cup {e.group}
                       [] e.what = "group_removed" -> groupRows \ {e.group}
                       [] OTHER                    -> groupRows
     /\ deviceRow' = CASE e.what = "device_saved"   -> TRUE
                       [] e.what = "device_removed" -> FALSE
                       [] OTHER                     -> deviceRow
     /\ memberRows' = MemberRowsAfter(e)
  /\ events' = Tail(events)
  /\ UNCHANGED memoryVars

\* The program ends at any time and is started again: what was not committed is
\* lost, and load() makes the objects from the rows.
RestartGroups ==
  /\ current' = (IF deviceRow THEN 1 ELSE 0)
  /\ made' = (IF deviceRow THEN 1 ELSE 0)
  /\ groups' = groupRows
  /\ member' = [g \in Groups |-> IF g \in memberRows THEN 1 ELSE 0]
  /\ memberOf' = [o \in EndpointObjects |-> IF o = 1 THEN memberRows ELSE {}]
  /\ events' = <<>>
  /\ removed' = FALSE
  /\ UNCHANGED rowVars

GroupsNext ==
  \/ \E o \in 1 .. made, g \in Groups : AddedToGroup(o, g) \/ RemovedFromGroup(o, g)
  \/ \E o \in 1 .. made, told \in SUBSET Groups : MembershipScanned(o, told)
  \/ \E g \in Groups : RemoveGroup(g)
  \/ RemoveDevice \/ DevicePopped \/ DeviceAnnounced
  \/ GroupWorker \/ RestartGroups

GroupsSpec == GroupsInit /\ [][GroupsNext]_groupVars

-----------------------------------------------------------------------------
(* Properties.                                                             *)

EventKinds == {"group_added", "member_added", "member_removed", "group_removed",
               "device_saved", "device_removed"}

GroupsTypeOK ==
  /\ current \in 0 .. made
  /\ made \in 0 .. MaxMade
  /\ groups \subseteq Groups
  /\ member \in [Groups -> 0 .. MaxMade]
  /\ memberOf \in [EndpointObjects -> SUBSET Groups]
  /\ \A i \in DOMAIN events : events[i].what \in EventKinds
  /\ deviceRow \in BOOLEAN
  /\ groupRows \subseteq Groups
  /\ memberRows \subseteq groupRows
  /\ removed \in BOOLEAN

\* Whoever is a member of a group knows of it, whichever object of the device
\* has entered it and whichever has left it.
MembersKnowTheirGroup ==
  \A g \in Groups : member[g] # 0 => g \in groups /\ g \in memberOf[member[g]]

\* When the worker has caught up, no row is there that the memory does not have:
\* nothing that was left comes back with a restart.  Unless the device was
\* removed, the rows are exactly what the memory has.  (After a removal the
\* groups keep the old endpoint without a row, and the new one cannot enter.)
GroupRowsFollow ==
  events = <<>> =>
    LET members == {g \in Groups : member[g] # 0} IN
    /\ groupRows = groups
    /\ memberRows \subseteq members
    /\ ~removed => memberRows = members

\* Objects, groups and rows agree about who is a member of what.
MembershipAgrees == MembersKnowTheirGroup /\ GroupRowsFollow
=============================================================================
