---------------------------- MODULE BackupFormats ----------------------------
(***************************************************************************)
(* A network backup as JSON and back: as_dict and from_dict, which the     *)
(* database uses, and the Open Coordinator Backup format, in which other   *)
(* programs write backups too (zigpy/backups.py, zigpy/state.py).          *)
(*                                                                         *)
(* An address is the sequence of its bytes as they are serialized, lowest  *)
(* first.  Absent values are <<>>.  The order of children and keys, which  *)
(* the two formats sort differently, is left out, and so are settings that *)
(* are copied as they are: channels, PAN ids, versions, metadata.           *)
(***************************************************************************)
EXTENDS Integers, Sequences

Lists == INSTANCE SequencesExt

CONSTANTS
  Coordinator,       \* the IEEE address of the coordinator
  Eui64s,            \* IEEE addresses of devices
  ShortAddress,      \* per device, the network address it may have
  Managers,          \* network addresses of the network manager
  LinkKeys,          \* [tx_counter, rx_counter, seq]
  Partners           \* partner_ieee of the trust center's link key

ASSUME AddressesAreBytes ==
  /\ Coordinator \in Seq(0 .. 255) /\ Partners \subseteq Seq(0 .. 255)
  /\ Eui64s \subseteq Seq(0 .. 255)
  /\ ShortAddress \in [Eui64s -> Seq(0 .. 255) \ {<<>>}]
ASSUME KeysHaveCounters == LinkKeys \subseteq [tx_counter : Nat, rx_counter : Nat, seq : Nat]

VARIABLES
  saved,      \* the NetworkBackup
  file,       \* the JSON object, or <<>>
  restored    \* the NetworkBackup read from it, or <<>>

formatVars == <<saved, file, restored>>

UnknownKey == [tx_counter |-> 0, partner_ieee |-> Coordinator]

\* A device can be in any of the three tables, or in several.
FormatsInit ==
  /\ \E ch \in SUBSET Eui64s, addressed \in SUBSET Eui64s, partners \in SUBSET Eui64s :
     \E keys \in [partners -> LinkKeys], manager \in Managers, tc \in Partners :
       saved = [nwk_manager_id |-> manager, model |-> <<"model">>,
                tc_link_key |-> [tx_counter |-> 1, partner_ieee |-> tc],
                children |-> ch, key_table |-> keys,
                nwk_addresses |-> [i \in addressed |-> ShortAddress[i]]]
  /\ file = <<>>
  /\ restored = <<>>

-----------------------------------------------------------------------------
(* Writing.                                                                *)

\* serialize()[::-1].hex()
Hex(address) == Lists!Reverse(address)
FromHex(hex) == Lists!Reverse(hex)

\* as_dict of the backup and of its parts.
AsDict(b) == [version |-> 1, node_info |-> [model |-> b.model], network_info |-> b]

\* What zigpy wrote before the node info had a model.
AsDictOfVersion0(b) == [node_info |-> <<>>, network_info |-> b]

\* Mutant of DevicesOf: a key of a device that is in no other table is dropped.
DevicesWithAPlace(b) == DOMAIN b.nwk_addresses \cup b.children

\* The three tables are merged into one.
DevicesOf(b) == DOMAIN b.nwk_addresses \cup b.children \cup DOMAIN b.key_table

DeviceAsJson(b, i) ==
  LET LinkKey == [tx_counter |-> b.key_table[i].tx_counter,
                  rx_counter |-> b.key_table[i].rx_counter]
  IN  [ieee_address |-> Hex(i),
       nwk_address |-> IF i \in DOMAIN b.nwk_addresses THEN Hex(b.nwk_addresses[i]) ELSE <<>>,
       is_child |-> <<i \in b.children>>,
       link_key |-> IF i \in DOMAIN b.key_table THEN <<LinkKey>> ELSE <<>>]

AsOpenJson(b) ==
  [metadata |->
     [node |-> <<b.model>>,
      network |-> <<[tc_link_key |-> b.tc_link_key.tx_counter,
                     tc_address |-> Hex(b.tc_link_key.partner_ieee),
                     nwk_manager |-> Hex(b.nwk_manager_id)]>>,
      link_key_seqs |->
        {<<Hex(i), b.key_table[i].seq>> : i \in DOMAIN b.key_table}],
   coordinator_ieee |-> Hex(Coordinator),
   devices |-> {DeviceAsJson(b, i) : i \in DevicesOf(b)}]

\* What others write: nothing internal, and is_child as they like.
OthersJson(b) ==
  LET open == AsOpenJson(b)
  IN [open EXCEPT !.metadata = [node |-> <<>>, network |-> <<>>, link_key_seqs |-> {}],
                  !.devices = {IF d.is_child = <<TRUE>> THEN [d EXCEPT !.is_child = <<>>]
                               ELSE d : d \in @}]

FileWritten(json) ==
  /\ file = <<>>
  /\ file' = json
  /\ UNCHANGED <<saved, restored>>

-----------------------------------------------------------------------------
(* Reading.                                                                *)

OfDict(json) ==
  IF "version" \in DOMAIN json THEN [json.network_info EXCEPT !.model = json.node_info.model]
  ELSE [json.network_info EXCEPT !.model = <<>>]

\* `is_child' may be missing.
IsChild(d) == d.is_child # <<FALSE>>

\* The numbers are looked up by the address as it is written.
KeySeqOf(json, d) ==
  IF \E s \in json.metadata.link_key_seqs : s[1] = d.ieee_address
  THEN (CHOOSE s \in json.metadata.link_key_seqs : s[1] = d.ieee_address)[2]
  ELSE 0

\* The address of the manager is not turned around.
ManagerOf(json) ==
  IF json.metadata.network = <<>> THEN <<0, 0>>
  ELSE json.metadata.network[1].nwk_manager

OfOpenJson(json) ==
  LET Devices(Test(_)) == {d \in json.devices : Test(d)}
      At(i) == CHOOSE d \in json.devices : FromHex(d.ieee_address) = i
      Read(devices) == {FromHex(d.ieee_address) : d \in devices}
      network == json.metadata.network
  IN  [nwk_manager_id |-> ManagerOf(json),
       model |-> IF json.metadata.node = <<>> THEN <<>> ELSE json.metadata.node[1],
       tc_link_key |->
         IF network = <<>>
         THEN [tx_counter |-> 0, partner_ieee |-> FromHex(json.coordinator_ieee)]
         ELSE [tx_counter |-> network[1].tc_link_key,
               partner_ieee |-> FromHex(network[1].tc_address)],
       children |-> Read(Devices(IsChild)),
       key_table |->
         [i \in Read(Devices(LAMBDA d : d.link_key # <<>>)) |->
            [tx_counter |-> At(i).link_key[1].tx_counter,
             rx_counter |-> At(i).link_key[1].rx_counter, seq |-> KeySeqOf(json, At(i))]],
       nwk_addresses |->
         [i \in Read(Devices(LAMBDA d : d.nwk_address # <<>>)) |-> FromHex(At(i).nwk_address)]]

\* from_dict tells the formats apart.
FromDict ==
  /\ file # <<>> /\ restored = <<>>
  /\ restored' = IF "metadata" \in DOMAIN file THEN OfOpenJson(file) ELSE OfDict(file)
  /\ UNCHANGED <<saved, file>>

FormatsNext ==
  \/ FileWritten(AsDict(saved)) \/ FileWritten(AsDictOfVersion0(saved))
  \/ FileWritten(AsOpenJson(saved)) \/ FileWritten(OthersJson(saved))
  \/ FromDict

FormatsSpec == FormatsInit /\ [][FormatsNext]_formatVars

-----------------------------------------------------------------------------
(* Properties.                                                             *)

ByOthers == "metadata" \in DOMAIN file /\ file.metadata.network = <<>>

\* Whichever format it was in, a restored network has the devices it had: the same
\* children and addresses, and the same keys with counters that do not go back.  Only
\* what zigpy adds to the open format is lost in a file of another program.
BackupComesBack ==
  restored # <<>> =>
    /\ restored.children = saved.children
    /\ restored.nwk_addresses = saved.nwk_addresses
    /\ DOMAIN restored.key_table = DOMAIN saved.key_table
    /\ \A i \in DOMAIN saved.key_table :
         LET key == saved.key_table[i]
         IN restored.key_table[i] = IF ByOthers THEN [key EXCEPT !.seq = 0] ELSE key
    /\ restored.tc_link_key = IF ByOthers THEN UnknownKey ELSE saved.tc_link_key
    /\ restored.model \in {saved.model, <<>>}

\* test_backups.py compares a backup with what is read from its open format: they are
\* equal, the manager of the network included.
ManagerComesBack ==
  restored # <<>> /\ ~ByOthers => restored.nwk_manager_id = saved.nwk_manager_id
=============================================================================
