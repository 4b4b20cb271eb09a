----------------------------- MODULE MCFormats ------------------------------
(***************************************************************************)
(* A small instance of BackupFormats: addresses of two bytes.              *)
(***************************************************************************)
EXTENDS BackupFormats

MCCoordinator == <<9, 8>>

\* The second is the first turned around.
MCEui64s == {<<1, 2>>, <<2, 1>>}
MCShortAddress == [i \in MCEui64s |-> <<i[1] + 4, i[2]>>]
MCLinkKeys == {[tx_counter |-> 1, rx_counter |-> 2, seq |-> s] : s \in {0, 3}}
MCPartners == {MCCoordinator, <<1, 2>>}
MCManagers == {<<0, 0>>, <<7, 0>>}

\* The state of this component where another one runs.
NothingSaved == saved = <<>> /\ file = <<>> /\ restored = <<>>
=============================================================================
