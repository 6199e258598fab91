---------------------------- MODULE MCLwipTimers ----------------------------
(* TCP, the DHCP fine timer, IP reassembly and ARP; a tick is 250 ms. *)
EXTENDS LwipTimers

MCStarted == <<"ip_reass", "arp", "dhcp_fine">>
MCInterval == [tcp |-> 1, dhcp_fine |-> 2, ip_reass |-> 4, arp |-> 20]
=============================================================================
