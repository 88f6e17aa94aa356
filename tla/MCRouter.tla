------------------------------ MODULE MCRouter ------------------------------
(***************************************************************************)
(* Router on a small instance: forwarding without a pipeline, forwarding   *)
(* by the ACL pipeline, a mix of forwarded packets with requests that the  *)
(* RX core answers itself, and ARP requests until the pool is dry.         *)
(***************************************************************************)
EXTENDS Router

MCSetups == {[pipeline_type |-> "none", traffic |-> {"ip"}, pkts |-> 4],
             [pipeline_type |-> "acl", traffic |-> {"ip"}, pkts |-> 2],
             [pipeline_type |-> "none", traffic |-> {"arp", "echo", "ip"},
              pkts |-> 2],
             [pipeline_type |-> "none", traffic |-> {"arp"}, pkts |-> 3]}

MCAnswering == {[pipeline_type |-> "none", traffic |-> {"arp", "ip"},
                 pkts |-> 2]}
=============================================================================
