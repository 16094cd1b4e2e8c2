--------------------------- MODULE MCBastionTunnel ---------------------------
(* Model-checking instance of BastionTunnel: configurations and bastions on *)
(* both sides of each rule.                                                *)
EXTENDS BastionTunnel

ToResource == [bastion |-> TRUE, resource |-> "valid", ip |-> "unset",
               port |-> 443, localPort |-> 0]
ToAddress == [ToResource EXCEPT !.resource = "unset", !.ip = "valid", !.port = 3389]

MCConfigs ==
    {ToResource, ToAddress,
     [ToResource EXCEPT !.bastion = FALSE], [ToResource EXCEPT !.resource = "invalid"],
     [ToResource EXCEPT !.ip = "valid"], [ToResource EXCEPT !.resource = "unset"],
     [ToResource EXCEPT !.port = 0], [ToResource EXCEPT !.port = 65536],
     [ToResource EXCEPT !.localPort = 65536],
     [ToAddress EXCEPT !.ip = "invalid"], [ToAddress EXCEPT !.port = 443]}

Capable == [sku |-> "Standard", tunneling |-> TRUE, ipConnect |-> TRUE, dns |-> "valid"]

MCInfos ==
    {Capable,
     [Capable EXCEPT !.sku = "Premium", !.ipConnect = FALSE],
     [Capable EXCEPT !.sku = "Basic"], [Capable EXCEPT !.tunneling = FALSE],
     [Capable EXCEPT !.dns = "unset"], [Capable EXCEPT !.dns = "invalid"],
     [sku |-> "", tunneling |-> FALSE, ipConnect |-> FALSE, dns |-> "unset"]}
=============================================================================
