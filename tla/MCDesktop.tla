----------------------------- MODULE MCDesktop ------------------------------
(* A chosen file and the file of pasted profiles; a profile of the panel, a co-tenant of a *)
(* CDN, the reference RTC profile, which has no endpoint, and one that validate refuses.   *)
EXTENDS Desktop

Reached == [given |-> TRUE, addr |-> TRUE, sni |-> TRUE, psk |-> TRUE, pub |-> TRUE,
            config |-> TRUE]

MCLibrary ==
    [vps   |-> ClientProfile("stream"),
     media |-> [ExampleMedia EXCEPT !.endpoint = Reached],
     rtc   |-> ExampleRtc,
     bare  |-> [ExampleMedia EXCEPT !.endpoint = [Reached EXCEPT !.config = FALSE]]]

MCNames == DOMAIN MCLibrary
=============================================================================
