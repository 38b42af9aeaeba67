------------------------------ MODULE Profiles ------------------------------
(***************************************************************************)
(* Profiles as data: what validate refuses (vlyness-profile/validate.rs),  *)
(* the profiles the repository writes itself (model.rs, profilegen.rs) and *)
(* what resolve_from_profile and establish make of one (client.rs).        *)
(*                                                                         *)
(* Strings are kept as far as a check looks at them: a name that must not  *)
(* be empty is a truth value, a User-Agent is the set of devices whose     *)
(* mark it bears, a route is the set of its placeholders.                  *)
(***************************************************************************)
EXTENDS Integers

\* DEVICE_REGISTRY; a device's SETTINGS profile has the name of its fingerprint.
Devices   == {"okhttp-4", "cronet-android", "nsurlsession-ios", "firefox-128"}
PqDevices == {"cronet-android", "firefox-128"}

When(broken, code) == IF broken THEN {code} ELSE {}

DeviceErrors(p) ==
    IF p.fp \notin Devices THEN {"unknown_fingerprint"}
    ELSE When(p.settings # p.fp, "settings_fp_mismatch")
         \cup When(p.fp \notin p.ua, "ua_fp_mismatch")
         \cup When(p.pq # (p.fp \in PqDevices), "pq_keyshare_mismatch")

AlpnErrors(p) ==
    IF p.version \notin {2, 3} THEN {"bad_http_version"}
    ELSE When((IF p.version = 2 THEN "h2" ELSE "h3") \notin p.alpn, "alpn_http_mismatch")

\* check_carrier_placement
Places(kind) ==
    CASE kind = "cdn-cotenant" -> {"cdn"}
      [] kind = "local-cloud" -> {"cdn", "colo"}
      [] kind = "service-channel" -> {"cdn", "colo"}
      [] kind = "refraction" -> {"cdn", "colo", "direct"}
      [] kind = "direct" -> {"direct"}

PlacementErrors(p) ==
    When(p.placement \notin Places(p.kind), "carrier_placement_mismatch")
    \cup When(p.mode = "stream" /\ p.placement = "cdn", "stream_behind_cdn")
    \cup When(p.mode = "segments" /\ p.placement = "direct", "segments_direct")
    \cup When(p.mode = "datagram" /\ p.kind = "service-channel", "datagram_service_channel")

Strict(p) == p.wl \in {"sni", "behave"}

\* check_ech_for_whitelist: where the name on the wire decides, it must be hidden.
NeedsEch(p) == Strict(p) /\ p.kind \in {"cdn-cotenant", "local-cloud"}

EchErrors(p) ==
    When(NeedsEch(p) /\ ~p.ech, "ech_required")
    \cup When(NeedsEch(p) /\ p.ech /\ ~p.public_name, "ech_public_name_empty")
    \cup When(p.ech /\ p.front, "ech_front_conflict")

BudgetErrors(p) ==
    When(p.rotate, "fingerprint_rotation")
    \cup When(p.max_conns = 0, "zero_conns")
    \cup When(p.max_conns > 2, "too_many_conns")
    \cup When(p.backoff_base = 0 \/ p.backoff_cap < p.backoff_base, "bad_backoff")

ScheduleErrors(p) ==
    When(p.hours[1] >= p.hours[2] \/ p.hours[2] > 24, "bad_active_hours")
    \cup When(p.minutes = 0, "zero_session")

TrafficErrors(p) ==
    When(p.ratio = 0, "zero_ratio")
    \cup IF p.mode = "segments"
         THEN When(p.interval = 0, "zero_seg_interval") \cup When(~p.len_profile, "no_len_profile")
              \cup When(~({"sid", "n"} \subseteq p.seg), "bad_seg_route")
              \cup When("sid" \notin p.tel, "bad_tel_route")
         ELSE When(p.packet_up, "packet_up_without_segments")

\* Mutant: nobody asks for the ECHConfigList.
EndpointWithoutEch(p) ==
    IF ~p.endpoint.given THEN {}
    ELSE When(~p.endpoint.addr, "bad_server_addr") \cup When(~p.endpoint.sni, "empty_sni")
         \cup When(~p.endpoint.psk, "empty_psk") \cup When(~p.endpoint.pub, "empty_server_pub")

EndpointErrors(p) ==
    IF ~p.endpoint.given THEN {}
    ELSE When(~p.endpoint.addr, "bad_server_addr") \cup When(~p.endpoint.sni, "empty_sni")
         \cup When(~p.endpoint.psk, "empty_psk") \cup When(~p.endpoint.pub, "empty_server_pub")
         \cup When(p.ech /\ Strict(p) /\ ~p.endpoint.config, "ech_config_missing")

\* validate: all that is wrong with a profile.
Errors(p) ==
    DeviceErrors(p) \cup AlpnErrors(p) \cup PlacementErrors(p) \cup EchErrors(p)
    \cup BudgetErrors(p) \cup ScheduleErrors(p) \cup TrafficErrors(p) \cup EndpointErrors(p)

Coherent(p) == Errors(p) = {}

-----------------------------------------------------------------------------
NoEndpoint == [given |-> FALSE, addr |-> FALSE, sni |-> FALSE, psk |-> FALSE, pub |-> FALSE,
               config |-> FALSE]

\* What the profiles of model.rs and profilegen.rs have in common with example_media.
ExampleMedia ==
    [fp |-> "okhttp-4", settings |-> "okhttp-4", ua |-> {"okhttp-4"}, pq |-> FALSE,
     version |-> 2, alpn |-> {"h2"}, kind |-> "cdn-cotenant", placement |-> "cdn",
     mode |-> "segments", wl |-> "sni", ech |-> TRUE, public_name |-> TRUE, source |-> "dns",
     front |-> FALSE, rotate |-> FALSE, max_conns |-> 1, backoff_base |-> 2000,
     backoff_cap |-> 300000, hours |-> <<7, 24>>, minutes |-> 180, ratio |-> 15,
     interval |-> 4000, len_profile |-> TRUE, packet_up |-> FALSE, seg |-> {"sid", "n"},
     tel |-> {"sid"}, endpoint |-> NoEndpoint]

ExampleRtc ==
    [ExampleMedia EXCEPT
        !.fp = "firefox-128", !.settings = "firefox-128", !.ua = {"firefox-128"}, !.pq = TRUE,
        !.version = 3, !.alpn = {"h3"}, !.mode = "datagram", !.interval = 1000, !.ratio = 3]

\* build_client_profile, as the panel and vlyness-setup call it.
ClientProfile(mode) ==
    [(IF mode = "datagram" THEN ExampleRtc ELSE ExampleMedia) EXCEPT
        !.mode = mode, !.kind = "direct", !.placement = "direct", !.wl = "ip",
        !.ech = FALSE, !.public_name = FALSE,
        !.endpoint = [given |-> TRUE, addr |-> TRUE, sni |-> TRUE, psk |-> TRUE, pub |-> TRUE,
                      config |-> FALSE]]

\* CarrierType::cost
Cost(p) ==
    CASE p.kind = "cdn-cotenant" -> 0
      [] p.kind = "local-cloud" -> 1
      [] p.kind = "direct" -> 2
      [] p.kind = "refraction" -> 3
      [] p.kind = "service-channel" -> 4

-----------------------------------------------------------------------------
\* resolve_from_profile: the ECH of the client's TLS configuration, where dns says whether
\* the domain's HTTPS record was had and held one.
Ech(p, dns) ==
    CASE p.endpoint.config -> "real"
      [] ~p.endpoint.config /\ p.ech /\ p.source = "dns" /\ dns -> "real"
      [] ~p.endpoint.config /\ p.ech /\ ~(p.source = "dns" /\ dns) -> "grease"
      [] OTHER -> "none"

CarrierMode(p) ==
    CASE p.mode = "datagram" -> "datagram"
      [] p.mode = "segments" /\ p.packet_up -> "packet-up"
      [] p.mode = "segments" /\ ~p.packet_up -> "segments"
      [] OTHER -> "stream-one"

\* establish: a datagram carrier is dialed with the roots alone, without the configuration.
Dialed(p, dns) ==
    [mode |-> CarrierMode(p), ech |-> IF p.mode = "datagram" THEN "none" ELSE Ech(p, dns)]
=============================================================================
