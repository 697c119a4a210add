---------------------------- MODULE MCDnsPosture ----------------------------
(* A small instance of DnsPosture for TLC: domains that publish all, some  *)
(* or none of the controls.                                                *)
EXTENDS DnsPosture, TLC

Zone(mx, caa, spf, dmarc, ds, dnskey) ==
  ("A" :> {}) @@ ("AAAA" :> {}) @@ ("NS" :> {}) @@ ("MX" :> mx) @@ ("CAA" :> caa) @@
  ("SPF" :> spf) @@ ("DMARC" :> dmarc) @@ ("DS" :> ds) @@ ("DNSKEY" :> dnskey)

Yes == {"record"}

\* A missing delegation leaves a signed zone with DNSKEY and no DS.
MCZones ==
  { Zone(Yes, Yes, Yes, {"p=reject"}, {}, {}),
    Zone(Yes, {}, Yes, {"p=none"}, {}, Yes),
    Zone({}, Yes, {}, {}, Yes, Yes),
    Zone(Yes, {}, {}, {"no policy"}, {}, {}),
    Zone(Yes, {}, {}, {}, {}, {}) }
=============================================================================
